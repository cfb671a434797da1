--------------------------- MODULE Compile_proofs ---------------------------
(***************************************************************************)
(* What the types of expressions promise of their values, and that folding   *)
(* keeps them, whatever the expression and the width of an int.              *)
(*                                                                          *)
(* Types, outcomes and foldings are defined by recursion on the symbols of   *)
(* an expression, whose operands come before them.  The provers have no      *)
(* induction; instead, of the symbols of which something would not hold      *)
(* there is a first one (FirstSymbol).                                      *)
(***************************************************************************)
EXTENDS Compile, SequenceTheorems, WellFoundedInduction, TLAPS

(* Induction, and the three recursive functions.                            *)

\* What holds of a symbol if of all that come before it, holds of all.
LEMMA FirstSymbol ==
    ASSUME NEW n \in Nat, NEW Held,
           \A k \in 1..n : (\A j \in 1..(k - 1) : j \in Held) => k \in Held
    PROVE  1..n \subseteq Held
<1> DEFINE N == {k \in 1..n : k \notin Held}
<1> SUFFICES ASSUME N # {} PROVE FALSE
  OBVIOUS
<1>1. PICK k \in N : \A m \in N : ~(m < k)
  <2>1. IsWellFoundedOn(OpToRel(<, Nat), Nat)
    BY NatLessThanWellFounded
  <2>2. N \subseteq Nat
    OBVIOUS
  <2> HIDE DEF N
  <2>3. PICK k \in N : \A m \in N : ~(<<m, k>> \in OpToRel(<, Nat))
    BY <2>1, <2>2, WFMin
  <2> QED
    BY <2>2, <2>3 DEF OpToRel
<1>2. \A j \in 1..(k - 1) : j \in 1..n /\ j < k
  BY <1>1
<1>3. \A j \in 1..(k - 1) : j \in Held
  BY <1>1, <1>2
<1> QED
  BY <1>1, <1>3

\* What each of them is at a symbol, from what it is at those before.
At(how, e, env, k, f) ==
    CASE how = "type" -> TypeAt(e[k], f)
      [] how = "eval" -> [sigs \in Nat |-> EvalAt(e[k], env, f, sigs)]
      [] how = "fold" -> FoldAt(e[k], TypesOf(e)[k], f)
Fix(how, e, env, n, f) == f = [k \in 1..n |-> At(how, e, env, k, f)]

\* Operands are earlier symbols.
LEMMA Operands ==
    ASSUME NEW e, IsExpr(e), NEW k \in DOMAIN e
    PROVE  /\ e[k].node \in {"const", "var", "call", "un", "bin"}
           /\ e[k].node = "call" /\ Len(e[k].args) = 1 => e[k].args[1] \in 1..(k - 1)
           /\ e[k].node = "un" => e[k].op \in {"+", "-", "~", "!"} /\ e[k].right \in 1..(k - 1)
           /\ e[k].node = "bin" => e[k].left \in 1..(k - 1) /\ e[k].right \in 1..(k - 1)
           /\ k \in 1..Len(e) /\ Len(e) \in Nat /\ 1..(k - 1) \subseteq DOMAIN e
<1>1. IsSym(e[k], k) /\ DOMAIN e = 1..Len(e) /\ Len(e) \in Nat
  BY DEF IsExpr
<1>2. e[k].node = "call" /\ Len(e[k].args) = 1 => e[k].args[1] \in 1..(k - 1)
  <2> SUFFICES ASSUME e[k].node = "call", Len(e[k].args) = 1
               PROVE  e[k].args[1] \in 1..(k - 1)
    OBVIOUS
  <2>1. e[k].args \in Seq(1..(k - 1))
    BY <1>1 DEF IsSym
  <2> QED
    BY <2>1
<1> QED
  BY <1>1, <1>2 DEF IsSym

LEMMA AtLocal ==
    ASSUME NEW how \in {"type", "eval", "fold"}, NEW e, NEW env, IsExpr(e),
           NEW k \in DOMAIN e, NEW f, NEW g, \A j \in 1..(k - 1) : f[j] = g[j]
    PROVE  At(how, e, env, k, f) = At(how, e, env, k, g)
<1> DEFINE s == e[k]
<1>1. /\ s.node \in {"const", "var", "call", "un", "bin"}
      /\ s.node = "call" /\ Len(s.args) = 1 => f[s.args[1]] = g[s.args[1]]
      /\ s.node = "un" => f[s.right] = g[s.right]
      /\ s.node = "bin" => f[s.left] = g[s.left] /\ f[s.right] = g[s.right]
  BY Operands
<1> HIDE DEF s
<1>2. TypeAt(s, f) = TypeAt(s, g)
  BY <1>1 DEF TypeAt
<1>3. ASSUME NEW sigs \in Nat
      PROVE  EvalAt(s, env, f, sigs) = EvalAt(s, env, g, sigs)
  BY <1>1 DEF EvalAt
<1>4. ASSUME NEW t
      PROVE  FoldAt(s, t, f) = FoldAt(s, t, g)
  BY <1>1 DEF FoldAt
<1> QED
  BY <1>2, <1>3, <1>4 DEF At, s

LEMMA FixExists ==
    ASSUME NEW how \in {"type", "eval", "fold"}, NEW e, NEW env, IsExpr(e)
    PROVE  \E f : Fix(how, e, env, Len(e), f)
<1> DEFINE n == Len(e)
           Held == {k \in 1..(n + 1) : \E f : Fix(how, e, env, k - 1, f)}
<1>0. n \in Nat /\ n + 1 \in Nat /\ DOMAIN e = 1..n /\ n + 1 \in 1..(n + 1) /\ (n + 1) - 1 = n
  BY DEF IsExpr
<1>1. ASSUME NEW k \in 1..(n + 1), \A j \in 1..(k - 1) : j \in Held PROVE k \in Held
  <2>1. CASE k = 1
    <3>1. Fix(how, e, env, 0, [j \in 1..0 |-> At(how, e, env, j, j)])
      BY DEF Fix
    <3> QED
      BY <2>1, <3>1
  <2>2. CASE k # 1
    <3>1. k - 1 \in DOMAIN e /\ k - 1 \in 1..(k - 1) /\ k - 1 \in 1..(n + 1) /\ k \in Nat
      BY <1>0, <2>2
    <3>2. PICK f : Fix(how, e, env, (k - 1) - 1, f)
      BY <1>1, <3>1
    <3> DEFINE last == At(how, e, env, k - 1, f)
               g == [j \in 1..(k - 1) |-> IF j = k - 1 THEN last ELSE f[j]]
    <3>3. ASSUME NEW j \in 1..(k - 1) PROVE g[j] = At(how, e, env, j, g)
      <4>1. j \in DOMAIN e /\ \A i \in 1..(j - 1) : f[i] = g[i]
        BY <1>0, <3>1
      <4>2. At(how, e, env, j, f) = At(how, e, env, j, g)
        <5> HIDE DEF g
        <5> QED
          BY <4>1, AtLocal
      <4>3. g[j] = At(how, e, env, j, f)
        <5>1. CASE j = k - 1
          BY <5>1
        <5>2. CASE j # k - 1
          <6>1. j \in 1..((k - 1) - 1) /\ g[j] = f[j]
            BY <3>1, <5>2
          <6> QED
            BY <3>2, <6>1 DEF Fix
        <5> QED
          BY <5>1, <5>2
      <4> QED
        BY <4>2, <4>3
    <3>4. g = [j \in 1..(k - 1) |-> g[j]]
      OBVIOUS
    <3> HIDE DEF g
    <3>5. Fix(how, e, env, k - 1, g)
      BY <3>3, <3>4 DEF Fix
    <3> QED
      BY <3>5
  <2> QED
    BY <2>1, <2>2
<1> HIDE DEF Held, n
<1>2. 1..(n + 1) \subseteq Held
  BY <1>0, <1>1, FirstSymbol
<1>3. n + 1 \in Held
  BY <1>0, <1>2
<1> QED
  BY <1>0, <1>3 DEF Held, n

\* The equations of the three functions.
LEMMA TypesAre ==
    ASSUME NEW e, IsExpr(e)
    PROVE  TypesOf(e) = [k \in DOMAIN e |-> TypeAt(e[k], TypesOf(e))]
<1> DEFINE types[k \in DOMAIN e] == TypeAt(e[k], types)
<1>1. \E f : f = [k \in DOMAIN e |-> TypeAt(e[k], f)]
  <2>1. PICK f : Fix("type", e, <<>>, Len(e), f)
    BY FixExists
  <2>2. f = [k \in 1..Len(e) |-> TypeAt(e[k], f)]
    BY <2>1, Zenon DEF Fix, At
  <2>3. DOMAIN e = 1..Len(e)
    BY DEF IsExpr
  <2> QED
    BY <2>2, <2>3
<1>2. types = [k \in DOMAIN e |-> TypeAt(e[k], types)]
  BY <1>1
<1>3. TypesOf(e) = types
  BY DEF TypesOf
<1> QED
  BY <1>2, <1>3

LEMMA EvalIs ==
    ASSUME NEW e, NEW env, IsExpr(e)
    PROVE  Eval(e, env) =
             [k \in DOMAIN e |-> [sigs \in Nat |-> EvalAt(e[k], env, Eval(e, env), sigs)]]
<1> DEFINE done[k \in DOMAIN e] == [sigs \in Nat |-> EvalAt(e[k], env, done, sigs)]
<1>1. \E f : f = [k \in DOMAIN e |-> [sigs \in Nat |-> EvalAt(e[k], env, f, sigs)]]
  <2>1. PICK f : Fix("eval", e, env, Len(e), f)
    BY FixExists
  <2>2. f = [k \in 1..Len(e) |-> [sigs \in Nat |-> EvalAt(e[k], env, f, sigs)]]
    BY <2>1, Zenon DEF Fix, At
  <2>3. DOMAIN e = 1..Len(e)
    BY DEF IsExpr
  <2> QED
    BY <2>2, <2>3
<1>2. done = [k \in DOMAIN e |-> [sigs \in Nat |-> EvalAt(e[k], env, done, sigs)]]
  BY <1>1
<1>3. Eval(e, env) = done
  BY DEF Eval
<1> QED
  BY <1>2, <1>3

LEMMA FoldIs ==
    ASSUME NEW e, IsExpr(e)
    PROVE  Fold(e) = [k \in DOMAIN e |-> FoldAt(e[k], TypesOf(e)[k], Fold(e))]
<1> DEFINE folded[k \in DOMAIN e] == FoldAt(e[k], TypesOf(e)[k], folded)
<1>1. \E f : f = [k \in DOMAIN e |-> FoldAt(e[k], TypesOf(e)[k], f)]
  <2>1. PICK f : Fix("fold", e, <<>>, Len(e), f)
    BY FixExists
  <2>2. f = [k \in 1..Len(e) |-> FoldAt(e[k], TypesOf(e)[k], f)]
    BY <2>1, Zenon DEF Fix, At
  <2>3. DOMAIN e = 1..Len(e)
    BY DEF IsExpr
  <2> QED
    BY <2>2, <2>3
<1>2. folded = [k \in DOMAIN e |-> FoldAt(e[k], TypesOf(e)[k], folded)]
  BY <1>1
<1>3. Fold(e) = folded
  BY DEF Fold
<1> QED
  BY <1>2, <1>3
-----------------------------------------------------------------------------
(* The operations.                                                          *)

\* What a constant may hold: folding may come across an expression without a
\* type, whose value is of no type.
IsVal(v) ==
    /\ v = Val(v.type, v.n) /\ v.n \in Int
    /\ v.type = "undef" \/ InRange(v)
ValOf(v, t) == IsVal(v) /\ v.type = t /\ t # "undef"

LEMMA ValTypes ==
    ASSUME NEW v, IsVal(v)
    PROVE  /\ v.type \in {"int", "bool", "string", "undef"}
           /\ v.type = "int" => v.n \in Ints
           /\ v.type = "bool" => v.n \in {0, 1}
           /\ v.type = "string" => v.n \in 0..MaxStr
  BY DEF IsVal, InRange

LEMMA MakesVal ==
    ASSUME NEW t, NEW n \in Int,
           \/ t = "undef"
           \/ t = "int" /\ n \in Ints
           \/ t = "bool" /\ n \in {0, 1}
           \/ t = "string" /\ n \in 0..MaxStr
    PROVE  IsVal(Val(t, n)) /\ Val(t, n).type = t /\ Val(t, n).n = n
<1>1. Val(t, n).type = t /\ Val(t, n).n = n
  BY DEF Val
<1> QED
  BY <1>1 DEF IsVal, InRange

LEMMA BoolIs ==
    ASSUME NEW b
    PROVE  /\ IsVal(NewBool(b)) /\ NewBool(b).type = "bool"
           /\ NewBool(b) \in {NewBool(TRUE), NewBool(FALSE)}
<1>1. /\ IsVal(Val("bool", 1)) /\ Val("bool", 1).type = "bool"
      /\ IsVal(Val("bool", 0)) /\ Val("bool", 0).type = "bool"
  BY MakesVal
<1>2. CASE b
  <2>1. NewBool(b) = Val("bool", 1) /\ NewBool(TRUE) = Val("bool", 1)
    BY <1>2 DEF NewBool
  <2> QED
    BY <1>1, <2>1, Zenon
<1>3. CASE ~b
  <2>1. NewBool(b) = Val("bool", 0) /\ NewBool(FALSE) = Val("bool", 0)
    BY <1>3 DEF NewBool
  <2> QED
    BY <1>1, <2>1, Zenon
<1> QED
  BY <1>2, <1>3

\* An int is what its bits say.
LEMMA WrapIs ==
    ASSUME NEW n \in Int
    PROVE  Wrap(n) \in Ints /\ (n \in Ints => Wrap(n) = n)
<1> DEFINE m == 2 * MaxInt + 2
           k == n + MaxInt + 1
<1>1. MaxInt \in Nat
  BY ExprsAssumption
<1>2. m \in Nat \ {0} /\ k \in Int
  BY <1>1
<1>3. k % m \in 0..(m - 1) /\ (k \in 0..(m - 1) => k % m = k)
  <2> HIDE DEF m, k
  <2> QED
    BY <1>2
<1>4. Wrap(n) = (k % m) - (MaxInt + 1)
  BY DEF Wrap
<1>5. n \in Ints => k \in 0..(m - 1) /\ k - (MaxInt + 1) = n
  BY <1>1 DEF Ints
<1> DEFINE r == k % m
<1>6. r \in 0..(m - 1) => r - (MaxInt + 1) \in Ints
  <2> HIDE DEF r
  <2> QED
    BY <1>1 DEF Ints
<1> HIDE DEF k
<1> QED
  BY <1>3, <1>4, <1>5, <1>6

LEMMA QuoIs ==
    ASSUME NEW m \in Int, NEW n \in Int, n # 0
    PROVE  Quo(m, n) \in Int
<1> DEFINE q == Abs(m) \div Abs(n)
           sign == IF (m < 0) = (n < 0) THEN 1 ELSE -1
<1>1. Abs(m) \in Nat /\ Abs(n) \in Nat \ {0}
  BY DEF Abs
<1>2. q \in Int
  <2> DEFINE a == Abs(m)
             b == Abs(n)
  <2> HIDE DEF a, b
  <2>1. a \in Nat /\ b \in Nat \ {0} => a \div b \in Int
    OBVIOUS
  <2> QED
    BY <1>1, <2>1 DEF a, b
<1>3. sign \in Int
  OBVIOUS
<1>4. Quo(m, n) = sign * q
  BY DEF Quo
<1> HIDE DEF sign, q
<1> QED
  BY <1>2, <1>3, <1>4

LEMMA IntOpIs ==
    ASSUME NEW op, NEW m \in Ints, NEW n \in Ints, op \in {"/", "%"} => n # 0
    PROVE  IntOp(op, m, n) \in Ints
<1>1. Ints \subseteq Int /\ m \in Int /\ n \in Int
  BY ExprsAssumption DEF Ints
<1>2. CASE op \in {"+", "-", "*"}
  <2>1. m + n \in Int /\ m - n \in Int /\ m * n \in Int
    BY <1>1
  <2>2. Wrap(m + n) \in Ints /\ Wrap(m - n) \in Ints /\ Wrap(m * n) \in Ints
    BY <2>1, WrapIs
  <2> QED
    BY <1>2, <2>2 DEF IntOp
<1>3. CASE op \in {"/", "%"}
  <2>1. Quo(m, n) \in Int
    BY <1>1, <1>3, QuoIs
  <2>2. n * Quo(m, n) \in Int
    BY <1>1, <2>1
  <2>3. m - n * Quo(m, n) \in Int
    BY <1>1, <2>2
  <2>4. Wrap(Quo(m, n)) \in Ints /\ Wrap(m - n * Quo(m, n)) \in Ints
    BY <2>1, <2>3, WrapIs
  <2> QED
    BY <1>3, <2>4 DEF IntOp
<1>4. CASE op \in {"&", "|", "^"}
  BY <1>4, ExprsAssumption DEF IntOp
<1>5. CASE op = "~"
  <2>1. -n - 1 \in Ints
    BY ExprsAssumption DEF Ints
  <2> QED
    BY <1>5, <2>1 DEF IntOp
<1>6. CASE op \notin {"+", "-", "*", "/", "%", "&", "|", "^", "~"}
  BY <1>6 DEF IntOp
<1> QED
  BY <1>2, <1>3, <1>4, <1>5, <1>6

LEMMA BoolOpIs ==
    ASSUME NEW op, NEW m \in {0, 1}, NEW n \in {0, 1}
    PROVE  BoolOp(op, m, n) \in {0, 1}
  BY DEF BoolOp

LEMMA StrOpIs ==
    ASSUME NEW op, NEW m \in 0..MaxStr, NEW n \in 0..MaxStr
    PROVE  StrOp(op, m, n) \in 0..MaxStr
  BY ExprsAssumption DEF StrOp

\* Of the values of two operands.
LEMMA OpValIs ==
    ASSUME NEW op, NEW l, NEW r, IsVal(l), IsVal(r), BinErr(op, l, r) = "no"
    PROVE  /\ IsVal(OpVal(op, l, r))
           /\ op \in isCompOp => OpVal(op, l, r).type = "bool"
           /\ op \notin isCompOp /\ l.type = r.type => OpVal(op, l, r).type = l.type
<1>1. /\ l.type = r.type \/ "undef" \in {l.type, r.type}
      /\ l.type = "int" /\ op \in {"/", "%"} => r.n # 0
  BY DEF BinErr, Compatible, ZeroDivides
<1>2. CASE op \in isCompOp
  <2>1. OpVal(op, l, r) = NewBool(CompOp(op, l.n, r.n))
    BY <1>2 DEF OpVal
  <2> QED
    BY <1>2, <2>1, BoolIs
<1>3. CASE op \notin isCompOp /\ "undef" \in {l.type, r.type}
  <2>1. OpVal(op, l, r) = Val("undef", 0)
    BY <1>3 DEF OpVal
  <2> QED
    BY <1>3, <2>1, MakesVal
<1>4. CASE op \notin isCompOp /\ "undef" \notin {l.type, r.type}
  <2>1. l.type = r.type /\ l.type \in {"int", "bool", "string"}
    BY <1>1, <1>4, ValTypes
  <2>2. CASE l.type = "int"
    <3>1. OpVal(op, l, r) = Val("int", IntOp(op, l.n, r.n))
      BY <1>4, <2>1, <2>2 DEF OpVal
    <3>2. IntOp(op, l.n, r.n) \in Ints
      BY <1>1, <2>1, <2>2, ValTypes, IntOpIs
    <3>3. IntOp(op, l.n, r.n) \in Int
      BY <3>2, ExprsAssumption DEF Ints
    <3> QED
      BY <1>4, <2>2, <3>1, <3>2, <3>3, MakesVal
  <2>3. CASE l.type = "bool"
    <3>1. OpVal(op, l, r) = Val("bool", BoolOp(op, l.n, r.n))
      BY <1>4, <2>1, <2>3 DEF OpVal
    <3>2. BoolOp(op, l.n, r.n) \in {0, 1}
      BY <2>1, <2>3, ValTypes, BoolOpIs
    <3> QED
      BY <1>4, <2>3, <3>1, <3>2, MakesVal
  <2>4. CASE l.type = "string"
    <3>1. OpVal(op, l, r) = Val("string", StrOp(op, l.n, r.n))
      BY <1>4, <2>1, <2>4 DEF OpVal
    <3>2. StrOp(op, l.n, r.n) \in 0..MaxStr
      BY <2>1, <2>4, ValTypes, StrOpIs
    <3> QED
      BY <1>4, <2>4, <3>1, <3>2, MakesVal
  <2> QED
    BY <2>1, <2>2, <2>3, <2>4
<1> QED
  BY <1>2, <1>3, <1>4

LEMMA BinErrIs ==
    ASSUME NEW op, NEW l, NEW r
    PROVE  /\ BinErr(op, l, r) \in {"no", "types", "zero"}
           /\ BinErr(op, l, r) = "types" => BinType(op, l.type, r.type) = "undef"
           /\ BinErr(op, l, r) = "zero" => l.type = "int" /\ op \notin isCompOp
<1>1. BinErr(op, l, r) \in {"no", "types", "zero"}
  BY DEF BinErr
<1>2. BinErr(op, l, r) = "types" => BinType(op, l.type, r.type) = "undef"
  <2>1. BinErr(op, l, r) = "types" => ~Compatible(op, l, r)
    BY DEF BinErr
  <2> QED
    BY <2>1 DEF Compatible, BinType
<1>3. BinErr(op, l, r) = "zero" => l.type = "int" /\ op \notin isCompOp
  <2>1. BinErr(op, l, r) = "zero" => ZeroDivides(op, l, r)
    BY DEF BinErr
  <2> QED
    BY <2>1 DEF ZeroDivides, isCompOp
<1> QED
  BY <1>1, <1>2, <1>3

LEMMA BinExprIs ==
    ASSUME NEW op, NEW l, NEW r, IsVal(l), IsVal(r)
    PROVE  /\ IsVal(BinExpr(op, l, r))
           /\ BinType(op, l.type, r.type) # "undef" =>
                  BinExpr(op, l, r).type = BinType(op, l.type, r.type)
<1> DEFINE t == BinType(op, l.type, r.type)
<1>0. t # "undef" => l.type = r.type /\ t = (IF op \in isCompOp THEN "bool" ELSE l.type)
  BY DEF BinType
<1>1. CASE BinErr(op, l, r) = "no"
  <2>1. BinExpr(op, l, r) = OpVal(op, l, r)
    BY <1>1 DEF BinExpr
  <2> HIDE DEF t
  <2> QED
    BY <1>0, <1>1, <2>1, OpValIs DEF t
<1>2. CASE BinErr(op, l, r) = "zero"
  <2>1. BinExpr(op, l, r) = l
    BY <1>2 DEF BinExpr
  <2> HIDE DEF t
  <2> QED
    BY <1>0, <1>2, <2>1, BinErrIs DEF t
<1>3. CASE BinErr(op, l, r) = "types"
  <2>1. BinExpr(op, l, r) = Val("undef", 0)
    BY <1>3 DEF BinExpr
  <2>2. t = "undef"
    BY <1>3, BinErrIs
  <2> QED
    BY <2>1, <2>2, MakesVal
<1> QED
  BY <1>1, <1>2, <1>3, BinErrIs

LEMMA UnaryExprIs ==
    ASSUME NEW op \in {"+", "-", "~", "!"}, NEW v, IsVal(v)
    PROVE  /\ IsVal(UnaryExpr(op, v))
           /\ UnType(op, v.type) # "undef" => UnaryExpr(op, v).type = UnType(op, v.type)
<1>1. UnType(op, v.type) # "undef" =>
          /\ IsCompatOp(v.type, op) /\ UnType(op, v.type) = v.type
          /\ v.type \notin {"string", "undef"}
  BY DEF UnType
<1>2. CASE ~IsCompatOp(v.type, op)
  <2>1. UnaryExpr(op, v) = Val("undef", 0)
    BY <1>2 DEF UnaryExpr
  <2> QED
    BY <1>1, <1>2, <2>1, MakesVal
<1>3. CASE IsCompatOp(v.type, op)
  <2> DEFINE n == IF v.type = "int" THEN IntOp(op, 0, v.n) ELSE BoolOp(op, v.n, v.n)
  <2>1. UnaryExpr(op, v) = Val(v.type, n)
    BY <1>3 DEF UnaryExpr
  <2>2. v.type = "int" => n \in Ints
    <3>1. 0 \in Ints
      BY ExprsAssumption DEF Ints
    <3> QED
      BY <3>1, ValTypes, IntOpIs
  <2>3. v.type = "bool" => n \in {0, 1}
    BY ValTypes, BoolOpIs
  <2>4. v.type = "string" => op = "+" /\ n = v.n
    BY <1>3 DEF IsCompatOp, OpsOf, BoolOp, isCompOp
  <2>5. n \in Int
    <3>1. v.type # "int" => n \in Int
      <4>1. v.n \in Int
        BY DEF IsVal
      <4> QED
        BY <4>1 DEF BoolOp
    <3>2. Ints \subseteq Int
      BY ExprsAssumption DEF Ints
    <3> QED
      BY <2>2, <3>1, <3>2
  <2>6. v.type = "string" => n \in 0..MaxStr
    BY <2>4, ValTypes
  <2> HIDE DEF n
  <2>7. IsVal(Val(v.type, n)) /\ Val(v.type, n).type = v.type
    BY <2>2, <2>3, <2>5, <2>6, ValTypes, MakesVal
  <2> QED
    BY <1>1, <2>1, <2>7
<1> QED
  BY <1>2, <1>3
-----------------------------------------------------------------------------
(* Values have the type of their expression.                                *)

EnvOK(env) == \A x \in DOMAIN VarType : ValOf(env[x], VarType[x])

\* Where the type is t.
OutcomeOf(o, t) ==
    /\ o = Outcome(o.val, o.sigs, o.err)
    /\ o.sigs \in Nat /\ o.err \in {"no", "zero"}
    /\ o.err = "no" => ValOf(o.val, t)

LEMMA OutcomeIs ==
    ASSUME NEW v, NEW sigs, NEW err
    PROVE  /\ Outcome(v, sigs, err).val = v
           /\ Outcome(v, sigs, err).sigs = sigs
           /\ Outcome(v, sigs, err).err = err
           /\ LET o == Outcome(v, sigs, err) IN o = Outcome(o.val, o.sigs, o.err)
  BY DEF Outcome

\* What has a type has operands that have one.
LEMMA TypedOperands ==
    ASSUME NEW s, NEW types, TypeAt(s, types) # "undef"
    PROVE  /\ s.node = "const" => s.val.type = TypeAt(s, types)
           /\ s.node = "var" => VarType[s.name] = TypeAt(s, types)
           /\ s.node = "call" => /\ Len(s.args) = 1 /\ types[s.args[1]] # "undef"
                                 /\ s.name = "signal" /\ TypeAt(s, types) = "bool"
           /\ s.node = "un" => /\ types[s.right] # "undef"
                               /\ UnType(s.op, types[s.right]) = TypeAt(s, types)
           /\ s.node = "bin" => /\ types[s.left] # "undef" /\ types[s.right] = types[s.left]
                                /\ BinType(s.op, types[s.left], types[s.right]) = TypeAt(s, types)
                                /\ IsCompatOp(types[s.left], s.op)
<1>1. CASE s.node = "const"
  BY <1>1 DEF TypeAt
<1>2. CASE s.node = "var"
  BY <1>2 DEF TypeAt
<1>3. CASE s.node = "call"
  <2>1. TypeAt(s, types) =
          IF s.name = "signal" /\ Len(s.args) = 1 /\ types[s.args[1]] = "string"
          THEN "bool" ELSE "undef"
    BY <1>3 DEF TypeAt
  <2> QED
    BY <1>3, <2>1
<1>4. CASE s.node = "un"
  BY <1>4 DEF TypeAt, UnType
<1>5. CASE s.node = "bin"
  <2>1. TypeAt(s, types) = BinType(s.op, types[s.left], types[s.right])
    BY <1>5 DEF TypeAt
  <2>2. /\ types[s.left] # "undef" /\ types[s.right] = types[s.left]
        /\ IsCompatOp(types[s.left], s.op)
    BY <2>1 DEF BinType
  <2> QED
    BY <1>5, <2>1, <2>2
<1> QED
  BY <1>1, <1>2, <1>3, <1>4, <1>5

\* The outcome o of a binary operation, from those of its operands.
BinTakes(s, left, right, o) ==
    /\ left.err # "no" \/ IsShort(s.op, left.val) => o = left
    /\ left.err = "no" /\ ~IsShort(s.op, left.val) =>
         /\ right.err # "no" => o = right
         /\ right.err = "no" => o = Outcome(BinExpr(s.op, left.val, right.val), right.sigs,
                                            BinErr(s.op, left.val, right.val))

LEMMA BinOutcome ==
    ASSUME NEW s, s.node = "bin", NEW env, NEW done, NEW sigs
    PROVE  BinTakes(s, done[s.left][sigs], done[s.right][done[s.left][sigs].sigs],
                    EvalAt(s, env, done, sigs))
  BY DEF EvalAt, BinTakes

LEMMA SoundStep ==
    ASSUME NEW e, IsExpr(e), NEW env, EnvOK(env), NEW k \in DOMAIN e,
           NEW types, NEW done, TypeAt(e[k], types) # "undef",
           \A j \in 1..(k - 1) :
               types[j] # "undef" => \A sigs \in Nat : OutcomeOf(done[j][sigs], types[j]),
           NEW sigs \in Nat
    PROVE  OutcomeOf(EvalAt(e[k], env, done, sigs), TypeAt(e[k], types))
<1> DEFINE s == e[k]
           o == EvalAt(s, env, done, sigs)
           t == TypeAt(s, types)
<1>0. IsSym(s, k) /\ t # "undef"
  BY DEF IsExpr
<1>1. CASE s.node = "const"
  <2>1. o = Outcome(s.val, sigs, "no")
    BY <1>1 DEF EvalAt
  <2>2. IsVal(s.val)
    BY <1>0, <1>1 DEF IsSym, IsVal
  <2>3. s.val.type = t
    BY <1>1, TypedOperands
  <2> HIDE DEF s, t, o
  <2> QED
    BY <1>0, <2>1, <2>2, <2>3, OutcomeIs DEF OutcomeOf, ValOf, o, t, s
<1>2. CASE s.node = "var"
  <2>1. o = Outcome(env[s.name], sigs, "no")
    BY <1>2 DEF EvalAt
  <2>2. s.name \in DOMAIN VarType /\ VarType[s.name] = t
    BY <1>0, <1>2, TypedOperands DEF IsSym
  <2>3. ValOf(env[s.name], t)
    BY <2>2 DEF EnvOK
  <2> HIDE DEF s, t, o
  <2> QED
    BY <2>1, <2>3, OutcomeIs DEF OutcomeOf, o, t, s
<1>3. CASE s.node = "call"
  <2> DEFINE a == s.args[1]
             arg == done[a][sigs]
  <2>1. Len(s.args) = 1 /\ a \in 1..(k - 1) /\ types[a] # "undef" /\ t = "bool"
    BY <1>3, TypedOperands, Operands
  <2>2. OutcomeOf(arg, types[a])
    BY <2>1
  <2>3. o = IF arg.err # "no" THEN arg ELSE Took(arg.sigs)
    BY <1>3, <2>1 DEF EvalAt
  <2> HIDE DEF a, arg, s, t, o
  <2>4. CASE arg.err # "no"
    BY <2>2, <2>3, <2>4 DEF OutcomeOf, o, t, s
  <2>5. CASE arg.err = "no"
    <3> DEFINE v == NewBool(arg.sigs > 0)
               rest == IF arg.sigs > 0 THEN arg.sigs - 1 ELSE 0
    <3>1. rest \in Nat
      BY <2>2 DEF OutcomeOf
    <3>2. ValOf(v, t)
      BY <2>1, BoolIs DEF ValOf
    <3>3. o = Outcome(v, rest, "no")
      BY <2>3, <2>5 DEF Took
    <3> HIDE DEF v, rest
    <3> QED
      BY <3>1, <3>2, <3>3, OutcomeIs DEF OutcomeOf, o, t, s
  <2> QED
    BY <2>4, <2>5
<1>4. CASE s.node = "un"
  <2> DEFINE right == done[s.right][sigs]
             u == types[s.right]
             v == UnaryExpr(s.op, right.val)
  <2>1. /\ s.right \in 1..(k - 1) /\ u # "undef" /\ s.op \in {"+", "-", "~", "!"}
        /\ t = UnType(s.op, u)
    BY <1>4, TypedOperands, Operands
  <2>2. OutcomeOf(right, u)
    BY <2>1
  <2>3. o = IF right.err # "no" THEN right ELSE Outcome(v, right.sigs, "no")
    BY <1>4 DEF EvalAt
  <2>4. right.err = "no" => ValOf(v, t)
    <3> SUFFICES ASSUME right.err = "no" PROVE ValOf(v, t)
      OBVIOUS
    <3>1. IsVal(right.val) /\ right.val.type = u
      BY <2>2 DEF OutcomeOf, ValOf
    <3> HIDE DEF u, right, s, t
    <3> QED
      BY <1>0, <2>1, <3>1, UnaryExprIs DEF ValOf
  <2> HIDE DEF right, u, v, s, t, o
  <2>5. OutcomeOf(o, t)
    <3>1. CASE right.err = "no"
      <4>1. o = Outcome(v, right.sigs, "no") /\ right.sigs \in Nat
        BY <2>2, <2>3, <3>1 DEF OutcomeOf
      <4>2. o.val = v /\ o.sigs = right.sigs /\ o.err = "no"
        BY <4>1, OutcomeIs
      <4> QED
        BY <2>4, <3>1, <4>1, <4>2 DEF OutcomeOf
    <3>2. CASE right.err # "no"
      BY <2>2, <2>3, <3>2 DEF OutcomeOf
    <3> QED
      BY <3>1, <3>2
  <2> QED
    BY <2>5 DEF o, t, s
<1>5. CASE s.node = "bin"
  <2> DEFINE left == done[s.left][sigs]
             right == done[s.right][left.sigs]
             u == types[s.left]
             v == BinExpr(s.op, left.val, right.val)
             err == BinErr(s.op, left.val, right.val)
  <2>1. /\ s.left \in 1..(k - 1) /\ s.right \in 1..(k - 1)
        /\ u # "undef" /\ types[s.right] = u /\ t = BinType(s.op, u, u)
    BY <1>5, TypedOperands, Operands
  <2>2. OutcomeOf(left, u)
    BY <2>1
  <2>3. OutcomeOf(right, u)
    BY <2>1, <2>2 DEF OutcomeOf
  <2>4. /\ left.err # "no" \/ IsShort(s.op, left.val) => o = left
        /\ left.err = "no" /\ ~IsShort(s.op, left.val) =>
             /\ right.err # "no" => o = right
             /\ right.err = "no" => o = Outcome(v, right.sigs, err)
    <3>1. BinTakes(s, left, right, o)
      BY <1>5, BinOutcome
    <3> HIDE DEF left, right, o
    <3> QED
      BY <3>1 DEF BinTakes
  <2> HIDE DEF left, right, u, v, err, s, t, o
  <2>5. CASE left.err # "no"
    BY <2>2, <2>4, <2>5 DEF OutcomeOf, o, t, s
  <2>6. CASE left.err = "no" /\ IsShort(s.op, left.val)
    <3>1. s.op \in {"&&", "||"}
      BY <2>6 DEF IsShort
    <3>2. t = u
      <4>1. s.op \notin isCompOp
        BY <3>1 DEF isCompOp
      <4> QED
        BY <1>0, <2>1, <4>1 DEF BinType
    <3> QED
      BY <2>2, <2>4, <2>6, <3>2 DEF OutcomeOf, o, t, s
  <2>7. CASE left.err = "no" /\ ~IsShort(s.op, left.val) /\ right.err # "no"
    BY <2>3, <2>4, <2>7 DEF OutcomeOf, o, t, s
  <2>8. CASE left.err = "no" /\ ~IsShort(s.op, left.val) /\ right.err = "no"
    <3>1. /\ IsVal(left.val) /\ left.val.type = u
          /\ IsVal(right.val) /\ right.val.type = u
      BY <2>2, <2>3, <2>8 DEF OutcomeOf, ValOf
    <3>2. ValOf(v, t)
      BY <1>0, <2>1, <3>1, BinExprIs DEF ValOf, v
    <3>3. err \in {"no", "zero"}
      <4>1. /\ err \in {"no", "types", "zero"}
            /\ err = "types" => BinType(s.op, left.val.type, right.val.type) = "undef"
        BY BinErrIs DEF err
      <4> QED
        BY <1>0, <2>1, <3>1, <4>1
    <3>4. right.sigs \in Nat
      BY <2>3 DEF OutcomeOf
    <3> QED
      BY <2>4, <2>8, <3>2, <3>3, <3>4, OutcomeIs DEF OutcomeOf, o, t, s
  <2> QED
    BY <2>5, <2>6, <2>7, <2>8
<1> QED
  BY <1>0, <1>1, <1>2, <1>3, <1>4, <1>5 DEF IsSym

LEMMA Sound ==
    ASSUME NEW e, IsExpr(e), NEW env, EnvOK(env)
    PROVE  \A k \in DOMAIN e : TypesOf(e)[k] # "undef" =>
               \A sigs \in Nat : OutcomeOf(Eval(e, env)[k][sigs], TypesOf(e)[k])
<1> DEFINE types == TypesOf(e)
           done == Eval(e, env)
           n == Len(e)
           Held == {k \in 1..n : types[k] # "undef" =>
                                      \A sigs \in Nat : OutcomeOf(done[k][sigs], types[k])}
<1>0. n \in Nat /\ DOMAIN e = 1..n
  BY DEF IsExpr
<1>1. ASSUME NEW k \in 1..n
      PROVE  types[k] = TypeAt(e[k], types)
  BY <1>0, TypesAre
<1>2. ASSUME NEW k \in 1..n, NEW sigs \in Nat
      PROVE  done[k][sigs] = EvalAt(e[k], env, done, sigs)
  BY <1>0, EvalIs
<1> HIDE DEF types, done, n
<1>3. ASSUME NEW k \in 1..n, \A j \in 1..(k - 1) : j \in Held PROVE k \in Held
  <2>1. \A j \in 1..(k - 1) : types[j] # "undef" =>
            \A sigs \in Nat : OutcomeOf(done[j][sigs], types[j])
    BY <1>0, <1>3
  <2>2. ASSUME types[k] # "undef", NEW sigs \in Nat
        PROVE  OutcomeOf(done[k][sigs], types[k])
    <3>1. TypeAt(e[k], types) # "undef" /\ k \in DOMAIN e
      BY <1>0, <1>1, <2>2
    <3>2. OutcomeOf(EvalAt(e[k], env, done, sigs), TypeAt(e[k], types))
      BY <2>1, <3>1, SoundStep
    <3> QED
      BY <1>1, <1>2, <3>2
  <2> QED
    BY <2>2
<1>4. 1..n \subseteq Held
  <2> HIDE DEF Held
  <2> QED
    BY <1>0, <1>3, FirstSymbol
<1> QED
  BY <1>0, <1>4 DEF types, done
-----------------------------------------------------------------------------
(* Folding: what a symbol becomes.                                          *)

\* The operations that a constant on the right, or on the left, leaves alone.
NeutralFor(op, t, n) == ((op = "+" /\ t = "int") \/ op \in {"|", "&"}) /\ n = Neutral(op)
NeutralRight(op, t, n) == NeutralFor(op, t, n) \/ (op = "-" /\ t = "int" /\ n = 0)
Logical == {"||", "&&"}

\* What a binary operation may become.
FoldedTo(s, t, left, right, x) ==
    \/ IsConstant(left) /\ IsConstant(right) /\ x = ConstVal(s.op, left.val, right.val)
    \/ /\ IsConstant(left) /\ s.op \in Logical /\ IsShort(s.op, left.val)
       /\ x = Const(NewBool(s.op = "||"))
    \/ IsConstant(left) /\ s.op \in Logical /\ ~IsShort(s.op, left.val) /\ x = right
    \/ IsConstant(right) /\ NeutralRight(s.op, t, right.val.n) /\ x = left
    \/ IsConstant(left) /\ NeutralFor(s.op, t, left.val.n) /\ x = right
    \/ /\ s.op \in {"==", "!="} /\ right.node = "var" /\ NameOf(left) = NameOf(right)
       /\ x = Const(NewBool(s.op = "=="))
    \/ ~(IsConstant(left) /\ IsConstant(right)) /\ x = s

LEMMA FoldBinaryIs ==
    ASSUME NEW s, NEW t, NEW left, NEW right
    PROVE  FoldedTo(s, t, left, right, FoldBinary(s, t, left, right))
<1> DEFINE how == Folding(s, t, left, right)
           x == FoldBinary(s, t, left, right)
<1>1. /\ how \in {"const", "short", "right", "left", "neutral", "same", "none"}
      /\ how = "const" <=> IsConstant(left) /\ IsConstant(right)
      /\ how = "short" => IsConstant(left) /\ s.op \in Logical /\ IsShort(s.op, left.val)
      /\ how = "right" => IsConstant(left) /\ s.op \in Logical /\ ~IsShort(s.op, left.val)
      /\ how = "neutral" => (s.op = "+" /\ t = "int") \/ s.op \in {"|", "&"}
      /\ how = "left" => s.op = "-" /\ t = "int" /\ Is(right, 0)
      /\ how = "same" => /\ s.op \in {"==", "!="} /\ right.node = "var"
                         /\ NameOf(left) = NameOf(right)
  BY DEF Folding, Logical
<1>2. /\ how = "const" => x = ConstVal(s.op, left.val, right.val)
      /\ how = "short" => x = Const(NewBool(s.op = "||"))
      /\ how = "right" => x = right
      /\ how = "left" => x = left
      /\ how = "neutral" => x = FoldInt(s, left, right, Neutral(s.op))
      /\ how = "same" => x = Const(NewBool(s.op = "=="))
      /\ how = "none" => x = s
  BY DEF FoldBinary
<1> HIDE DEF how, x
<1>3. CASE how = "neutral"
  <2> DEFINE n == Neutral(s.op)
  <2>1. NeutralFor(s.op, t, n)
    BY <1>1, <1>3 DEF NeutralFor
  <2>2. \/ Is(right, n) /\ x = left
        \/ Is(left, n) /\ x = right
        \/ x = s
    BY <1>2, <1>3 DEF FoldInt
  <2> HIDE DEF n
  <2> QED
    BY <1>1, <1>3, <2>1, <2>2 DEF FoldedTo, Is, NeutralRight, x
<1>4. CASE how = "left"
  <2>1. NeutralRight(s.op, t, right.val.n)
    BY <1>1, <1>4 DEF NeutralRight, Is
  <2> QED
    BY <1>1, <1>2, <1>4, <2>1 DEF FoldedTo, Is, x
<1>5. CASE how \in {"const", "short", "right", "same", "none"}
  BY <1>1, <1>2, <1>5, Zenon DEF FoldedTo, x
<1> QED
  BY <1>1, <1>3, <1>4, <1>5

\* The symbol in the place of another.
LEMMA FoldedSym ==
    ASSUME NEW e, IsExpr(e), NEW k \in DOMAIN e
    PROVE  LET s == e[k]
               f == Fold(e)
           IN  /\ s.node \in {"const", "var", "call"} => f[k] = s
               /\ s.node = "un" => f[k] = FoldUnary(s, f[s.right])
               /\ s.node = "bin" => FoldedTo(s, TypesOf(e)[k], f[s.left], f[s.right], f[k])
<1> DEFINE s == e[k]
           f == Fold(e)
           t == TypesOf(e)[k]
<1>1. f[k] = FoldAt(s, t, f)
  BY FoldIs
<1> HIDE DEF s, f, t
<1>2. /\ s.node \in {"const", "var", "call"} => f[k] = s
      /\ s.node = "un" => f[k] = FoldUnary(s, f[s.right])
      /\ s.node = "bin" => f[k] = FoldBinary(s, t, f[s.left], f[s.right])
  BY <1>1 DEF FoldAt
<1> QED
  BY <1>2, FoldBinaryIs DEF s, f, t

LEMMA SymLater ==
    ASSUME NEW s, NEW k \in Nat, NEW j \in 1..k, IsSym(s, j)
    PROVE  IsSym(s, k)
<1>1. 1..(j - 1) \subseteq 1..(k - 1)
  OBVIOUS
<1>2. s.args \in Seq(1..(j - 1)) => s.args \in Seq(1..(k - 1))
  BY <1>1
<1> QED
  BY <1>1, <1>2 DEF IsSym

LEMMA ConstSym ==
    ASSUME NEW v, IsVal(v), NEW k
    PROVE  IsSym(Const(v), k) /\ IsConstant(Const(v)) /\ Const(v).val = v
<1>1. Const(v).node = "const" /\ Const(v).val = v
  BY DEF Const
<1> QED
  BY <1>1 DEF IsSym, IsVal, IsConstant

LEMMA ConstOf ==
    ASSUME NEW s, NEW k, IsSym(s, k), IsConstant(s)
    PROVE  s = Const(s.val) /\ IsVal(s.val)
  BY DEF IsSym, IsConstant, IsVal

LEMMA ConstValIs ==
    ASSUME NEW op, NEW l, NEW r, IsVal(l), IsVal(r)
    PROVE  /\ ConstVal(op, l, r).node = "const" /\ IsVal(ConstVal(op, l, r).val)
           /\ ConstVal(op, l, r) = Const(ConstVal(op, l, r).val)
           /\ IsShort(op, l) => ConstVal(op, l, r).val = l
           /\ ~IsShort(op, l) => ConstVal(op, l, r).val = BinExpr(op, l, r)
<1> DEFINE v == IF IsShort(op, l) THEN l ELSE BinExpr(op, l, r)
<1>1. IsVal(v)
  BY BinExprIs
<1>2. ConstVal(op, l, r) = Const(v)
  BY DEF ConstVal
<1>3. Const(v).node = "const" /\ Const(v).val = v
  BY DEF Const
<1>4. /\ IsShort(op, l) => v = l
      /\ ~IsShort(op, l) => v = BinExpr(op, l, r)
  OBVIOUS
<1> HIDE DEF v
<1> QED
  BY <1>1, <1>2, <1>3, <1>4

\* Folding makes an expression of as many symbols.
LEMMA FoldIsExpr ==
    ASSUME NEW e, IsExpr(e)
    PROVE  IsExpr(Fold(e)) /\ Len(Fold(e)) = Len(e) /\ DOMAIN Fold(e) = DOMAIN e
<1> DEFINE f == Fold(e)
           n == Len(e)
           Held == {k \in 1..n : IsSym(f[k], k)}
<1>0. n \in Nat \ {0} /\ DOMAIN e = 1..n
  BY DEF IsExpr
<1>1. DOMAIN f = 1..n /\ Len(f) = n /\ f = [k \in DOMAIN f |-> f[k]]
  <2>1. DOMAIN f = 1..n
    BY <1>0, FoldIs
  <2>2. f = [k \in 1..n |-> f[k]]
    BY <1>0, FoldIs
  <2> HIDE DEF f, n
  <2> QED
    BY <1>0, <2>1, <2>2
<1>2. ASSUME NEW k \in 1..n, \A j \in 1..(k - 1) : j \in Held PROVE k \in Held
  <2> DEFINE s == e[k]
             t == TypesOf(e)[k]
             left == f[s.left]
             right == f[s.right]
  <2>0. IsSym(s, k) /\ k \in DOMAIN e /\ k \in Nat
    BY <1>0 DEF IsExpr
  <2>1. CASE s.node \in {"const", "var", "call"}
    BY <2>0, <2>1, FoldedSym
  <2>2. CASE s.node = "un"
    <3>1. f[k] = FoldUnary(s, right) /\ s.op \in {"+", "-", "~", "!"} /\ s.right \in 1..(k - 1)
      BY <2>0, <2>2, FoldedSym, Operands
    <3>2. IsSym(right, s.right)
      BY <1>2, <3>1
    <3> HIDE DEF s, right, f
    <3>3. CASE IsConstant(right)
      <4>1. f[k] = Const(UnaryExpr(s.op, right.val))
        BY <3>1, <3>3 DEF FoldUnary
      <4>2. IsVal(right.val)
        BY <3>2, <3>3, ConstOf
      <4>3. IsSym(f[k], k)
        BY <3>1, <4>1, <4>2, UnaryExprIs, ConstSym
      <4> QED
        BY <4>3
    <3>4. CASE ~IsConstant(right)
      BY <2>0, <3>1, <3>4 DEF FoldUnary
    <3> QED
      BY <3>3, <3>4
  <2>3. CASE s.node = "bin"
    <3>1. FoldedTo(s, t, left, right, f[k]) /\ s.left \in 1..(k - 1) /\ s.right \in 1..(k - 1)
      BY <2>0, <2>3, FoldedSym, Operands
    <3>2. /\ IsSym(left, s.left) /\ IsSym(right, s.right)
          /\ s.left \in 1..k /\ s.right \in 1..k
      BY <1>2, <3>1
    <3> HIDE DEF s, t, left, right, f
    <3>3. IsSym(left, k) /\ IsSym(right, k)
      BY <2>0, <3>2, SymLater
    <3>4. IsConstant(left) /\ IsConstant(right) => IsSym(ConstVal(s.op, left.val, right.val), k)
      <4> SUFFICES ASSUME IsConstant(left), IsConstant(right)
                   PROVE  IsSym(ConstVal(s.op, left.val, right.val), k)
        OBVIOUS
      <4>1. IsVal(left.val) /\ IsVal(right.val)
        BY <3>3, ConstOf
      <4> QED
        BY <4>1, ConstValIs, ConstSym
    <3>5. IsSym(Const(NewBool(s.op = "||")), k) /\ IsSym(Const(NewBool(s.op = "==")), k)
      BY BoolIs, ConstSym
    <3>6. IsSym(f[k], k)
      BY <2>0, <3>1, <3>3, <3>4, <3>5 DEF FoldedTo
    <3> QED
      BY <3>6
  <2> QED
    BY <2>0, <2>1, <2>2, <2>3 DEF IsSym
<1>3. 1..n \subseteq Held
  <2> HIDE DEF Held
  <2> QED
    BY <1>0, <1>2, FirstSymbol
<1>4. \A k \in DOMAIN f : IsSym(f[k], k)
  BY <1>1, <1>3
<1> HIDE DEF f, n
<1>5. IsExpr(f)
  BY <1>0, <1>1, <1>4 DEF IsExpr
<1> QED
  BY <1>0, <1>1, <1>5 DEF f, n
-----------------------------------------------------------------------------
(* Folding keeps types.                                                     *)

TypeNames == {"int", "bool", "string", "undef"}

LEMMA TypesRange ==
    ASSUME NEW e, IsExpr(e)
    PROVE  \A k \in DOMAIN e : TypesOf(e)[k] \in TypeNames
<1> DEFINE types == TypesOf(e)
           n == Len(e)
           Held == {k \in 1..n : types[k] \in TypeNames}
<1>0. n \in Nat /\ DOMAIN e = 1..n
  BY DEF IsExpr
<1>1. ASSUME NEW k \in 1..n, \A j \in 1..(k - 1) : j \in Held PROVE k \in Held
  <2> DEFINE s == e[k]
  <2>0. IsSym(s, k) /\ k \in DOMAIN e /\ types[k] = TypeAt(s, types)
    BY <1>0, TypesAre DEF IsExpr
  <2>1. CASE s.node = "const"
    <3>1. IsVal(s.val) /\ types[k] = s.val.type
      BY <2>0, <2>1 DEF IsSym, IsVal, TypeAt
    <3> QED
      BY <3>1, ValTypes DEF TypeNames
  <2>2. CASE s.node = "var"
    BY <2>0, <2>2, ExprsAssumption DEF IsSym, TypeAt, TypeNames
  <2>3. CASE s.node = "call"
    BY <2>0, <2>3 DEF TypeAt, TypeNames
  <2>4. CASE s.node = "un"
    <3>1. types[s.right] \in TypeNames /\ types[k] = UnType(s.op, types[s.right])
      <4>1. s.right \in 1..(k - 1)
        BY <2>0, <2>4, Operands
      <4> QED
        BY <1>1, <2>0, <2>4, <4>1 DEF TypeAt
    <3> QED
      BY <3>1 DEF UnType, TypeNames
  <2>5. CASE s.node = "bin"
    <3>1. types[s.left] \in TypeNames /\ types[k] = BinType(s.op, types[s.left], types[s.right])
      <4>1. s.left \in 1..(k - 1)
        BY <2>0, <2>5, Operands
      <4> QED
        BY <1>1, <2>0, <2>5, <4>1 DEF TypeAt
    <3> QED
      BY <3>1 DEF BinType, TypeNames
  <2> QED
    BY <2>0, <2>1, <2>2, <2>3, <2>4, <2>5 DEF IsSym
<1>2. 1..n \subseteq Held
  <2> HIDE DEF Held
  <2> QED
    BY <1>0, <1>1, FirstSymbol
<1> QED
  BY <1>0, <1>2

\* What the operators that are folded ask of their operands.
LEMMA OpTypes ==
    ASSUME NEW op, NEW u \in TypeNames, BinType(op, u, u) # "undef"
    PROVE  /\ u # "undef"
           /\ op \in Logical => u = "bool" /\ BinType(op, u, u) = "bool"
           /\ op \in {"|", "&", "-"} => u = "int" /\ BinType(op, u, u) = "int"
           /\ op = "+" => BinType(op, u, u) = u
           /\ op \in {"==", "!="} => BinType(op, u, u) = "bool"
<1>1. u # "undef" /\ op \in OpsOf[u] /\ BinType(op, u, u) = IF op \in isCompOp THEN "bool" ELSE u
  BY DEF BinType, IsCompatOp
<1> QED
  BY <1>1 DEF OpsOf, isCompOp, TypeNames, Logical

LEMMA ConstType ==
    ASSUME NEW v, NEW types
    PROVE  TypeAt(Const(v), types) = v.type
<1>1. Const(v).node = "const" /\ Const(v).val = v
  BY DEF Const
<1> QED
  BY <1>1 DEF TypeAt

\* A symbol that was moved has the type that it had.
LEMMA FoldTypes ==
    ASSUME NEW e, IsExpr(e)
    PROVE  \A k \in DOMAIN e :
               TypesOf(e)[k] # "undef" => TypesOf(Fold(e))[k] = TypesOf(e)[k]
<1> DEFINE f == Fold(e)
           n == Len(e)
           types == TypesOf(e)
           types2 == TypesOf(f)
           Held == {k \in 1..n : types[k] # "undef" => types2[k] = types[k]}
<1>0. /\ n \in Nat /\ DOMAIN e = 1..n /\ DOMAIN f = 1..n /\ IsExpr(f)
  BY FoldIsExpr DEF IsExpr
<1>1. ASSUME NEW k \in 1..n, \A j \in 1..(k - 1) : j \in Held, types[k] # "undef"
      PROVE  types2[k] = types[k]
  <2> DEFINE s == e[k]
  <2>0. /\ IsSym(s, k) /\ k \in DOMAIN e /\ k \in DOMAIN f
        /\ types[k] = TypeAt(s, types) /\ types2[k] = TypeAt(f[k], types2)
    BY <1>0, TypesAre DEF IsExpr
  <2>1. CASE s.node \in {"const", "var", "call"}
    <3>1. f[k] = s
      BY <2>0, <2>1, FoldedSym
    <3>2. TypeAt(s, types2) = TypeAt(s, types)
      <4>1. CASE s.node \in {"const", "var"}
        BY <4>1 DEF TypeAt
      <4>2. CASE s.node = "call"
        <5>1. /\ s.name = "signal" /\ Len(s.args) = 1 /\ types[s.args[1]] # "undef"
              /\ s.args[1] \in 1..(k - 1) /\ TypeAt(s, types) = "bool"
          BY <1>1, <2>0, <4>2, TypedOperands, Operands
        <5>2. types2[s.args[1]] = types[s.args[1]]
          BY <1>1, <5>1
        <5> HIDE DEF types, types2, s
        <5> QED
          BY <4>2, <5>1, <5>2 DEF TypeAt
      <4> QED
        BY <2>1, <4>1, <4>2
    <3> QED
      BY <2>0, <3>1, <3>2
  <2>2. CASE s.node = "un"
    <3> DEFINE right == f[s.right]
               u == types[s.right]
    <3>1. /\ f[k] = FoldUnary(s, right) /\ s.op \in {"+", "-", "~", "!"} /\ s.right \in 1..(k - 1)
          /\ u # "undef" /\ types[k] = UnType(s.op, u)
      <4>1. f[k] = FoldUnary(s, right)
        BY <2>0, <2>2, FoldedSym
      <4>2. s.op \in {"+", "-", "~", "!"} /\ s.right \in 1..(k - 1)
        BY <2>0, <2>2, Operands
      <4>3. u # "undef" /\ TypeAt(s, types) = UnType(s.op, u)
        BY <1>1, <2>0, <2>2, TypedOperands
      <4> QED
        BY <2>0, <4>1, <4>2, <4>3
    <3>2. types2[s.right] = u /\ s.right \in DOMAIN f
      BY <1>0, <1>1, <3>1
    <3>3. u = TypeAt(right, types2) /\ IsSym(right, s.right)
      <4>1. types2[s.right] = TypeAt(right, types2)
        BY <1>0, <3>2, TypesAre
      <4>2. IsSym(right, s.right)
        BY <1>0, <3>2 DEF IsExpr
      <4> HIDE DEF s, right, f, u, types, types2
      <4> QED
        BY <3>2, <4>1, <4>2
    <3> HIDE DEF s, right, f, u, types, types2
    <3>4. CASE IsConstant(right)
      <4>1. f[k] = Const(UnaryExpr(s.op, right.val)) /\ IsVal(right.val) /\ right.val.type = u
        BY <3>1, <3>3, <3>4, ConstOf DEF FoldUnary, TypeAt, IsConstant
      <4>2. UnaryExpr(s.op, right.val).type = types[k]
        BY <1>1, <3>1, <4>1, UnaryExprIs
      <4> QED
        BY <2>0, <4>1, <4>2, ConstType
    <3>5. CASE ~IsConstant(right)
      <4>1. f[k] = s
        BY <3>1, <3>5 DEF FoldUnary
      <4>2. TypeAt(s, types2) = UnType(s.op, types2[s.right])
        BY <2>2 DEF TypeAt
      <4> QED
        BY <2>0, <3>1, <3>2, <4>1, <4>2
    <3> QED
      BY <3>4, <3>5
  <2>3. CASE s.node = "bin"
    <3> DEFINE left == f[s.left]
               right == f[s.right]
               u == types[s.left]
    <3>1. /\ FoldedTo(s, types[k], left, right, f[k])
          /\ s.left \in 1..(k - 1) /\ s.right \in 1..(k - 1)
          /\ u # "undef" /\ types[s.right] = u /\ types[k] = BinType(s.op, u, u)
      <4>1. FoldedTo(s, types[k], left, right, f[k])
        BY <2>0, <2>3, FoldedSym
      <4>2. s.left \in 1..(k - 1) /\ s.right \in 1..(k - 1)
        BY <2>0, <2>3, Operands
      <4>3. u # "undef" /\ types[s.right] = u /\ TypeAt(s, types) = BinType(s.op, u, u)
        BY <1>1, <2>0, <2>3, TypedOperands
      <4> QED
        BY <2>0, <4>1, <4>2, <4>3
    <3>2. /\ types2[s.left] = u /\ s.left \in DOMAIN f /\ s.left \in DOMAIN e
          /\ types2[s.right] = u /\ s.right \in DOMAIN f
      BY <1>0, <1>1, <3>1
    <3>3. /\ u = TypeAt(left, types2) /\ IsSym(left, s.left)
          /\ u = TypeAt(right, types2) /\ IsSym(right, s.right)
          /\ u \in TypeNames
      <4>1. types2[s.left] = TypeAt(left, types2) /\ types2[s.right] = TypeAt(right, types2)
        BY <1>0, <3>2, TypesAre
      <4>2. IsSym(left, s.left) /\ IsSym(right, s.right)
        BY <1>0, <3>2 DEF IsExpr
      <4>3. u \in TypeNames
        BY <3>2, TypesRange
      <4> HIDE DEF s, left, right, f, u, types, types2
      <4> QED
        BY <3>2, <4>1, <4>2, <4>3
    <3> HIDE DEF s, left, right, f, u, types, types2
    <3>4. /\ s.op \in Logical => types[k] = u /\ u = "bool"
          /\ s.op \in {"|", "&", "-"} => types[k] = u
          /\ s.op = "+" => types[k] = u
          /\ s.op \in {"==", "!="} => types[k] = "bool"
      BY <1>1, <3>1, <3>3, OpTypes
    <3>5. /\ IsConstant(left) => IsVal(left.val) /\ left.val.type = u
          /\ IsConstant(right) => IsVal(right.val) /\ right.val.type = u
      BY <3>3, ConstOf DEF TypeAt, IsConstant
    <3>6. CASE /\ IsConstant(left) /\ IsConstant(right)
               /\ f[k] = ConstVal(s.op, left.val, right.val)
      <4> DEFINE v == ConstVal(s.op, left.val, right.val).val
      <4>1. f[k].node = "const" /\ f[k].val = v
        BY <3>5, <3>6, ConstValIs
      <4>2. IsShort(s.op, left.val) => v = left.val /\ s.op \in Logical
        BY <3>5, <3>6, ConstValIs DEF IsShort, Logical
      <4>3. ~IsShort(s.op, left.val) => v = BinExpr(s.op, left.val, right.val)
        BY <3>5, <3>6, ConstValIs
      <4>4. BinExpr(s.op, left.val, right.val).type = types[k]
        BY <1>1, <3>1, <3>5, <3>6, BinExprIs
      <4>5. v.type = types[k]
        BY <3>4, <3>5, <3>6, <4>2, <4>3, <4>4
      <4> QED
        BY <2>0, <4>1, <4>5 DEF TypeAt
    <3>7. CASE s.op \in Logical /\ f[k] = Const(NewBool(s.op = "||"))
      <4> DEFINE v == NewBool(s.op = "||")
      <4>1. v.type = "bool"
        BY BoolIs
      <4> HIDE DEF v
      <4>2. TypeAt(Const(v), types2) = "bool"
        BY <4>1, ConstType
      <4>3. f[k] = Const(v)
        BY <3>7 DEF v
      <4> QED
        BY <2>0, <3>4, <3>7, <4>2, <4>3
    <3>8. CASE s.op \in Logical \cup {"+", "|", "&", "-"} /\ f[k] \in {left, right}
      BY <2>0, <3>3, <3>4, <3>8
    <3>9. CASE s.op \in {"==", "!="} /\ f[k] = Const(NewBool(s.op = "=="))
      <4> DEFINE v == NewBool(s.op = "==")
      <4>1. v.type = "bool"
        BY BoolIs
      <4> HIDE DEF v
      <4>2. TypeAt(Const(v), types2) = "bool"
        BY <4>1, ConstType
      <4>3. f[k] = Const(v)
        BY <3>9 DEF v
      <4> QED
        BY <2>0, <3>4, <3>9, <4>2, <4>3
    <3>10. CASE f[k] = s
      <4>1. TypeAt(s, types2) = BinType(s.op, types2[s.left], types2[s.right])
        BY <2>3 DEF TypeAt
      <4> QED
        BY <2>0, <3>1, <3>2, <3>10, <4>1
    <3> QED
      BY <3>1, <3>6, <3>7, <3>8, <3>9, <3>10 DEF FoldedTo, NeutralRight, NeutralFor
  <2> QED
    BY <2>0, <2>1, <2>2, <2>3 DEF IsSym
<1>2. 1..n \subseteq Held
  <2>1. ASSUME NEW k \in 1..n, \A j \in 1..(k - 1) : j \in Held PROVE k \in Held
    BY <1>1, <2>1
  <2> HIDE DEF Held
  <2> QED
    BY <1>0, <2>1, FirstSymbol
<1> QED
  BY <1>0, <1>2
-----------------------------------------------------------------------------
(* Folding keeps values.                                                    *)

\* A value is its type and its number.
LEMMA ValEq ==
    ASSUME NEW l, NEW r, IsVal(l), IsVal(r), l.type = r.type, l.n = r.n
    PROVE  l = r
  BY DEF IsVal

LEMMA NoErr ==
    ASSUME NEW op, NEW l, NEW r, BinErr(op, l, r) = "no"
    PROVE  BinExpr(op, l, r) = OpVal(op, l, r)
  BY DEF BinExpr

\* The operand that decides a short circuit is what the operation is folded to.
LEMMA ShortVal ==
    ASSUME NEW op \in Logical, NEW l, ValOf(l, "bool"), IsShort(op, l)
    PROVE  l = NewBool(op = "||")
<1>1. l = Val("bool", l.n) /\ l.n \in {0, 1}
  BY ValTypes DEF ValOf, IsVal
<1>2. CASE op = "||"
  <2>1. l.n = 1
    BY <1>2 DEF IsShort, BoolVal
  <2> QED
    BY <1>1, <1>2, <2>1 DEF NewBool
<1>3. CASE op = "&&"
  <2>1. l.n = 0
    <3>1. ~BoolVal(l)
      BY <1>3 DEF IsShort
    <3> QED
      BY <1>1, <3>1 DEF BoolVal, ValOf
  <2> QED
    BY <1>1, <1>3, <2>1 DEF NewBool
<1> QED
  BY <1>2, <1>3 DEF Logical

\* The operand that decides nothing leaves the other.
LEMMA RestVal ==
    ASSUME NEW op \in Logical, NEW l, NEW r, ValOf(l, "bool"), ValOf(r, "bool"),
           ~IsShort(op, l), BinErr(op, l, r) = "no"
    PROVE  BinExpr(op, l, r) = r
<1>1. BinExpr(op, l, r) = OpVal(op, l, r)
  BY NoErr
<1>2. OpVal(op, l, r) = Val("bool", BoolOp(op, l.n, r.n))
  BY DEF OpVal, ValOf, Logical, isCompOp
<1>3. l.n \in {0, 1} /\ l.type = "bool"
  BY ValTypes DEF ValOf
<1>4. BoolOp(op, l.n, r.n) = r.n
  BY <1>3 DEF BoolOp, IsShort, BoolVal, Logical
<1>5. r = Val("bool", r.n)
  BY DEF ValOf, IsVal
<1> QED
  BY <1>1, <1>2, <1>4, <1>5

LEMMA NeutralVal ==
    ASSUME NEW op, NEW l, NEW r, ValOf(l, "int"), ValOf(r, "int"), BinErr(op, l, r) = "no"
    PROVE  /\ NeutralRight(op, "int", r.n) => BinExpr(op, l, r) = l
           /\ NeutralFor(op, "int", l.n) => BinExpr(op, l, r) = r
<1>1. BinExpr(op, l, r) = OpVal(op, l, r)
  BY NoErr
<1>2. l.n \in Ints /\ r.n \in Ints /\ l = Val("int", l.n) /\ r = Val("int", r.n)
  BY ValTypes DEF ValOf, IsVal
<1>3. op \in {"+", "-", "|", "&"} => OpVal(op, l, r) = Val("int", IntOp(op, l.n, r.n))
  BY DEF OpVal, ValOf, isCompOp
<1>4. ASSUME NEW m \in Ints
      PROVE  /\ Wrap(m + 0) = m /\ Wrap(0 + m) = m /\ Wrap(m - 0) = m
             /\ BitAnd(m, -1) = m /\ BitAnd(-1, m) = m /\ BitOr(m, 0) = m /\ BitOr(0, m) = m
  <2>1. m \in Int
    BY ExprsAssumption DEF Ints
  <2>2. m + 0 = m /\ 0 + m = m /\ m - 0 = m
    BY <2>1
  <2>3. Wrap(m) = m
    BY <2>1, WrapIs
  <2>4. {BitAnd(m, -1), BitAnd(-1, m), BitOr(m, 0), BitOr(0, m)} = {m}
    BY ExprsAssumption
  <2> QED
    BY <2>2, <2>3, <2>4
<1>5. ASSUME NeutralRight(op, "int", r.n)
      PROVE  op \in {"+", "-", "|", "&"} /\ IntOp(op, l.n, r.n) = l.n
  <2> DEFINE m == l.n
             n == r.n
  <2>1. CASE op = "+"
    BY <1>2, <1>4, <1>5, <2>1 DEF NeutralRight, NeutralFor, Neutral, IntOp
  <2>2. CASE op = "-"
    BY <1>2, <1>4, <1>5, <2>2 DEF NeutralRight, NeutralFor, IntOp
  <2>3. CASE op = "|"
    BY <1>2, <1>4, <1>5, <2>3 DEF NeutralRight, NeutralFor, Neutral, IntOp
  <2>4. CASE op = "&"
    BY <1>2, <1>4, <1>5, <2>4 DEF NeutralRight, NeutralFor, Neutral, IntOp
  <2> QED
    BY <1>5, <2>1, <2>2, <2>3, <2>4 DEF NeutralRight, NeutralFor
<1>6. ASSUME NeutralFor(op, "int", l.n)
      PROVE  op \in {"+", "-", "|", "&"} /\ IntOp(op, l.n, r.n) = r.n
  <2>1. CASE op = "+"
    BY <1>2, <1>4, <1>6, <2>1 DEF NeutralFor, Neutral, IntOp
  <2>2. CASE op = "|"
    BY <1>2, <1>4, <1>6, <2>2 DEF NeutralFor, Neutral, IntOp
  <2>3. CASE op = "&"
    BY <1>2, <1>4, <1>6, <2>3 DEF NeutralFor, Neutral, IntOp
  <2> QED
    BY <1>6, <2>1, <2>2, <2>3 DEF NeutralFor
<1> QED
  BY <1>1, <1>2, <1>3, <1>5, <1>6

LEMMA SameVal ==
    ASSUME NEW op \in {"==", "!="}, NEW v, BinErr(op, v, v) = "no"
    PROVE  BinExpr(op, v, v) = NewBool(op = "==")
<1>1. BinExpr(op, v, v) = NewBool(CompOp(op, v.n, v.n))
  BY NoErr DEF OpVal, isCompOp
<1>2. CASE op = "=="
  <2>1. CompOp(op, v.n, v.n) <=> TRUE
    BY <1>2 DEF CompOp
  <2> QED
    BY <1>1, <1>2, <2>1 DEF NewBool
<1>3. CASE op = "!="
  <2>1. CompOp(op, v.n, v.n) <=> FALSE
    BY <1>3 DEF CompOp
  <2> QED
    BY <1>1, <1>3, <2>1 DEF NewBool
<1> QED
  BY <1>2, <1>3

LEMMA EvalConst ==
    ASSUME NEW v, NEW env, NEW done, NEW sigs
    PROVE  EvalAt(Const(v), env, done, sigs) = Outcome(v, sigs, "no")
<1>1. Const(v).node = "const" /\ Const(v).val = v
  BY DEF Const
<1> QED
  BY <1>1 DEF EvalAt

LEMMA EvalConstSym ==
    ASSUME NEW s, IsConstant(s), NEW env, NEW done, NEW sigs
    PROVE  EvalAt(s, env, done, sigs) = Outcome(s.val, sigs, "no")
  BY DEF EvalAt, IsConstant

\* A binary operation without an error.
BinGives(s, left, right, o) ==
    /\ left.err = "no"
    /\ IsShort(s.op, left.val) => o = left
    /\ ~IsShort(s.op, left.val) =>
         /\ right.err = "no" /\ BinErr(s.op, left.val, right.val) = "no"
         /\ o = Outcome(BinExpr(s.op, left.val, right.val), right.sigs, "no")

LEMMA BinNoErr ==
    ASSUME NEW s, s.node = "bin", NEW env, NEW done, NEW sigs,
           EvalAt(s, env, done, sigs).err = "no"
    PROVE  BinGives(s, done[s.left][sigs], done[s.right][done[s.left][sigs].sigs],
                    EvalAt(s, env, done, sigs))
<1> DEFINE left == done[s.left][sigs]
           right == done[s.right][left.sigs]
           o == EvalAt(s, env, done, sigs)
<1>1. BinTakes(s, left, right, o) /\ o.err = "no"
  BY BinOutcome
<1> HIDE DEF left, right, o
<1> DEFINE v == BinExpr(s.op, left.val, right.val)
           err == BinErr(s.op, left.val, right.val)
<1>2. /\ left.err # "no" \/ IsShort(s.op, left.val) => o = left
      /\ left.err = "no" /\ ~IsShort(s.op, left.val) =>
           /\ right.err # "no" => o = right
           /\ right.err = "no" => o = Outcome(v, right.sigs, err)
  BY <1>1 DEF BinTakes
<1> HIDE DEF v, err
<1>3. /\ left.err = "no"
      /\ IsShort(s.op, left.val) => o = left
      /\ ~IsShort(s.op, left.val) =>
           /\ right.err = "no" /\ err = "no" /\ o = Outcome(v, right.sigs, "no")
  BY <1>1, <1>2, OutcomeIs
<1>4. BinGives(s, left, right, o)
  BY <1>3 DEF BinGives, v, err
<1> QED
  BY <1>4 DEF left, right, o

\* A symbol j of type u means the same when it is folded, and x is in its place.
MeansAs(done, done2, env, j, u, x) ==
    \A m \in Nat :
        /\ OutcomeOf(done[j][m], u)
        /\ done[j][m].err = "no" => done2[j][m] = done[j][m]
        /\ done2[j][m] = EvalAt(x, env, done2, m)

\* A binary operation of operands of type u that has a value, with what its
\* operands and itself are folded to.
Binary(s, env, sigs, u, done, done2, left, right, x) ==
    /\ s.node = "bin" /\ BinType(s.op, u, u) # "undef"
    /\ EvalAt(s, env, done, sigs).err = "no"
    /\ MeansAs(done, done2, env, s.left, u, left)
    /\ MeansAs(done, done2, env, s.right, u, right)
    /\ left.node = "call" => left.name = "signal"
    /\ right.node = "var" => right.name \notin {"lit", "signal"}
    /\ FoldedTo(s, BinType(s.op, u, u), left, right, x)

\* What it is folded to has its outcome.
LEMMA BinMeans ==
    ASSUME NEW s, NEW env, NEW sigs \in Nat, NEW u \in TypeNames,
           NEW done, NEW done2, NEW left, NEW right, NEW x,
           Binary(s, env, sigs, u, done, done2, left, right, x)
    PROVE  EvalAt(x, env, done2, sigs) = EvalAt(s, env, done, sigs)
<1>. s.node = "bin" /\ BinType(s.op, u, u) # "undef"
  BY DEF Binary
<1>. EvalAt(s, env, done, sigs).err = "no"
  BY DEF Binary
<1>. MeansAs(done, done2, env, s.left, u, left) /\ MeansAs(done, done2, env, s.right, u, right)
  BY DEF Binary
<1>. /\ left.node = "call" => left.name = "signal"
     /\ right.node = "var" => right.name \notin {"lit", "signal"}
  BY DEF Binary
<1>. FoldedTo(s, BinType(s.op, u, u), left, right, x)
  BY DEF Binary
<1> DEFINE l == done[s.left][sigs]
           r == done[s.right][l.sigs]
           o == EvalAt(s, env, done, sigs)
           t == BinType(s.op, u, u)
           v == BinExpr(s.op, l.val, r.val)
           short == IsShort(s.op, l.val)
\* The operands.
<1>0. /\ \A m \in Nat : OutcomeOf(done[s.left][m], u) /\ OutcomeOf(done[s.right][m], u)
      /\ \A m \in Nat : done[s.left][m].err = "no" => done2[s.left][m] = done[s.left][m]
      /\ \A m \in Nat : done[s.right][m].err = "no" => done2[s.right][m] = done[s.right][m]
      /\ \A m \in Nat : done2[s.left][m] = EvalAt(left, env, done2, m)
      /\ \A m \in Nat : done2[s.right][m] = EvalAt(right, env, done2, m)
  BY DEF MeansAs
<1>1. /\ l.err = "no" /\ l.sigs \in Nat /\ ValOf(l.val, u)
      /\ short => o = l
      /\ ~short => /\ r.err = "no" /\ BinErr(s.op, l.val, r.val) = "no"
                   /\ r.sigs \in Nat /\ ValOf(r.val, u)
                   /\ o = Outcome(v, r.sigs, "no")
  <2>1. /\ l.err = "no"
        /\ short => o = l
        /\ ~short => /\ r.err = "no" /\ BinErr(s.op, l.val, r.val) = "no"
                     /\ o = Outcome(v, r.sigs, "no")
    <3>1. BinGives(s, l, r, o)
      BY BinNoErr
    <3> HIDE DEF l, r, o
    <3> QED
      BY <3>1 DEF BinGives
  <2>2. OutcomeOf(l, u) /\ l.sigs \in Nat
    BY <1>0 DEF OutcomeOf
  <2>3. OutcomeOf(r, u)
    BY <1>0, <2>2
  <2> HIDE DEF l, r, o, v, short
  <2> QED
    BY <2>1, <2>2, <2>3 DEF OutcomeOf
<1>2. /\ EvalAt(left, env, done2, sigs) = l
      /\ ~short => EvalAt(right, env, done2, l.sigs) = r
      /\ ~short => done2[s.right][l.sigs] = r
      /\ done2[s.left][sigs] = l
  BY <1>0, <1>1
<1>3. /\ IsConstant(left) => l = Outcome(left.val, sigs, "no") /\ l.val = left.val /\ l.sigs = sigs
      /\ IsConstant(right) /\ ~short =>
             r = Outcome(right.val, l.sigs, "no") /\ r.val = right.val /\ r.sigs = l.sigs
  <2> HIDE DEF l, r, short
  <2> QED
    BY <1>2, EvalConstSym, OutcomeIs
<1>4. /\ short => s.op \in Logical
      /\ s.op \in Logical => u = "bool" /\ t = "bool"
      /\ s.op \in {"|", "&", "-"} => u = "int" /\ t = "int"
      /\ s.op = "+" => t = u
  BY OpTypes DEF IsShort, Logical
<1>5. /\ l = Outcome(l.val, l.sigs, "no")
      /\ ~short => r = Outcome(r.val, r.sigs, "no")
  <2>1. OutcomeOf(l, u) /\ OutcomeOf(r, u)
    BY <1>0, <1>1
  <2> HIDE DEF l, r, short
  <2> QED
    BY <1>1, <2>1 DEF OutcomeOf
<1>6. /\ IsConstant(left) => short = IsShort(s.op, left.val)
      /\ s.op \notin Logical => ~short
  BY <1>3, <1>4
<1> HIDE DEF l, r, o, t, v, short
\* What it may become.
<1>7. CASE /\ IsConstant(left) /\ IsConstant(right)
           /\ x = ConstVal(s.op, left.val, right.val)
  <2>1. CASE short
    <3>1. x = Const(l.val)
      BY <1>3, <1>6, <1>7, <2>1 DEF ConstVal
    <3> QED
      BY <1>1, <1>3, <1>7, <2>1, <3>1, EvalConst DEF o
  <2>2. CASE ~short
    <3>1. x = Const(v)
      BY <1>3, <1>6, <1>7, <2>2 DEF ConstVal, v
    <3> QED
      BY <1>1, <1>3, <1>7, <2>2, <3>1, EvalConst DEF o
  <2> QED
    BY <2>1, <2>2
<1>8. CASE /\ IsConstant(left) /\ s.op \in Logical /\ IsShort(s.op, left.val)
           /\ x = Const(NewBool(s.op = "||"))
  <2>1. short /\ l.val = left.val /\ ValOf(left.val, "bool")
    BY <1>1, <1>3, <1>4, <1>6, <1>8
  <2> DEFINE w == NewBool(s.op = "||")
  <2>2. left.val = w
    BY <1>8, <2>1, ShortVal
  <2>3. x = Const(w)
    BY <1>8
  <2> HIDE DEF w
  <2> QED
    BY <1>1, <1>3, <1>8, <2>1, <2>2, <2>3, EvalConst DEF o
<1>9. CASE IsConstant(left) /\ s.op \in Logical /\ ~IsShort(s.op, left.val) /\ x = right
  <2>1. ~short /\ ValOf(l.val, "bool") /\ ValOf(r.val, "bool") /\ l.sigs = sigs
        /\ ~IsShort(s.op, l.val)
    BY <1>1, <1>3, <1>4, <1>6, <1>9
  <2>2. v = r.val
    BY <1>1, <1>9, <2>1, RestVal DEF v
  <2> QED
    BY <1>1, <1>2, <1>5, <1>9, <2>1, <2>2 DEF o
<1>10. CASE IsConstant(right) /\ NeutralRight(s.op, t, right.val.n) /\ x = left
  <2>1. s.op \in {"+", "-", "|", "&"} /\ t = "int" /\ u = "int" /\ ~short
    BY <1>4, <1>6, <1>10 DEF NeutralRight, NeutralFor, Logical
  <2>2. /\ ValOf(l.val, "int") /\ ValOf(r.val, "int") /\ NeutralRight(s.op, "int", r.val.n)
        /\ r.sigs = l.sigs /\ BinErr(s.op, l.val, r.val) = "no"
    BY <1>1, <1>3, <1>10, <2>1
  <2>3. v = l.val
    BY <2>2, NeutralVal DEF v
  <2> QED
    BY <1>1, <1>2, <1>5, <1>10, <2>1, <2>2, <2>3 DEF o
<1>11. CASE IsConstant(left) /\ NeutralFor(s.op, t, left.val.n) /\ x = right
  <2>1. s.op \in {"+", "|", "&"} /\ t = "int" /\ u = "int" /\ ~short
    BY <1>4, <1>6, <1>11 DEF NeutralFor, Logical
  <2>2. /\ ValOf(l.val, "int") /\ ValOf(r.val, "int") /\ NeutralFor(s.op, "int", l.val.n)
        /\ l.sigs = sigs /\ BinErr(s.op, l.val, r.val) = "no"
    BY <1>1, <1>3, <1>11, <2>1
  <2>3. v = r.val
    BY <2>2, NeutralVal DEF v
  <2> QED
    BY <1>1, <1>2, <1>5, <1>11, <2>1, <2>2, <2>3 DEF o
<1>12. CASE /\ s.op \in {"==", "!="} /\ right.node = "var" /\ NameOf(left) = NameOf(right)
            /\ x = Const(NewBool(s.op = "=="))
  <2>1. ~short
    BY <1>6, <1>12 DEF Logical
  <2>2. left.node = "var" /\ left.name = right.name
    BY <1>12 DEF NameOf
  <2>3. l = Outcome(env[right.name], sigs, "no") /\ r = Outcome(env[right.name], l.sigs, "no")
    BY <1>2, <1>12, <2>1, <2>2 DEF EvalAt
  <2> DEFINE w == env[right.name]
             b == NewBool(s.op = "==")
  <2>4. l.val = w /\ l.sigs = sigs /\ r.val = w /\ r.sigs = sigs
    BY <2>3, OutcomeIs
  <2>5. BinErr(s.op, w, w) = "no" /\ o = Outcome(BinExpr(s.op, w, w), sigs, "no")
    <3> HIDE DEF w
    <3> QED
      BY <1>1, <2>1, <2>4 DEF v
  <2>6. BinExpr(s.op, w, w) = b
    BY <1>12, <2>5, SameVal
  <2>7. x = Const(b)
    BY <1>12
  <2> HIDE DEF w, b
  <2> QED
    BY <2>5, <2>6, <2>7, EvalConst DEF o
<1>13. CASE x = s
  <2>1. /\ l.err # "no" \/ short => EvalAt(s, env, done2, sigs) = l
        /\ l.err = "no" /\ ~short =>
             /\ r.err # "no" => EvalAt(s, env, done2, sigs) = r
             /\ r.err = "no" =>
                  EvalAt(s, env, done2, sigs) = Outcome(v, r.sigs, BinErr(s.op, l.val, r.val))
    <3> DEFINE l2 == done2[s.left][sigs]
               r2 == done2[s.right][l2.sigs]
               o2 == EvalAt(s, env, done2, sigs)
    <3>1. BinTakes(s, l2, r2, o2)
      BY BinOutcome
    <3>2. l2 = l /\ (~short => r2 = r)
      BY <1>2
    <3> HIDE DEF l2, r2, o2
    <3> QED
      BY <3>1, <3>2 DEF BinTakes, v, short, o2
  <2> QED
    BY <1>1, <1>13, <2>1 DEF o
<1> QED
  BY <1>7, <1>8, <1>9, <1>10, <1>11, <1>12, <1>13 DEF FoldedTo, t

\* An expression that evaluates without an error has the same outcome when it
\* is folded: its value, and the signals that it leaves.
LEMMA FoldMeans ==
    ASSUME NEW e, IsExpr(e), NEW env, EnvOK(env), PlainNames
    PROVE  \A k \in DOMAIN e : TypesOf(e)[k] # "undef" =>
               \A sigs \in Nat : Eval(e, env)[k][sigs].err = "no" =>
                   Eval(Fold(e), env)[k][sigs] = Eval(e, env)[k][sigs]
<1> DEFINE f == Fold(e)
           n == Len(e)
           types == TypesOf(e)
           done == Eval(e, env)
           done2 == Eval(f, env)
           Held == {k \in 1..n : types[k] # "undef" =>
                       \A sigs \in Nat : done[k][sigs].err = "no" =>
                           done2[k][sigs] = done[k][sigs]}
<1>0. n \in Nat /\ DOMAIN e = 1..n /\ DOMAIN f = 1..n /\ IsExpr(f)
  BY FoldIsExpr DEF IsExpr
<1>1. ASSUME NEW k \in 1..n, \A j \in 1..(k - 1) : j \in Held, types[k] # "undef",
             NEW sigs \in Nat, done[k][sigs].err = "no"
      PROVE  done2[k][sigs] = done[k][sigs]
  <2> DEFINE s == e[k]
  <2>0. /\ IsSym(s, k) /\ k \in DOMAIN e /\ k \in DOMAIN f
        /\ types[k] = TypeAt(s, types) /\ TypeAt(s, types) # "undef"
        /\ done[k][sigs] = EvalAt(s, env, done, sigs)
        /\ done2[k][sigs] = EvalAt(f[k], env, done2, sigs)
    <3>1. IsSym(s, k) /\ k \in DOMAIN e /\ k \in DOMAIN f
      BY <1>0 DEF IsExpr
    <3>2. types[k] = TypeAt(s, types)
      BY <3>1, TypesAre
    <3>3. done[k][sigs] = EvalAt(s, env, done, sigs)
      BY <3>1, EvalIs
    <3>4. done2[k][sigs] = EvalAt(f[k], env, done2, sigs)
      BY <1>0, <3>1, EvalIs
    <3> QED
      BY <1>1, <3>1, <3>2, <3>3, <3>4
  <2>1. ASSUME NEW j \in 1..(k - 1), types[j] # "undef"
        PROVE  \A m \in Nat : done[j][m].err = "no" => done2[j][m] = done[j][m]
    BY <1>1, <2>1
  <2>2. ASSUME NEW j \in 1..(k - 1)
        PROVE  /\ j \in 1..n /\ j \in DOMAIN e /\ j \in DOMAIN f
               /\ \A m \in Nat : done2[j][m] = EvalAt(f[j], env, done2, m)
    BY <1>0, EvalIs
  <2>3. CASE s.node \in {"const", "var", "call"}
    <3>1. f[k] = s
      BY <2>0, <2>3, FoldedSym
    <3>2. EvalAt(s, env, done2, sigs) = EvalAt(s, env, done, sigs)
      <4>1. CASE s.node \in {"const", "var"}
        BY <4>1 DEF EvalAt
      <4>2. CASE s.node = "call"
        <5> DEFINE a == s.args[1]
                   arg == done[a][sigs]
        <5>1. Len(s.args) = 1 /\ types[a] # "undef" /\ a \in 1..(k - 1)
          BY <2>0, <4>2, TypedOperands, Operands
        <5>2. EvalAt(s, env, done, sigs) = IF arg.err # "no" THEN arg ELSE Took(arg.sigs)
          BY <4>2, <5>1 DEF EvalAt
        <5>3. arg.err = "no"
          BY <1>1, <2>0, <5>2
        <5>4. done2[a][sigs] = arg
          BY <2>1, <5>1, <5>3
        <5>5. EvalAt(s, env, done2, sigs) =
                IF done2[a][sigs].err # "no" THEN done2[a][sigs] ELSE Took(done2[a][sigs].sigs)
          BY <4>2, <5>1 DEF EvalAt
        <5> HIDE DEF a, arg, s, done, done2
        <5> QED
          BY <5>2, <5>4, <5>5
      <4> QED
        BY <2>3, <4>1, <4>2
    <3> QED
      BY <2>0, <3>1, <3>2
  <2>4. CASE s.node = "un"
    <3> DEFINE right == done[s.right][sigs]
               x == f[s.right]
               v == UnaryExpr(s.op, right.val)
    <3>1. f[k] = FoldUnary(s, x) /\ s.right \in 1..(k - 1) /\ types[s.right] # "undef"
      BY <2>0, <2>4, FoldedSym, Operands, TypedOperands
    <3>2. EvalAt(s, env, done, sigs) =
            IF right.err # "no" THEN right ELSE Outcome(v, right.sigs, "no")
      BY <2>4 DEF EvalAt
    <3>3. right.err = "no"
      BY <1>1, <2>0, <3>2
    <3>4. done2[s.right][sigs] = right /\ right = EvalAt(x, env, done2, sigs)
      BY <2>1, <2>2, <3>1, <3>3
    <3>5. EvalAt(s, env, done2, sigs) =
            IF done2[s.right][sigs].err # "no" THEN done2[s.right][sigs]
            ELSE Outcome(UnaryExpr(s.op, done2[s.right][sigs].val), done2[s.right][sigs].sigs, "no")
      BY <2>4 DEF EvalAt
    <3> HIDE DEF right, x, v, s, f, types, done, done2
    <3>6. CASE IsConstant(x)
      <4>1. right = Outcome(x.val, sigs, "no")
        BY <3>4, <3>6, EvalConstSym
      <4>2. right.val = x.val /\ right.sigs = sigs
        BY <4>1, OutcomeIs
      <4>3. f[k] = Const(v)
        BY <3>1, <3>6, <4>2 DEF FoldUnary, v
      <4>4. done2[k][sigs] = Outcome(v, sigs, "no")
        BY <2>0, <4>3, EvalConst
      <4> QED
        BY <2>0, <3>2, <3>3, <4>2, <4>4
    <3>7. CASE ~IsConstant(x)
      <4>1. f[k] = s
        BY <3>1, <3>7 DEF FoldUnary
      <4>2. done2[k][sigs] = Outcome(v, right.sigs, "no")
        BY <2>0, <3>3, <3>4, <3>5, <4>1 DEF v
      <4> QED
        BY <2>0, <3>2, <3>3, <4>2
    <3> QED
      BY <3>6, <3>7
  <2>5. CASE s.node = "bin"
    <3> DEFINE left == f[s.left]
               right == f[s.right]
               u == types[s.left]
    <3>1. /\ FoldedTo(s, types[k], left, right, f[k])
          /\ s.left \in 1..(k - 1) /\ s.right \in 1..(k - 1)
          /\ u # "undef" /\ types[s.right] = u /\ types[k] = BinType(s.op, u, u)
      BY <1>1, <2>0, <2>5, FoldedSym, Operands, TypedOperands
    <3>2. /\ s.left \in DOMAIN e /\ s.right \in DOMAIN e
          /\ s.left \in DOMAIN f /\ s.right \in DOMAIN f
      BY <2>2, <3>1
    <3>3. u \in TypeNames
      BY <3>2, TypesRange
    <3>4. \A m \in Nat : OutcomeOf(done[s.left][m], u) /\ OutcomeOf(done[s.right][m], u)
      BY <3>1, <3>2, Sound
    <3>5. /\ \A m \in Nat : done[s.left][m].err = "no" => done2[s.left][m] = done[s.left][m]
          /\ \A m \in Nat : done[s.right][m].err = "no" => done2[s.right][m] = done[s.right][m]
      BY <2>1, <3>1
    <3>6. /\ \A m \in Nat : done2[s.left][m] = EvalAt(left, env, done2, m)
          /\ \A m \in Nat : done2[s.right][m] = EvalAt(right, env, done2, m)
      BY <2>2, <3>1
    <3>7. left.node = "call" => left.name = "signal"
      <4>1. TypesOf(f)[s.left] # "undef"
        BY <3>1, <3>2, FoldTypes
      <4>2. TypesOf(f)[s.left] = TypeAt(left, TypesOf(f))
        BY <1>0, <3>2, TypesAre
      <4> QED
        BY <4>1, <4>2, TypedOperands
    <3>8. right.node = "var" => right.name \notin {"lit", "signal"}
      <4>1. IsSym(right, s.right)
        BY <1>0, <3>2 DEF IsExpr
      <4>2. right.node = "var" => right.name \in DOMAIN VarType
        BY <4>1 DEF IsSym
      <4> QED
        BY <4>2 DEF PlainNames
    <3>9. /\ MeansAs(done, done2, env, s.left, u, left)
           /\ MeansAs(done, done2, env, s.right, u, right)
      BY <3>4, <3>5, <3>6 DEF MeansAs
    <3> HIDE DEF s, f, u, types, done, done2, left, right
    <3>10. /\ BinType(s.op, u, u) # "undef" /\ EvalAt(s, env, done, sigs).err = "no"
          /\ FoldedTo(s, BinType(s.op, u, u), left, right, f[k])
      BY <1>1, <2>0, <3>1
    <3>11. Binary(s, env, sigs, u, done, done2, left, right, f[k])
      BY <2>5, <3>7, <3>8, <3>9, <3>10 DEF Binary
    <3>12. EvalAt(f[k], env, done2, sigs) = EvalAt(s, env, done, sigs)
      BY <1>1, <3>3, <3>11, BinMeans
    <3> QED
      BY <2>0, <3>12
  <2> QED
    BY <2>0, <2>3, <2>4, <2>5 DEF IsSym
<1>2. 1..n \subseteq Held
  <2>1. ASSUME NEW k \in 1..n, \A j \in 1..(k - 1) : j \in Held PROVE k \in Held
    BY <1>1, <2>1
  <2> HIDE DEF Held
  <2> QED
    BY <1>0, <2>1, FirstSymbol
<1> QED
  BY <1>0, <1>2
-----------------------------------------------------------------------------
(* Folding leaves no operation of constants.                                *)

\* A symbol x among those of f has an operand that is no constant.
Reduced(x, f) ==
    /\ x.node = "un" => ~IsConstant(f[x.right])
    /\ x.node = "bin" => ~(IsConstant(f[x.left]) /\ IsConstant(f[x.right]))

LEMMA FoldReduces ==
    ASSUME NEW e, IsExpr(e)
    PROVE  \A k \in DOMAIN e : Reduced(Fold(e)[k], Fold(e))
<1> DEFINE f == Fold(e)
           n == Len(e)
           Held == {k \in 1..n : Reduced(f[k], f)}
<1>0. n \in Nat /\ DOMAIN e = 1..n
  BY DEF IsExpr
<1>1. ASSUME NEW v PROVE Reduced(Const(v), f)
  <2>1. Const(v).node = "const"
    BY DEF Const
  <2> QED
    BY <2>1 DEF Reduced
<1>2. ASSUME NEW k \in 1..n, \A j \in 1..(k - 1) : j \in Held PROVE k \in Held
  <2> DEFINE s == e[k]
             x == f[k]
             left == f[s.left]
             right == f[s.right]
  <2>0. k \in DOMAIN e
    BY <1>0
  <2>1. CASE s.node \in {"const", "var", "call"}
    <3>1. x = s
      BY <2>0, <2>1, FoldedSym
    <3> HIDE DEF s, x, f
    <3>2. Reduced(x, f)
      BY <2>1, <3>1 DEF Reduced
    <3> QED
      BY <3>2 DEF x
  <2>2. CASE s.node = "un"
    <3>1. x = FoldUnary(s, right)
      BY <2>0, <2>2, FoldedSym
    <3> HIDE DEF x, f
    <3>2. Reduced(x, f)
      <4>1. CASE IsConstant(right)
        BY <1>1, <3>1, <4>1 DEF FoldUnary
      <4>2. CASE ~IsConstant(right)
        BY <2>2, <3>1, <4>2 DEF FoldUnary, Reduced
      <4> QED
        BY <4>1, <4>2
    <3> QED
      BY <3>2 DEF x
  <2>3. CASE s.node = "bin"
    <3>1. FoldedTo(s, TypesOf(e)[k], left, right, x)
      BY <2>0, <2>3, FoldedSym
    <3>2. Reduced(left, f) /\ Reduced(right, f)
      <4>1. s.left \in 1..(k - 1) /\ s.right \in 1..(k - 1)
        BY <2>0, <2>3, Operands
      <4> QED
        BY <1>2, <4>1
    <3>3. ~(IsConstant(left) /\ IsConstant(right)) => Reduced(s, f)
      BY <2>3 DEF Reduced
    <3>4. Reduced(ConstVal(s.op, left.val, right.val), f)
      BY <1>1 DEF ConstVal
    <3>5. Reduced(Const(NewBool(s.op = "||")), f) /\ Reduced(Const(NewBool(s.op = "==")), f)
      BY <1>1
    <3> HIDE DEF s, x, left, right, f
    <3>6. Reduced(x, f)
      BY <3>1, <3>2, <3>3, <3>4, <3>5 DEF FoldedTo
    <3> QED
      BY <3>6 DEF x
  <2> QED
    BY <2>0, <2>1, <2>2, <2>3, Operands
<1>3. 1..n \subseteq Held
  <2> HIDE DEF Held
  <2> QED
    BY <1>0, <1>2, FirstSymbol
<1> QED
  BY <1>0, <1>3
-----------------------------------------------------------------------------
(* What the parser makes.  The symbols of an operand are found again in the  *)
(* expression, d places further.                                            *)

IsSeq(e) == Len(e) \in Nat /\ DOMAIN e = 1..Len(e) /\ e = [k \in DOMAIN e |-> e[k]]

\* The symbol x is s, whose operands are d places further.
Moved(s, x, d) ==
    /\ x.node = s.node
    /\ s.node = "const" => x.val = s.val
    /\ s.node = "var" => x.name = s.name
    /\ s.node = "call" => /\ x.name = s.name /\ Len(x.args) = Len(s.args)
                          /\ Len(s.args) = 1 => x.args[1] = s.args[1] + d
    /\ s.node = "un" => x.op = s.op /\ x.right = s.right + d
    /\ s.node = "bin" => x.op = s.op /\ x.left = s.left + d /\ x.right = s.right + d

Within(r, e, d) == \A k \in DOMAIN r : k + d \in DOMAIN e /\ Moved(r[k], e[k + d], d)

LEMMA ShiftedIs ==
    ASSUME NEW k \in Nat \ {0}, NEW s, IsSym(s, k), NEW d \in Nat
    PROVE  IsSym(Shifted(s, d), k + d) /\ Moved(s, Shifted(s, d), d)
<1> DEFINE x == Shifted(s, d)
<1>1. CASE s.node \in {"const", "var"}
  <2>1. x = s
    BY <1>1 DEF Shifted
  <2> QED
    BY <1>1, <2>1 DEF IsSym, Moved
<1>2. CASE s.node = "call"
  <2> DEFINE args == [j \in DOMAIN s.args |-> s.args[j] + d]
  <2>1. s = CallSym(s.name, s.args) /\ s.args \in Seq(1..(k - 1))
    BY <1>2 DEF IsSym
  <2>2. x = CallSym(s.name, args)
    BY <1>2, <2>1 DEF Shifted, CallSym
  <2>3. /\ args \in Seq(1..(k + d - 1)) /\ Len(args) = Len(s.args)
        /\ Len(s.args) = 1 => args[1] = s.args[1] + d
    <3>1. Len(s.args) \in Nat /\ DOMAIN s.args = 1..Len(s.args)
      BY <2>1
    <3>2. \A j \in 1..Len(s.args) : s.args[j] \in 1..(k - 1)
      BY <2>1
    <3>3. \A j \in 1..Len(s.args) : s.args[j] + d \in 1..(k + d - 1)
      BY <3>2
    <3>4. args \in [1..Len(s.args) -> 1..(k + d - 1)]
      BY <3>1, <3>3
    <3> QED
      BY <3>1, <3>4
  <2> HIDE DEF args, x
  <2>4. x.node = "call" /\ x.name = s.name /\ x.args = args
    BY <2>2 DEF CallSym
  <2> QED
    BY <1>2, <2>2, <2>3, <2>4 DEF IsSym, Moved, x
<1>3. CASE s.node = "un"
  <2>1. s = UnSym(s.op, s.right) /\ s.op \in {"+", "-", "~", "!"} /\ s.right \in 1..(k - 1)
    BY <1>3 DEF IsSym
  <2>2. x = UnSym(s.op, s.right + d)
    BY <1>3, <2>1 DEF Shifted, UnSym
  <2> HIDE DEF x
  <2>3. x.node = "un" /\ x.op = s.op /\ x.right = s.right + d
    BY <2>2 DEF UnSym
  <2> QED
    BY <1>3, <2>1, <2>2, <2>3 DEF IsSym, Moved, x
<1>4. CASE s.node = "bin"
  <2>1. s = BinSym(s.op, s.left, s.right) /\ s.left \in 1..(k - 1) /\ s.right \in 1..(k - 1)
    BY <1>4 DEF IsSym
  <2>2. x = BinSym(s.op, s.left + d, s.right + d)
    BY <1>4, <2>1 DEF Shifted, BinSym
  <2> HIDE DEF x
  <2>3. x.node = "bin" /\ x.op = s.op /\ x.left = s.left + d /\ x.right = s.right + d
    BY <2>2 DEF BinSym
  <2> QED
    BY <1>4, <2>1, <2>2, <2>3 DEF IsSym, Moved, x
<1> QED
  BY <1>1, <1>2, <1>3, <1>4 DEF IsSym

LEMMA StaysThere ==
    ASSUME NEW k \in Nat, NEW s, IsSym(s, k)
    PROVE  Moved(s, s, 0)
<1>1. s.node = "call" /\ Len(s.args) = 1 => s.args[1] \in Int
  <2> SUFFICES ASSUME s.node = "call", Len(s.args) = 1 PROVE s.args[1] \in Int
    OBVIOUS
  <2>1. s.args \in Seq(1..(k - 1))
    BY DEF IsSym
  <2> QED
    BY <2>1
<1>2. /\ s.node = "un" => s.right \in Int
      /\ s.node = "bin" => s.left \in Int /\ s.right \in Int
  BY DEF IsSym
<1> QED
  BY <1>1, <1>2 DEF Moved

LEMMA ShiftIs ==
    ASSUME NEW e, IsExpr(e), NEW d \in Nat
    PROVE  /\ IsSeq(Shift(e, d)) /\ Len(Shift(e, d)) = Len(e)
           /\ \A k \in 1..Len(e) : /\ IsSym(Shift(e, d)[k], k + d)
                                   /\ Moved(e[k], Shift(e, d)[k], d)
<1> DEFINE f == Shift(e, d)
           n == Len(e)
<1>1. n \in Nat /\ DOMAIN e = 1..n /\ \A k \in 1..n : IsSym(e[k], k)
  BY DEF IsExpr
<1>2. f = [k \in 1..n |-> Shifted(e[k], d)]
  BY <1>1 DEF Shift
<1> HIDE DEF f, n
<1>3. DOMAIN f = 1..n /\ Len(f) = n /\ f = [k \in DOMAIN f |-> f[k]]
  BY <1>1, <1>2
<1>4. \A k \in 1..n : IsSym(f[k], k + d) /\ Moved(e[k], f[k], d)
  <2> TAKE k \in 1..n
  <2>1. k \in Nat \ {0} /\ IsSym(e[k], k) /\ f[k] = Shifted(e[k], d)
    BY <1>1, <1>2
  <2> QED
    BY <2>1, ShiftedIs
<1> QED
  BY <1>1, <1>3, <1>4 DEF IsSeq, f, n

\* One sequence after another.
Follows(x, s, t) ==
    /\ IsSeq(x) /\ Len(x) = Len(s) + Len(t)
    /\ \A k \in 1..Len(s) : x[k] = s[k]
    /\ \A k \in 1..Len(t) : x[k + Len(s)] = t[k]

LEMMA Joined ==
    ASSUME NEW s, IsSeq(s), NEW t, IsSeq(t)
    PROVE  Follows(s \o t, s, t)
<1> DEFINE S == {s[k] : k \in DOMAIN s} \cup {t[k] : k \in DOMAIN t}
           m == Len(s)
           n == Len(t)
<1>1. s \in Seq(S) /\ t \in Seq(S)
  <2>1. s \in [1..m -> S] /\ t \in [1..n -> S] /\ m \in Nat /\ n \in Nat
    BY DEF IsSeq
  <2> HIDE DEF S, m, n
  <2> QED
    BY <2>1, SeqDef
<1>2. m \in Nat /\ n \in Nat
  BY DEF IsSeq
<1> HIDE DEF S
<1>3. /\ s \o t \in Seq(S) /\ Len(s \o t) = m + n
      /\ \A k \in 1..(m + n) : (s \o t)[k] = IF k <= m THEN s[k] ELSE t[k - m]
  BY <1>1, ConcatProperties
<1>4. s \o t \in [1..(m + n) -> S]
  BY <1>3, LenProperties
<1> HIDE DEF m, n
<1> DEFINE f == s \o t
<1> HIDE DEF f
<1>5. IsSeq(f)
  <2>1. DOMAIN f = 1..(m + n) /\ Len(f) = m + n /\ f = [k \in DOMAIN f |-> f[k]]
    BY <1>3, <1>4 DEF f
  <2> QED
    BY <1>2, <2>1 DEF IsSeq
<1>6. \A k \in 1..m : f[k] = s[k]
  BY <1>2, <1>3 DEF f
<1>7. \A k \in 1..n : f[k + m] = t[k]
  <2> TAKE k \in 1..n
  <2>1. k + m \in 1..(m + n) /\ ~(k + m <= m) /\ (k + m) - m = k
    BY <1>2
  <2> QED
    BY <1>3, <2>1 DEF f
<1>8. Follows(f, s, t)
  BY <1>3, <1>5, <1>6, <1>7 DEF Follows, f, m, n
<1> QED
  BY <1>8 DEF f

\* A sequence and one more.
LEMMA Appended ==
    ASSUME NEW s, IsSeq(s), NEW x
    PROVE  /\ IsSeq(Append(s, x)) /\ Len(Append(s, x)) = Len(s) + 1
           /\ \A k \in 1..Len(s) : Append(s, x)[k] = s[k]
           /\ Append(s, x)[Len(s) + 1] = x
<1> DEFINE S == {s[k] : k \in DOMAIN s} \cup {x}
           m == Len(s)
           f == Append(s, x)
<1>1. s \in Seq(S) /\ x \in S /\ m \in Nat
  <2>1. s \in [1..m -> S] /\ x \in S /\ m \in Nat
    BY DEF IsSeq
  <2> HIDE DEF S, m
  <2> QED
    BY <2>1, SeqDef
<1> HIDE DEF S, f
<1>2. /\ f \in Seq(S) /\ Len(f) = m + 1
      /\ \A k \in 1..m : f[k] = s[k]
      /\ f[m + 1] = x
  BY <1>1, AppendProperties DEF f
<1>3. f \in [1..(m + 1) -> S]
  BY <1>2, LenProperties
<1>4. IsSeq(f)
  BY <1>1, <1>2, <1>3 DEF IsSeq
<1> QED
  BY <1>2, <1>4 DEF f

\* The operations of the parser: the operand of a unary operator.
LEMMA UnIs ==
    ASSUME NEW e, IsExpr(e), NEW op \in {"+", "-", "~", "!"}
    PROVE  LET x == Un(op, e) IN
           /\ IsExpr(x) /\ Within(e, x, 0)
           /\ Root(x) = UnSym(op, Len(e)) /\ Len(x) = Len(e) + 1
<1> DEFINE x == Un(op, e)
           n == Len(e)
           s == UnSym(op, n)
<1>1. /\ n \in Nat \ {0} /\ DOMAIN e = 1..n /\ IsSeq(e)
      /\ \A k \in 1..n : IsSym(e[k], k)
  BY DEF IsExpr, IsSeq
<1>2. x = Append(e, s)
  BY DEF Un
<1>3. IsSym(s, n + 1)
  <2>1. s.node = "un" /\ s.op = op /\ s.right = n
    BY DEF UnSym
  <2>2. s = UnSym(s.op, s.right) /\ s.right \in 1..((n + 1) - 1)
    BY <1>1, <2>1
  <2> HIDE DEF s
  <2> QED
    BY <2>1, <2>2 DEF IsSym
<1> HIDE DEF x, n, s
<1>4. /\ IsSeq(x) /\ Len(x) = n + 1 /\ x[n + 1] = s
      /\ \A k \in 1..n : x[k] = e[k]
  BY <1>1, <1>2, Appended DEF n
<1>5. DOMAIN x = 1..(n + 1) /\ x = [k \in DOMAIN x |-> x[k]]
  BY <1>4 DEF IsSeq
<1>6. \A k \in 1..(n + 1) : IsSym(x[k], k)
  <2> TAKE k \in 1..(n + 1)
  <2>1. k \in 1..n \/ k = n + 1
    BY <1>1
  <2> QED
    BY <1>1, <1>3, <1>4, <2>1
<1>7. IsExpr(x)
  BY <1>1, <1>4, <1>5, <1>6 DEF IsExpr
<1>8. Within(e, x, 0)
  <2> SUFFICES ASSUME NEW k \in 1..n PROVE k + 0 \in DOMAIN x /\ Moved(e[k], x[k + 0], 0)
    BY <1>1 DEF Within
  <2>1. k + 0 = k /\ k \in DOMAIN x /\ k \in Nat
    BY <1>1, <1>5
  <2> QED
    BY <1>1, <1>4, <2>1, StaysThere
<1> QED
  BY <1>4, <1>7, <1>8 DEF Root, x, n, s

\* Two operands, and the operation of both.
LEMMA JoinedIs ==
    ASSUME NEW l, IsSeq(l), \A k \in 1..Len(l) : IsSym(l[k], k),
           NEW r, IsExpr(r), NEW s, IsSym(s, Len(l) + Len(r) + 1)
    PROVE  LET x == Append(l \o Shift(r, Len(l)), s) IN
           /\ IsExpr(x) /\ Within(l, x, 0) /\ Within(r, x, Len(l))
           /\ Len(x) = Len(l) + Len(r) + 1 /\ Root(x) = s
<1> DEFINE m == Len(l)
           n == Len(r)
           t == Shift(r, m)
           both == l \o t
           x == Append(both, s)
<1>1. m \in Nat /\ n \in Nat \ {0} /\ DOMAIN l = 1..m /\ DOMAIN r = 1..n
  BY DEF IsSeq, IsExpr
<1>2. /\ IsSeq(t) /\ Len(t) = n
      /\ \A k \in 1..n : IsSym(t[k], k + m) /\ Moved(r[k], t[k], m)
  BY <1>1, ShiftIs
<1> HIDE DEF m, n, t, both, x
<1>3. /\ IsSeq(both) /\ Len(both) = m + n
      /\ \A k \in 1..m : both[k] = l[k]
      /\ \A k \in 1..n : both[k + m] = t[k]
  <2>1. Follows(both, l, t)
    BY <1>2, Joined DEF both
  <2>2. Len(t) = n
    BY <1>2
  <2> QED
    BY <2>1, <2>2 DEF Follows, m
<1>4. /\ IsSeq(x) /\ Len(x) = m + n + 1 /\ x[m + n + 1] = s
      /\ \A k \in 1..(m + n) : x[k] = both[k]
  BY <1>3, Appended DEF x
<1>5. DOMAIN x = 1..(m + n + 1) /\ x = [k \in DOMAIN x |-> x[k]]
  BY <1>4 DEF IsSeq
<1>6. \A k \in 1..m : x[k] = l[k]
  <2> TAKE k \in 1..m
  <2>1. k \in 1..(m + n)
    BY <1>1
  <2> QED
    BY <1>3, <1>4, <2>1
<1>7. \A k \in 1..n : x[k + m] = t[k]
  <2> TAKE k \in 1..n
  <2>1. k + m \in 1..(m + n)
    BY <1>1
  <2> QED
    BY <1>3, <1>4, <2>1
<1>8. IsExpr(x)
  <2>1. ASSUME NEW k \in 1..(m + n + 1) PROVE IsSym(x[k], k)
    <3>1. CASE k \in 1..m
      BY <1>6, <3>1 DEF m
    <3>2. CASE k \in (m + 1)..(m + n)
      <4>1. k - m \in 1..n /\ (k - m) + m = k
        BY <1>1, <3>2
      <4>2. x[(k - m) + m] = t[k - m] /\ IsSym(t[k - m], (k - m) + m)
        BY <1>2, <1>7, <4>1
      <4> QED
        BY <4>1, <4>2
    <3>3. CASE k = m + n + 1
      BY <1>4, <3>3 DEF m, n
    <3> QED
      BY <1>1, <2>1, <3>1, <3>2, <3>3
  <2> QED
    BY <1>1, <1>4, <1>5, <2>1 DEF IsExpr
<1>9. Within(l, x, 0)
  <2> SUFFICES ASSUME NEW k \in 1..m PROVE k + 0 \in DOMAIN x /\ Moved(l[k], x[k + 0], 0)
    BY <1>1 DEF Within
  <2>1. k + 0 = k /\ k \in DOMAIN x /\ k \in Nat
    BY <1>1, <1>5
  <2>2. IsSym(l[k], k)
    BY DEF m
  <2> QED
    BY <1>6, <2>1, <2>2, StaysThere
<1>10. Within(r, x, m)
  <2> SUFFICES ASSUME NEW k \in 1..n PROVE k + m \in DOMAIN x /\ Moved(r[k], x[k + m], m)
    BY <1>1 DEF Within
  <2>1. k + m \in DOMAIN x
    BY <1>1, <1>5
  <2> QED
    BY <1>2, <1>7, <2>1
<1> QED
  BY <1>4, <1>8, <1>9, <1>10 DEF Root, x, both, t, m, n

LEMMA BinIs ==
    ASSUME NEW l, IsExpr(l), NEW r, IsExpr(r), NEW op
    PROVE  LET x == Bin(op, l, r) IN
           /\ IsExpr(x) /\ Within(l, x, 0) /\ Within(r, x, Len(l))
           /\ Len(x) = Len(l) + Len(r) + 1
           /\ Root(x) = BinSym(op, Len(l), Len(l) + Len(r))
<1> DEFINE m == Len(l)
           n == Len(r)
           s == BinSym(op, m, m + n)
           both == l \o Shift(r, m)
<1>1. /\ m \in Nat \ {0} /\ n \in Nat \ {0} /\ IsSeq(l)
      /\ \A k \in 1..m : IsSym(l[k], k)
  BY DEF IsExpr, IsSeq
<1>2. IsSym(s, m + n + 1)
  <2>1. s.node = "bin" /\ s.op = op /\ s.left = m /\ s.right = m + n
    BY DEF BinSym
  <2>2. /\ s = BinSym(s.op, s.left, s.right)
        /\ s.left \in 1..((m + n + 1) - 1) /\ s.right \in 1..((m + n + 1) - 1)
    BY <1>1, <2>1
  <2> HIDE DEF s
  <2> QED
    BY <2>1, <2>2 DEF IsSym
<1>3. Bin(op, l, r) = Append(both, s)
  <2>1. Bin(op, l, r) = both \o <<s>>
    BY DEF Bin
  <2>2. IsSeq(both)
    BY <1>1, ShiftIs, Joined DEF Follows
  <2> HIDE DEF both, s
  <2>3. both \o <<s>> = Append(both, s)
    <3> DEFINE S == {both[k] : k \in DOMAIN both} \cup {s}
    <3>1. both \in [1..Len(both) -> S] /\ s \in S /\ Len(both) \in Nat
      BY <2>2 DEF IsSeq
    <3> HIDE DEF S
    <3>2. both \in Seq(S)
      BY <3>1, SeqDef
    <3> QED
      BY <3>1, <3>2, AppendIsConcat
  <2> QED
    BY <2>1, <2>3
<1> HIDE DEF s
<1>4. /\ IsExpr(Append(both, s)) /\ Within(l, Append(both, s), 0) /\ Within(r, Append(both, s), m)
      /\ Len(Append(both, s)) = m + n + 1 /\ Root(Append(both, s)) = s
  BY <1>1, <1>2, JoinedIs
<1> QED
  BY <1>3, <1>4 DEF s

\* One symbol.
LEMMA OneIs ==
    ASSUME NEW s, IsSym(s, 1)
    PROVE  IsExpr(<<s>>) /\ Root(<<s>>) = s
<1> DEFINE x == <<s>>
<1>1. Len(x) = 1 /\ DOMAIN x = 1..1 /\ x[1] = s /\ x = [k \in DOMAIN x |-> x[k]]
  OBVIOUS
<1> HIDE DEF x
<1>2. \A k \in DOMAIN x : IsSym(x[k], k)
  BY <1>1
<1>3. IsExpr(x) /\ Root(x) = s
  BY <1>1, <1>2 DEF IsExpr, Root
<1> QED
  BY <1>3 DEF x

\* One more argument of a call.
LEMMA AddArgIs ==
    ASSUME NEW call, IsExpr(call), Root(call).node = "call", NEW arg, IsExpr(arg)
    PROVE  LET x == AddArg(call, arg)
               d == Len(call) - 1
           IN  /\ IsExpr(x) /\ Within(arg, x, d) /\ Len(x) = Len(call) + Len(arg)
               /\ Root(x) = CallSym(Root(call).name, Append(Root(call).args, d + Len(arg)))
<1> DEFINE n == Len(call)
           l == SubSeq(call, 1, n - 1)
           f == Root(call)
           last == n - 1 + Len(arg)
           s == CallSym(f.name, Append(f.args, last))
           x == Append(l \o Shift(arg, Len(l)), s)
<1>1. /\ n \in Nat \ {0} /\ DOMAIN call = 1..n /\ \A k \in 1..n : IsSym(call[k], k)
      /\ Len(arg) \in Nat \ {0}
  BY DEF IsExpr
<1>2. IsSeq(l) /\ Len(l) = n - 1 /\ \A k \in 1..Len(l) : IsSym(l[k], k)
  <2> DEFINE S == {call[k] : k \in DOMAIN call}
  <2>1. \A k \in 1..(n - 1) : call[k] \in S
    BY <1>1
  <2> HIDE DEF S, n
  <2>2. /\ SubSeq(call, 1, n - 1) \in Seq(S)
        /\ Len(SubSeq(call, 1, n - 1)) = n - 1
        /\ \A k \in 1..(n - 1) : SubSeq(call, 1, n - 1)[k] = call[k]
    <3>1. (n - 1) - 1 + 1 = n - 1 /\ n - 1 \in Int /\ 1 \in Int
      BY <1>1
    <3>2. /\ SubSeq(call, 1, n - 1) \in Seq(S)
          /\ Len(SubSeq(call, 1, n - 1)) = IF 1 <= n - 1 THEN (n - 1) - 1 + 1 ELSE 0
          /\ \A k \in 1..((n - 1) - 1 + 1) : SubSeq(call, 1, n - 1)[k] = call[1 + k - 1]
      BY <2>1, <3>1, SubSeqProperties
    <3> QED
      BY <1>1, <3>1, <3>2
  <2> HIDE DEF l
  <2>3. l \in Seq(S) /\ Len(l) = n - 1 /\ \A k \in 1..(n - 1) : l[k] = call[k]
    BY <2>2 DEF l
  <2>4. l \in [1..Len(l) -> S]
    BY <2>3, LenProperties
  <2>5. IsSeq(l)
    BY <1>1, <2>3, <2>4 DEF IsSeq
  <2>6. \A k \in 1..(n - 1) : IsSym(l[k], k)
    BY <1>1, <2>3
  <2> QED
    BY <2>3, <2>5, <2>6
<1>3. f.node = "call" /\ f = CallSym(f.name, f.args) /\ f.args \in Seq(1..(n - 1))
  <2>1. IsSym(f, n)
    BY <1>1 DEF Root
  <2> HIDE DEF f, n
  <2> QED
    BY <2>1 DEF IsSym, f
<1> HIDE DEF n, l, f, last
<1>4. last \in Nat \ {0} /\ last = (n - 1) + Len(arg)
  BY <1>1 DEF last
<1>5. IsSym(s, last + 1)
  <2>1. f.args \in Seq(1..last) /\ last \in 1..last
    <3>1. 1..(n - 1) \subseteq 1..last
      BY <1>1, <1>4
    <3>2. \A q \in Seq(1..(n - 1)) : q \in Seq(1..last)
      BY ONLY <3>1, SeqMonotonic
    <3>3. last \in 1..last
      BY <1>4
    <3> QED
      BY <1>3, <3>2, <3>3, Zenon
  <2>2. Append(f.args, last) \in Seq(1..last)
    BY <2>1, AppendProperties
  <2>3. s.node = "call" /\ s = CallSym(s.name, s.args) /\ s.args = Append(f.args, last)
    BY DEF CallSym
  <2> HIDE DEF s
  <2> QED
    BY <1>4, <2>2, <2>3 DEF IsSym
<1>6. AddArg(call, arg) = x
  <2>1. Len(l \o Shift(arg, Len(l))) = last
    <3>1. Len(l) \in Nat /\ Len(l) = n - 1
      BY <1>2 DEF IsSeq
    <3>2. IsSeq(Shift(arg, Len(l))) /\ Len(Shift(arg, Len(l))) = Len(arg)
      BY <3>1, ShiftIs
    <3> QED
      BY <1>2, <1>4, <3>1, <3>2, Joined DEF Follows
  <2>2. [f EXCEPT !.args = Append(@, last)] = s
    BY <1>3 DEF CallSym
  <2> DEFINE both == l \o Shift(arg, Len(l))
  <2>3. AddArg(call, arg) = Append(both, [f EXCEPT !.args = Append(@, Len(both))])
    BY DEF AddArg, l, f, n
  <2> HIDE DEF s
  <2> QED
    BY <2>1, <2>2, <2>3
<1> HIDE DEF s
<1>7. /\ IsExpr(x) /\ Within(arg, x, Len(l))
      /\ Len(x) = Len(l) + Len(arg) + 1 /\ Root(x) = s
  <2>1. IsSym(s, Len(l) + Len(arg) + 1)
    BY <1>2, <1>4, <1>5
  <2> QED
    BY <1>2, <2>1, JoinedIs
<1> HIDE DEF x
<1>8. /\ IsExpr(x) /\ Within(arg, x, n - 1) /\ Len(x) = n + Len(arg) /\ Root(x) = s
  BY <1>1, <1>2, <1>7
<1> QED
  BY <1>6, <1>8 DEF s, f, last, n

\* A symbol has the same type wherever its expression is.
LEMMA TypesWithin ==
    ASSUME NEW r, IsExpr(r), NEW e, IsExpr(e), NEW d \in Nat, Within(r, e, d)
    PROVE  \A k \in DOMAIN r : TypesOf(e)[k + d] = TypesOf(r)[k]
<1> DEFINE n == Len(r)
           types == TypesOf(r)
           types2 == TypesOf(e)
           Held == {k \in 1..n : types2[k + d] = types[k]}
<1>0. n \in Nat /\ DOMAIN r = 1..n
  BY DEF IsExpr
<1>1. ASSUME NEW k \in 1..n, \A j \in 1..(k - 1) : types2[j + d] = types[j]
      PROVE  types2[k + d] = types[k]
  <2> DEFINE s == r[k]
             x == e[k + d]
  <2>1. k \in DOMAIN r /\ k + d \in DOMAIN e /\ Moved(s, x, d)
    BY <1>0 DEF Within
  <2>2. types[k] = TypeAt(s, types) /\ types2[k + d] = TypeAt(x, types2)
    BY <2>1, TypesAre
  <2>3. /\ s.node \in {"const", "var", "call", "un", "bin"}
        /\ s.node = "call" /\ Len(s.args) = 1 => s.args[1] \in 1..(k - 1)
        /\ s.node = "un" => s.right \in 1..(k - 1)
        /\ s.node = "bin" => s.left \in 1..(k - 1) /\ s.right \in 1..(k - 1)
    BY <2>1, Operands
  <2> HIDE DEF s, x, types, types2
  <2>4. TypeAt(x, types2) = TypeAt(s, types)
    <3>1. CASE s.node \in {"const", "var"}
      BY <2>1, <3>1 DEF Moved, TypeAt
    <3>2. CASE s.node = "call"
      <4>1. /\ x.node = "call" /\ x.name = s.name /\ Len(x.args) = Len(s.args)
            /\ Len(s.args) = 1 => types2[x.args[1]] = types[s.args[1]]
        BY <1>1, <2>1, <2>3, <3>2 DEF Moved
      <4> QED
        BY <3>2, <4>1 DEF TypeAt
    <3>3. CASE s.node = "un"
      <4>1. x.node = "un" /\ x.op = s.op /\ types2[x.right] = types[s.right]
        BY <1>1, <2>1, <2>3, <3>3 DEF Moved
      <4> QED
        BY <3>3, <4>1 DEF TypeAt
    <3>4. CASE s.node = "bin"
      <4>1. /\ x.node = "bin" /\ x.op = s.op
            /\ types2[x.left] = types[s.left] /\ types2[x.right] = types[s.right]
        BY <1>1, <2>1, <2>3, <3>4 DEF Moved
      <4> QED
        BY <3>4, <4>1 DEF TypeAt
    <3> QED
      BY <2>3, <3>1, <3>2, <3>3, <3>4
  <2> QED
    BY <2>2, <2>4
<1>2. 1..n \subseteq Held
  <2>1. ASSUME NEW k \in 1..n, \A j \in 1..(k - 1) : j \in Held PROVE k \in Held
    BY <1>1, <2>1
  <2> HIDE DEF Held
  <2> QED
    BY <1>0, <2>1, FirstSymbol
<1> QED
  BY <1>0, <1>2

\* And it has the same outcome.
LEMMA EvalWithin ==
    ASSUME NEW r, IsExpr(r), NEW e, IsExpr(e), NEW d \in Nat, Within(r, e, d), NEW env
    PROVE  \A k \in DOMAIN r :
               TypesOf(r)[k] # "undef" => Eval(e, env)[k + d] = Eval(r, env)[k]
<1> DEFINE n == Len(r)
           types == TypesOf(r)
           done == Eval(r, env)
           done2 == Eval(e, env)
           Held == {k \in 1..n : types[k] # "undef" => done2[k + d] = done[k]}
<1>0. n \in Nat /\ DOMAIN r = 1..n
  BY DEF IsExpr
<1>1. ASSUME NEW k \in 1..n, types[k] # "undef",
             \A j \in 1..(k - 1) : types[j] # "undef" => done2[j + d] = done[j]
      PROVE  done2[k + d] = done[k]
  <2> DEFINE s == r[k]
             x == e[k + d]
  <2>1. k \in DOMAIN r /\ k + d \in DOMAIN e /\ Moved(s, x, d)
    BY <1>0 DEF Within
  <2>2. /\ done[k] = [sigs \in Nat |-> EvalAt(s, env, done, sigs)]
        /\ done2[k + d] = [sigs \in Nat |-> EvalAt(x, env, done2, sigs)]
    BY <2>1, EvalIs
  <2>3. /\ s.node \in {"const", "var", "call", "un", "bin"}
        /\ s.node = "call" /\ Len(s.args) = 1 => s.args[1] \in 1..(k - 1)
        /\ s.node = "un" => s.right \in 1..(k - 1)
        /\ s.node = "bin" => s.left \in 1..(k - 1) /\ s.right \in 1..(k - 1)
    BY <2>1, Operands
  <2>4. /\ s.node = "call" => Len(s.args) = 1 /\ types[s.args[1]] # "undef"
        /\ s.node = "un" => types[s.right] # "undef"
        /\ s.node = "bin" => types[s.left] # "undef" /\ types[s.right] # "undef"
    <3>1. TypeAt(s, types) # "undef"
      BY <1>1, <2>1, TypesAre
    <3> HIDE DEF s, types
    <3> QED
      BY <3>1, TypedOperands
  <2> HIDE DEF s, x, types, done, done2
  <2>5. ASSUME NEW sigs \in Nat PROVE EvalAt(x, env, done2, sigs) = EvalAt(s, env, done, sigs)
    <3>1. CASE s.node \in {"const", "var"}
      BY <2>1, <3>1 DEF Moved, EvalAt
    <3>2. CASE s.node = "call"
      <4>1. x.node = "call" /\ Len(x.args) = 1 /\ done2[x.args[1]] = done[s.args[1]]
        BY <1>1, <2>1, <2>3, <2>4, <3>2 DEF Moved
      <4> QED
        BY <2>4, <3>2, <4>1 DEF EvalAt
    <3>3. CASE s.node = "un"
      <4>1. x.node = "un" /\ x.op = s.op /\ done2[x.right] = done[s.right]
        BY <1>1, <2>1, <2>3, <2>4, <3>3 DEF Moved
      <4> QED
        BY <3>3, <4>1 DEF EvalAt
    <3>4. CASE s.node = "bin"
      <4>1. /\ x.node = "bin" /\ x.op = s.op
            /\ done2[x.left] = done[s.left] /\ done2[x.right] = done[s.right]
        BY <1>1, <2>1, <2>3, <2>4, <3>4 DEF Moved
      <4> QED
        BY <3>4, <4>1 DEF EvalAt
    <3> QED
      BY <2>3, <3>1, <3>2, <3>3, <3>4
  <2> QED
    BY <2>2, <2>5
<1>2. 1..n \subseteq Held
  <2>1. ASSUME NEW k \in 1..n, \A j \in 1..(k - 1) : j \in Held PROVE k \in Held
    BY <1>1, <2>1
  <2> HIDE DEF Held
  <2> QED
    BY <1>0, <2>1, FirstSymbol
<1> QED
  BY <1>0, <1>2

\* The parser makes expressions of expressions: SetExprVal, NewExpr, AddLeft,
\* AddRight and AddArg point to symbols that exist already, whatever the text.
THEOREM ParserMakesExprs ==
    /\ \A v : IsVal(v) => IsExpr(Lit(v))
    /\ \A x \in DOMAIN VarType : IsExpr(Var(x))
    /\ \A f : IsExpr(FCall(f)) /\ Root(FCall(f)).node = "call"
    /\ \A e, op : IsExpr(e) /\ op \in {"+", "-", "~", "!"} => IsExpr(Un(op, e))
    /\ \A l, r, op : IsExpr(l) /\ IsExpr(r) => IsExpr(Bin(op, l, r))
    /\ \A call, e : IsExpr(call) /\ Root(call).node = "call" /\ IsExpr(e) =>
           IsExpr(AddArg(call, e)) /\ Root(AddArg(call, e)).node = "call"
<1>1. ASSUME NEW v, IsVal(v) PROVE IsExpr(Lit(v))
  BY <1>1, ConstSym, OneIs DEF Lit
<1>2. ASSUME NEW x \in DOMAIN VarType PROVE IsExpr(Var(x))
  <2> DEFINE s == VarSym(x)
  <2>1. s.node = "var" /\ s.name = x /\ s = VarSym(s.name)
    BY DEF VarSym
  <2> HIDE DEF s
  <2>2. IsSym(s, 1)
    BY <2>1 DEF IsSym
  <2>3. IsExpr(<<s>>)
    BY <2>2, OneIs
  <2> QED
    BY <2>3 DEF Var, s
<1>3. ASSUME NEW f PROVE IsExpr(FCall(f)) /\ Root(FCall(f)).node = "call"
  <2> DEFINE s == CallSym(f, <<>>)
  <2>1. s.node = "call" /\ s.name = f /\ s.args = <<>> /\ s = CallSym(s.name, s.args)
    BY DEF CallSym
  <2>2. <<>> \in Seq(1..(1 - 1))
    BY EmptySeq
  <2> HIDE DEF s
  <2>3. IsSym(s, 1)
    BY <2>1, <2>2 DEF IsSym
  <2>4. IsExpr(<<s>>) /\ Root(<<s>>) = s
    BY <2>3, OneIs
  <2> QED
    BY <2>1, <2>4 DEF FCall, s
<1>4. ASSUME NEW e, NEW op, IsExpr(e), op \in {"+", "-", "~", "!"} PROVE IsExpr(Un(op, e))
  BY <1>4, UnIs
<1>5. ASSUME NEW l, NEW r, NEW op, IsExpr(l), IsExpr(r) PROVE IsExpr(Bin(op, l, r))
  BY <1>5, BinIs
<1>6. ASSUME NEW call, NEW e, IsExpr(call), Root(call).node = "call", IsExpr(e)
      PROVE  IsExpr(AddArg(call, e)) /\ Root(AddArg(call, e)).node = "call"
  <2> DEFINE x == AddArg(call, e)
             name == Root(call).name
             args == Append(Root(call).args, Len(call) - 1 + Len(e))
  <2>1. IsExpr(x) /\ Root(x) = CallSym(name, args)
    BY <1>6, AddArgIs
  <2> HIDE DEF x, name, args
  <2>2. Root(x).node = "call"
    BY <2>1 DEF CallSym
  <2> QED
    BY <2>1, <2>2 DEF x
<1> QED
  BY <1>1, <1>2, <1>3, <1>4, <1>5, <1>6

\* The type of an operation is that of the types of its operands, as Annotate
\* finds it going down the tree.
THEOREM TypesCompose ==
    ASSUME NEW l, IsExpr(l), NEW r, IsExpr(r), NEW op
    PROVE  /\ TypeOf(Bin(op, l, r)) = BinType(op, TypeOf(l), TypeOf(r))
           /\ op \in {"+", "-", "~", "!"} => TypeOf(Un(op, l)) = UnType(op, TypeOf(l))
<1>0. Len(l) \in DOMAIN l /\ Len(r) \in DOMAIN r /\ Len(l) \in Nat /\ Len(r) \in Nat
  BY DEF IsExpr
<1>1. TypeOf(Bin(op, l, r)) = BinType(op, TypeOf(l), TypeOf(r))
  <2> DEFINE x == Bin(op, l, r)
             types == TypesOf(x)
             s == BinSym(op, Len(l), Len(l) + Len(r))
  <2>1. IsExpr(x) /\ Within(l, x, 0) /\ Within(r, x, Len(l)) /\ Root(x) = s
    BY BinIs
  <2>2. types[Len(l) + 0] = TypeOf(l) /\ types[Len(r) + Len(l)] = TypeOf(r)
    <3> HIDE DEF x
    <3> QED
      BY <1>0, <2>1, TypesWithin DEF TypeOf
  <2>3. types[Len(l)] = TypeOf(l) /\ types[Len(l) + Len(r)] = TypeOf(r)
    BY <1>0, <2>2
  <2>4. TypeOf(x) = TypeAt(s, types)
    <3> HIDE DEF x, s
    <3>1. Len(x) \in DOMAIN x
      BY <2>1 DEF IsExpr
    <3> QED
      BY <2>1, <3>1, TypesAre DEF TypeOf, Root
  <2>5. s.node = "bin" /\ s.op = op /\ s.left = Len(l) /\ s.right = Len(l) + Len(r)
    BY DEF BinSym
  <2> HIDE DEF x, s, types
  <2>6. TypeOf(x) = BinType(op, TypeOf(l), TypeOf(r))
    BY <2>3, <2>4, <2>5 DEF TypeAt
  <2> QED
    BY <2>6 DEF x
<1>2. ASSUME op \in {"+", "-", "~", "!"} PROVE TypeOf(Un(op, l)) = UnType(op, TypeOf(l))
  <2> DEFINE x == Un(op, l)
             types == TypesOf(x)
             s == UnSym(op, Len(l))
  <2>1. IsExpr(x) /\ Within(l, x, 0) /\ Root(x) = s
    BY <1>2, UnIs
  <2>2. types[Len(l) + 0] = TypeOf(l) /\ Len(l) + 0 = Len(l)
    <3> HIDE DEF x
    <3> QED
      BY <1>0, <2>1, TypesWithin DEF TypeOf
  <2>3. TypeOf(x) = TypeAt(s, types)
    <3> HIDE DEF x, s
    <3>1. Len(x) \in DOMAIN x
      BY <2>1 DEF IsExpr
    <3> QED
      BY <2>1, <3>1, TypesAre DEF TypeOf, Root
  <2>4. s.node = "un" /\ s.op = op /\ s.right = Len(l)
    BY DEF UnSym
  <2> HIDE DEF x, s, types
  <2>5. TypeOf(x) = UnType(op, TypeOf(l))
    BY <2>2, <2>3, <2>4 DEF TypeAt
  <2> QED
    BY <2>5 DEF x
<1> QED
  BY <1>1, <1>2

\* The outcome of an operation that has a type is that of the outcomes of its
\* operands, the second from the signals that the first has left, as EvalExpr
\* finds it going down the tree.
THEOREM OutcomesCompose ==
    ASSUME NEW l, IsExpr(l), NEW r, IsExpr(r), NEW op, NEW env, NEW sigs \in Nat
    PROVE  /\ TypeOf(Bin(op, l, r)) # "undef" =>
                  LET left == EvalExpr(l, env, sigs)
                      right == EvalExpr(r, env, left.sigs)
                  IN  BinTakes(Root(Bin(op, l, r)), left, right,
                               EvalExpr(Bin(op, l, r), env, sigs))
           /\ op \in {"+", "-", "~", "!"} /\ TypeOf(Un(op, l)) # "undef" =>
                  LET right == EvalExpr(l, env, sigs) IN
                  EvalExpr(Un(op, l), env, sigs) =
                      IF right.err # "no" THEN right
                      ELSE Outcome(UnaryExpr(op, right.val), right.sigs, "no")
<1>0. Len(l) \in DOMAIN l /\ Len(r) \in DOMAIN r /\ Len(l) \in Nat /\ Len(r) \in Nat
  BY DEF IsExpr
<1>1. ASSUME TypeOf(Bin(op, l, r)) # "undef"
      PROVE  BinTakes(Root(Bin(op, l, r)), EvalExpr(l, env, sigs),
                      EvalExpr(r, env, EvalExpr(l, env, sigs).sigs),
                      EvalExpr(Bin(op, l, r), env, sigs))
  <2> DEFINE x == Bin(op, l, r)
             done == Eval(x, env)
             s == BinSym(op, Len(l), Len(l) + Len(r))
  <2>1. IsExpr(x) /\ Within(l, x, 0) /\ Within(r, x, Len(l)) /\ Root(x) = s
    BY BinIs
  <2>2. TypeOf(l) # "undef" /\ TypeOf(r) # "undef"
    BY <1>1, TypesCompose DEF BinType
  <2>3. /\ Eval(x, env)[Len(l) + 0] = Eval(l, env)[Len(l)]
        /\ Eval(x, env)[Len(r) + Len(l)] = Eval(r, env)[Len(r)]
    <3> HIDE DEF x, s
    <3> QED
      BY <1>0, <2>1, <2>2, EvalWithin DEF TypeOf
  <2>4. done[Len(l)] = Eval(l, env)[Len(l)] /\ done[Len(l) + Len(r)] = Eval(r, env)[Len(r)]
    BY <1>0, <2>3
  <2>5. s.node = "bin" /\ s.left = Len(l) /\ s.right = Len(l) + Len(r)
    BY DEF BinSym
  <2> HIDE DEF x, s, done
  <2>6. EvalExpr(x, env, sigs) = EvalAt(s, env, done, sigs)
    <3>1. Len(x) \in DOMAIN x
      BY <2>1 DEF IsExpr
    <3> QED
      BY <2>1, <3>1, EvalIs DEF EvalExpr, Root, done
  <2>7. BinTakes(s, done[Len(l)][sigs], done[Len(l) + Len(r)][done[Len(l)][sigs].sigs],
                 EvalAt(s, env, done, sigs))
    BY <2>5, BinOutcome
  <2>8. BinTakes(s, EvalExpr(l, env, sigs), EvalExpr(r, env, EvalExpr(l, env, sigs).sigs),
                 EvalExpr(x, env, sigs))
    BY <2>4, <2>6, <2>7 DEF EvalExpr
  <2> QED
    BY <2>1, <2>8 DEF x
<1>2. ASSUME op \in {"+", "-", "~", "!"}, TypeOf(Un(op, l)) # "undef"
      PROVE  LET right == EvalExpr(l, env, sigs) IN
             EvalExpr(Un(op, l), env, sigs) =
                 IF right.err # "no" THEN right
                 ELSE Outcome(UnaryExpr(op, right.val), right.sigs, "no")
  <2> DEFINE x == Un(op, l)
             done == Eval(x, env)
             s == UnSym(op, Len(l))
             right == EvalExpr(l, env, sigs)
  <2>1. IsExpr(x) /\ Within(l, x, 0) /\ Root(x) = s
    BY <1>2, UnIs
  <2>2. TypeOf(l) # "undef"
    BY <1>2, TypesCompose DEF UnType
  <2>3. Eval(x, env)[Len(l) + 0] = Eval(l, env)[Len(l)] /\ Len(l) + 0 = Len(l)
    <3> HIDE DEF x, s
    <3> QED
      BY <1>0, <2>1, <2>2, EvalWithin DEF TypeOf
  <2>4. s.node = "un" /\ s.op = op /\ s.right = Len(l)
    BY DEF UnSym
  <2> HIDE DEF x, s, done
  <2>5. EvalExpr(x, env, sigs) = EvalAt(s, env, done, sigs)
    <3>1. Len(x) \in DOMAIN x
      BY <2>1 DEF IsExpr
    <3> QED
      BY <2>1, <3>1, EvalIs DEF EvalExpr, Root, done
  <2>6. done[s.right][sigs] = right
    BY <2>3, <2>4 DEF EvalExpr, done
  <2> HIDE DEF right
  <2>7. EvalAt(s, env, done, sigs) =
          IF right.err # "no" THEN right ELSE Outcome(UnaryExpr(op, right.val), right.sigs, "no")
    BY <2>4, <2>6 DEF EvalAt
  <2> QED
    BY <2>5, <2>7 DEF x, right
<1> QED
  BY <1>1, <1>2
-----------------------------------------------------------------------------
(* The compiler.                                                            *)

\* The tree is an expression once it was read, of some type once it was
\* checked, and folded in the end.
ReadTree == stage \in {"parsed", "typed", "folded", "dropped"} => IsExpr(tree)
TypedTree == stage \in {"typed", "folded", "dropped"} => TypeOf(tree) # "undef"
FoldedTree ==
    stage \in {"folded", "dropped"} => \A k \in DOMAIN tree : Reduced(tree[k], tree)

Inv ==
    /\ stage = "text" => ParsesTo(text)
    /\ ReadTree /\ TypedTree /\ FoldedTree

LEMMA EnvsOK ==
    ASSUME NEW env \in Envs
    PROVE  EnvOK(env)
<1> SUFFICES ASSUME NEW x \in DOMAIN VarType PROVE ValOf(env[x], VarType[x])
  BY DEF EnvOK
<1> DEFINE v == env[x]
           t == VarType[x]
<1>1. v = Val(t, v.n) /\ InRange(v)
  BY CompileAssumption
<1>2. t \in {"int", "bool", "string"}
  BY ExprsAssumption
<1> HIDE DEF v, t
<1>3. v.type = t
  BY <1>1 DEF Val
<1>4. v.n \in Int
  BY <1>1, <1>2, <1>3, ExprsAssumption DEF InRange, Ints
<1>5. ValOf(v, t)
  BY <1>1, <1>2, <1>3, <1>4 DEF ValOf, IsVal
<1> QED
  BY <1>5 DEF v, t

\* The root of what is folded keeps its type.
LEMMA FoldTypeOf ==
    ASSUME NEW e, IsExpr(e), TypeOf(e) # "undef"
    PROVE  TypeOf(Fold(e)) = TypeOf(e)
<1>1. Len(e) \in DOMAIN e
  BY DEF IsExpr
<1> QED
  BY <1>1, FoldIsExpr, FoldTypes DEF TypeOf

LEMMA InvInit == Init => Inv
<1> SUFFICES ASSUME Init PROVE ParsesTo(text) /\ stage = "text"
  BY DEF Inv, ReadTree, TypedTree, FoldedTree
<1>1. CASE \E family \in Exprs : meant \in family /\ text = Write(meant)
  BY <1>1, CompileAssumption DEF Init
<1>2. CASE text \in Texts
  BY <1>2, CompileAssumption DEF Init
<1> QED
  BY <1>1, <1>2 DEF Init

LEMMA InvNext == Inv /\ [Next]_vars => Inv'
<1> SUFFICES ASSUME Inv, [Next]_vars PROVE Inv'
  OBVIOUS
<1>1. CASE ParseExpr
  <2>1. stage' = "parsed" /\ IsExpr(tree')
    BY <1>1 DEF ParseExpr, Inv, ParsesTo
  <2> QED
    BY <2>1 DEF Inv, ReadTree, TypedTree, FoldedTree
<1>2. CASE ParseFails \/ TypeFails \/ FoldFails
  <2>1. stage' = "error"
    BY <1>2 DEF ParseFails, TypeFails, FoldFails
  <2> QED
    BY <2>1 DEF Inv, ReadTree, TypedTree, FoldedTree
<1>3. CASE TypeCheck
  <2>1. stage' = "typed" /\ IsExpr(tree) /\ TypeOf(tree) # "undef" /\ tree' = tree
    BY <1>3 DEF TypeCheck, Inv, ReadTree
  <2> QED
    BY <2>1 DEF Inv, ReadTree, TypedTree, FoldedTree
<1>4. CASE FoldExpr \/ DropRule
  <2>1. /\ stage' \in {"folded", "dropped"} /\ tree' = Fold(tree)
        /\ IsExpr(tree) /\ TypeOf(tree) # "undef"
    BY <1>4 DEF FoldExpr, DropRule, Inv, ReadTree, TypedTree
  <2>2. IsExpr(tree') /\ TypeOf(tree') # "undef"
    BY <2>1, FoldIsExpr, FoldTypeOf
  <2>3. \A k \in DOMAIN tree' : Reduced(tree'[k], tree')
    BY <2>1, FoldIsExpr, FoldReduces
  <2> QED
    BY <2>1, <2>2, <2>3 DEF Inv, ReadTree, TypedTree, FoldedTree
<1>5. CASE UNCHANGED vars
  <2>1. stage' = stage /\ tree' = tree /\ text' = text
    BY <1>5 DEF vars
  <2> QED
    BY <2>1 DEF Inv, ReadTree, TypedTree, FoldedTree, ParsesTo
<1> QED
  BY <1>1, <1>2, <1>3, <1>4, <1>5 DEF Next

LEMMA Invariant == Spec => []Inv
  BY InvInit, InvNext, PTL DEF Spec

\* What has passed the checks evaluates, whatever the variables hold, to a value
\* of its type, and no error but a division by zero ends the process: for any
\* expression, any width of an int and any length of a string, before and after
\* Fold of tree/const.go.
THEOREM CompileTypeSound == Spec => []TypeSound
<1>1. Inv => TypeSound
  <2> SUFFICES ASSUME Inv, stage \in {"typed", "folded", "dropped"},
                      NEW env \in Envs, NEW sigs \in 0..MaxSigs
               PROVE  LET r == EvalExpr(tree, env, sigs) IN
                      /\ r.err # "types"
                      /\ r.err = "no" => r.val.type = TypeOf(tree) /\ InRange(r.val)
    BY DEF TypeSound
  <2> DEFINE r == EvalExpr(tree, env, sigs)
             t == TypeOf(tree)
  <2>1. IsExpr(tree) /\ t # "undef"
    BY DEF Inv, ReadTree, TypedTree
  <2>2. OutcomeOf(r, t)
    <3>1. Len(tree) \in DOMAIN tree /\ sigs \in Nat
      BY <2>1, CompileAssumption DEF IsExpr
    <3> QED
      BY <2>1, <3>1, Sound, EnvsOK DEF EvalExpr, TypeOf
  <2> HIDE DEF r, t
  <2>3. /\ r.err # "types"
        /\ r.err = "no" => r.val.type = t /\ InRange(r.val)
    BY <2>2 DEF OutcomeOf, ValOf, IsVal
  <2> QED
    BY <2>3 DEF r, t
<1> QED
  BY <1>1, Invariant, PTL

\* After Fold no operation is left whose operands are all constants.
THEOREM CompileNothingConstantLeft == Spec => []NothingConstantLeft
<1>1. Inv => NothingConstantLeft
  BY DEF Inv, FoldedTree, Reduced, NothingConstantLeft
<1> QED
  BY <1>1, Invariant, PTL

\* Where the evaluation of a checked expression has no error, that of what Fold
\* makes of it has the same value and leaves the same signals.
THEOREM CompileFoldKeepsMeaning == Spec => FoldKeepsMeaning
<1>1. Inv /\ [Next]_vars => [stage = "typed" /\ PlainNames => SameMeaning(tree, tree')]_vars
  <2> SUFFICES ASSUME Inv, [Next]_vars, stage = "typed", PlainNames,
                      NEW env \in Envs, NEW sigs \in 0..MaxSigs,
                      EvalExpr(tree, env, sigs).err = "no"
               PROVE  EvalExpr(tree', env, sigs) = EvalExpr(tree, env, sigs)
    BY DEF SameMeaning
  <2>1. tree' = tree \/ tree' = Fold(tree)
    BY DEF Next, ParseExpr, ParseFails, TypeCheck, TypeFails, FoldExpr, DropRule, FoldFails, vars
  <2>2. EvalExpr(Fold(tree), env, sigs) = EvalExpr(tree, env, sigs)
    <3>1. IsExpr(tree) /\ TypeOf(tree) # "undef" /\ EnvOK(env)
      BY EnvsOK DEF Inv, ReadTree, TypedTree
    <3>2. Len(tree) \in DOMAIN tree /\ sigs \in Nat /\ Len(Fold(tree)) = Len(tree)
      BY <3>1, FoldIsExpr, CompileAssumption DEF IsExpr
    <3> QED
      BY <3>1, <3>2, FoldMeans DEF EvalExpr, TypeOf
  <2> QED
    BY <2>1, <2>2
<1> QED
  BY <1>1, Invariant, PTL DEF Spec, FoldKeepsMeaning
=============================================================================
