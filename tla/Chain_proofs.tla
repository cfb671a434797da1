---------------------------- MODULE Chain_proofs ----------------------------
(***************************************************************************)
(* Whatever the chain of a rule, however long: the optimiser deletes of it   *)
(* only what it has a reason to delete, so that the chain does the same;     *)
(* and the program that is generated from it does what the interpreter does. *)
(***************************************************************************)
EXTENDS ChainRun, WellFoundedInduction, TLAPS

(* The optimiser.  The reason of a deletion may be found passes later than   *)
(* the set that it refers to was seen, through pointers: the invariant says  *)
(* of these that they point to sets of the right variable that come before   *)
(* all that is left to visit, which is in order.                             *)

Ordered ==
    /\ \A k, l \in DOMAIN acts : k < l => acts[k] < acts[l]
    /\ \A k, l \in DOMAIN kept : k < l => kept[k] < kept[l]
    /\ \A k \in DOMAIN kept : \A l \in i..Len(acts) : kept[k] < acts[l]

WhereOK ==
    \A v \in Vars : where[v] # None =>
        /\ IsSet(where[v]) /\ Var(where[v]) = v
        /\ \A l \in i..Len(acts) : where[v] < acts[l]

Reasons == \A a \in const : Deletable(a)

IInv == TypeOK /\ Ordered /\ WhereOK /\ Reasons /\ DeletedForAReason

LEMMA PositionType ==
    ASSUME TypeOK
    PROVE  /\ Position = 1..Len(source) /\ Position \subseteq Nat \ {0}
           /\ \A a \in Position : source[a] \in Action
           /\ \A a \in Position : IsSet(a) => Var(a) \in Vars
           /\ acts \in Seq(Nat) /\ kept \in Seq(Nat)
           /\ DOMAIN acts = 1..Len(acts) /\ DOMAIN kept = 1..Len(kept)
           /\ Len(acts) \in Nat /\ Len(kept) \in Nat
<1>1. source \in Seq(Action)
    BY ChainAssumption DEF TypeOK
<1>2. Position = 1..Len(source) /\ Len(source) \in Nat /\ Position \subseteq Nat \ {0}
    BY <1>1 DEF Position
<1>3. \A a \in Position : source[a] \in Action
    BY <1>1, <1>2
<1>4. \A a \in Position : IsSet(a) => Var(a) \in Vars
    BY <1>3 DEF Action, What, IsSet, Var
<1>5. acts \in Seq(Nat) /\ kept \in Seq(Nat)
    BY <1>2 DEF TypeOK
<1> QED  BY <1>2, <1>3, <1>4, <1>5

\* The set that a later one makes dead is a set of its variable, before it.
LEMMA VictimsDeletable ==
    ASSUME TypeOK, WhereOK, i <= Len(acts)
    PROVE  /\ acts[i] \in Position
           /\ \A a \in Victims(acts[i]) \cup Folded(acts[i]) :
                  a \in Position /\ Deletable(a)
<1> DEFINE a == acts[i]
<1>1. i \in Nat /\ i >= 1 /\ i \in DOMAIN acts /\ i \in i..Len(acts)
    BY PositionType DEF TypeOK
<1>2. a \in Position
    BY <1>1, PositionType DEF TypeOK
<1>3. ASSUME NEW w \in Victims(a)
      PROVE  w \in Position /\ Deletable(w)
  <2>1. IsSet(a) /\ w = where[Var(a)] /\ w # None
      BY <1>3 DEF Victims, Sets
  <2>2. Var(a) \in Vars
      BY <2>1, <1>2, PositionType
  <2>3. w \in Position
      BY <2>1, <2>2 DEF TypeOK
  <2>4. IsSet(w) /\ Var(w) = Var(a) /\ w < a
      BY <2>1, <2>2, <1>1 DEF WhereOK
  <2> QED  BY <2>1, <2>3, <2>4, <1>2 DEF Deletable, Overwritten
<1>4. ASSUME NEW w \in Folded(a)
      PROVE  w \in Position /\ Deletable(w)
    BY <1>2, <1>4 DEF Folded, Deletable
<1> QED  BY <1>2, <1>3, <1>4

LEMMA InitOK == Init => IInv
<1> SUFFICES ASSUME Init PROVE IInv
    OBVIOUS
<1>1. source \in Seq(Action) /\ source # <<>>
    BY ChainAssumption DEF Init
<1>2. Position = 1..Len(source) /\ Len(source) \in Nat
    BY <1>1 DEF Position
<1>3. acts \in Seq(Position) /\ Len(acts) = Len(source)
      /\ DOMAIN acts = Position /\ \A k \in Position : acts[k] = k
    BY <1>2 DEF Init, Position
<1>4. TypeOK
  <2>1. where \in [Vars -> Position \cup {None}]
      BY DEF Init
  <2>2. const \subseteq Position /\ i \in 1..(Len(acts) + 1)
      BY <1>2, <1>3 DEF Init
  <2>3. kept \in Seq(Position)
      BY DEF Init
  <2> QED  BY <2>1, <2>2, <2>3, <1>3 DEF Init, TypeOK
<1>5. Ordered
    BY <1>2, <1>3 DEF Init, Ordered
<1>6. WhereOK /\ Reasons
    BY DEF Init, WhereOK, Reasons
<1>7. DeletedForAReason
  <2>1. \A a \in Position : InActs(a)
      BY <1>2, <1>3 DEF Init, InActs
  <2> QED  BY <2>1 DEF Init, DeletedForAReason, Live
<1> QED  BY <1>4, <1>5, <1>6, <1>7 DEF IInv

\* What the actions of the optimiser that visit acts[i] have in common.
Visit ==
    /\ i <= Len(acts)
    /\ const' = Const(acts[i])
    /\ where' = Where(acts[i])
    /\ i' \in {i + 1, Len(acts) + 1}
    /\ nd' \in BOOLEAN
    /\ UNCHANGED <<source, acts>>

LEMMA StepIsVisit ==
    ASSUME TypeOK, Keep \/ Drop \/ Truncate
    PROVE  Visit
<1>1. nd \in BOOLEAN
    BY DEF TypeOK
<1>2. (nd \/ Victims(acts[i]) # {}) \in BOOLEAN
    OBVIOUS
<1> QED  BY <1>1, <1>2 DEF Keep, Drop, Truncate, Visit

LEMMA VisitReasons ==
    ASSUME TypeOK, WhereOK, Reasons, Visit
    PROVE  Reasons' /\ const' \subseteq Position
<1>1. \A a \in const' : a \in Position /\ Deletable(a)
    BY VictimsDeletable DEF Visit, Const, Reasons, TypeOK
<1>2. \A a : Deletable(a)' <=> Deletable(a)
    BY DEF Visit, Deletable, SelfSet, Overwritten, IsSet, Var, Position
<1> QED  BY <1>1, <1>2 DEF Reasons

LEMMA VisitWhere ==
    ASSUME TypeOK, Ordered, WhereOK, Visit
    PROVE  WhereOK' /\ where' \in [Vars -> Position \cup {None}]
<1> DEFINE a == acts[i]
<1>1. /\ i \in Nat /\ i >= 1 /\ i \in DOMAIN acts /\ i' > i /\ i' \in Nat
      /\ a \in Position /\ Len(acts) \in Nat
      /\ \A l \in i'..Len(acts) : l \in i..Len(acts) /\ a < acts[l]
    BY PositionType DEF TypeOK, Visit, Ordered
<1>2. where' = where \/ (IsSet(a) /\ where' = [where EXCEPT ![Var(a)] = a])
    BY DEF Visit, Where, Sets
<1>3. where' \in [Vars -> Position \cup {None}]
    BY <1>1, <1>2 DEF TypeOK
<1>4. \A b : (IsSet(b)' <=> IsSet(b)) /\ Var(b)' = Var(b)
    BY DEF Visit, IsSet, Var
<1>5. ASSUME NEW v \in Vars, where'[v] # None
      PROVE  /\ IsSet(where'[v]) /\ Var(where'[v]) = v
             /\ \A l \in i'..Len(acts) : where'[v] < acts[l]
  <2>1. CASE where'[v] = where[v]
      BY <2>1, <1>5, <1>1 DEF WhereOK
  <2>2. CASE where'[v] # where[v]
    <3>1. IsSet(a) /\ v = Var(a) /\ where'[v] = a
        BY <2>2, <1>2 DEF TypeOK
    <3> QED  BY <3>1, <1>1
  <2> QED  BY <2>1, <2>2
<1>6. acts' = acts
    BY DEF Visit
<1> QED  BY <1>3, <1>4, <1>5, <1>6 DEF WhereOK

LEMMA VisitOrdered ==
    ASSUME TypeOK, Ordered, Visit,
           kept' = kept \/ (i' = i + 1 /\ kept' = Append(kept, acts[i]))
    PROVE  Ordered' /\ kept' \in Seq(Position) /\ i' \in 1..(Len(acts) + 1)
<1>1. /\ i \in Nat /\ i >= 1 /\ i \in DOMAIN acts /\ i' > i /\ i' \in 1..(Len(acts) + 1)
      /\ acts[i] \in Position /\ Len(acts) \in Nat /\ i \in i..Len(acts)
      /\ \A l \in i'..Len(acts) : l \in i..Len(acts) /\ acts[i] < acts[l]
    BY PositionType DEF TypeOK, Visit, Ordered
<1>2. kept' \in Seq(Position)
  <2>1. kept \in Seq(Position)
      BY DEF TypeOK
  <2>2. Append(kept, acts[i]) \in Seq(Position)
      BY <2>1, <1>1
  <2> QED  BY <2>1, <2>2
<1>3. acts' = acts
    BY DEF Visit
<1>4. CASE kept' = kept
    BY <1>1, <1>2, <1>3, <1>4 DEF Ordered
<1>5. CASE i' = i + 1 /\ kept' = Append(kept, acts[i])
  <2>1. /\ DOMAIN kept = 1..Len(kept) /\ Len(kept) \in Nat
        /\ DOMAIN kept' = 1..(Len(kept) + 1)
        /\ \A k \in DOMAIN kept : kept'[k] = kept[k]
        /\ kept'[Len(kept) + 1] = acts[i]
    <3>1. kept \in Seq(Position) /\ acts[i] \in Position /\ kept' = Append(kept, acts[i])
        BY <1>1, <1>5 DEF TypeOK
    <3> QED  BY <3>1
  <2>2. \A k \in DOMAIN kept : kept[k] < acts[i]
      BY <1>1 DEF Ordered
  <2>3. \A k, l \in DOMAIN kept' : k < l => kept'[k] < kept'[l]
    <3>1. \A k, l \in DOMAIN kept : k < l => kept[k] < kept[l]
        BY DEF Ordered
    <3>2. SUFFICES ASSUME NEW k \in DOMAIN kept', NEW l \in DOMAIN kept', k < l
                   PROVE  kept'[k] < kept'[l]
        OBVIOUS
    <3>3. k \in DOMAIN kept
        BY <2>1, <3>2
    <3>4. CASE l \in DOMAIN kept
        BY <2>1, <3>1, <3>2, <3>3, <3>4
    <3>5. CASE l = Len(kept) + 1
        BY <2>1, <2>2, <3>3, <3>5
    <3> QED  BY <2>1, <3>4, <3>5
  <2>4. \A k \in DOMAIN kept' : \A l \in i'..Len(acts) : kept'[k] < acts[l]
      BY <2>1, <1>1 DEF Ordered
  <2> QED  BY <1>1, <1>2, <1>3, <2>3, <2>4 DEF Ordered
<1> QED  BY <1>1, <1>2, <1>4, <1>5

\* An action that was live is live, or a constant now, or was just cut off.
LEMMA VisitReasoned ==
    ASSUME IInv, Keep \/ Drop \/ Truncate
    PROVE  DeletedForAReason'
<1> USE DEF IInv
<1> DEFINE a == acts[i]
<1>1. Visit
    BY StepIsVisit
<1>2. Reasons' /\ const \subseteq const' /\ Position' = Position
    BY <1>1, VisitReasons DEF Visit, Const, Position
<1>3. \A b : /\ Deletable(b)' <=> Deletable(b)
             /\ Connector(b)' = Connector(b)
    BY <1>1 DEF Visit, Deletable, SelfSet, Overwritten, IsSet, Var, Position, Connector
<1>4. /\ i \in Nat /\ i >= 1 /\ i \in DOMAIN acts /\ a \in Position
      /\ Len(acts) \in Nat /\ acts' = acts
      /\ \A l \in (i+1)..Len(acts) : a < acts[l] /\ acts[l] \in Position
      /\ DOMAIN kept = 1..Len(kept) /\ Len(kept) \in Nat
    BY <1>1, PositionType DEF TypeOK, Visit, Ordered
<1>5. SUFFICES ASSUME NEW b \in Position, b \notin Live', ~Deletable(b)
               PROVE  \E c \in const' : c < b /\ Connector(c) = "nthen" /\ Deletable(c)
    BY <1>2, <1>3 DEF DeletedForAReason
<1>6. b \notin const' /\ ~InKept(b)' /\ ~InActs(b)'
    BY <1>2, <1>3, <1>5 DEF Live, Reasons
<1>7. CASE b \notin Live
    BY <1>2, <1>5, <1>7 DEF DeletedForAReason
<1>8. CASE b \in Live
  <2>1. InKept(b) \/ InActs(b)
      BY <1>8 DEF Live
  <2>2. ~InKept(b)
    <3>1. \A k \in DOMAIN kept : k \in DOMAIN kept' /\ kept'[k] = kept[k]
        BY <1>4 DEF Keep, Drop, Truncate, TypeOK
    <3> QED  BY <1>6, <3>1 DEF InKept
  <2>3. PICK k \in i..Len(acts) : acts[k] = b
      BY <2>1, <2>2 DEF InActs
  <2>4. CASE Keep
    <3>1. kept' = Append(kept, a) /\ i' = i + 1
        BY <2>4 DEF Keep
    <3>2. Len(kept) + 1 \in DOMAIN kept' /\ kept'[Len(kept) + 1] = a
        BY <3>1, <1>4 DEF TypeOK
    <3>3. b # a
        BY <3>2, <1>6 DEF InKept
    <3> QED  BY <2>3, <3>1, <3>3, <1>4, <1>6 DEF InActs
  <2>5. CASE Drop
    <3>1. a \in const' /\ i' = i + 1
        BY <2>5 DEF Drop
    <3> QED  BY <2>3, <3>1, <1>4, <1>6 DEF InActs
  <2>6. CASE Truncate
    <3>1. a \in const' /\ Connector(a) = "nthen"
        BY <2>6 DEF Truncate
    <3>2. a < b
        BY <2>3, <3>1, <1>4, <1>6
    <3> QED  BY <3>1, <3>2, <1>2, <1>3 DEF Reasons
  <2> QED  BY <2>4, <2>5, <2>6
<1> QED  BY <1>7, <1>8

LEMMA AgainOK == IInv /\ Again => IInv'
<1> SUFFICES ASSUME IInv, Again PROVE IInv'
    OBVIOUS
<1> USE DEF IInv
<1>1. /\ UNCHANGED <<source, const>> /\ Position' = Position
      /\ acts' = kept /\ kept' = <<>> /\ i' = 1
      /\ where' = [v \in Vars |-> None] /\ nd' = FALSE /\ i > Len(acts)
    BY DEF Again, Position
<1>2. /\ DOMAIN kept = 1..Len(kept) /\ Len(kept) \in Nat
      /\ Len(acts) \in Nat /\ i \in Nat
      /\ \A k \in DOMAIN kept : kept[k] \in Position
    BY PositionType DEF TypeOK
<1>3. TypeOK'
  <2>1. where' \in [Vars -> Position \cup {None}]
      BY <1>1
  <2>2. kept' \in Seq(Position) /\ acts' \in Seq(Position)
      BY <1>1 DEF TypeOK
  <2>3. i' \in 1..(Len(acts') + 1)
      BY <1>1, <1>2
  <2> QED  BY <1>1, <2>1, <2>2, <2>3 DEF TypeOK
<1>4. Ordered'
    BY <1>1, <1>2 DEF Ordered
<1>5. WhereOK'
    BY <1>1 DEF WhereOK
<1>6. \A b : (Deletable(b)' <=> Deletable(b)) /\ Connector(b)' = Connector(b)
    BY <1>1 DEF Deletable, SelfSet, Overwritten, IsSet, Var, Connector
<1>7. Reasons'
    BY <1>1, <1>6 DEF Reasons
<1>8. \A b : InKept(b) \/ InActs(b) => InActs(b)'
    BY <1>1, <1>2 DEF InKept, InActs
<1>9. DeletedForAReason'
    BY <1>1, <1>6, <1>8 DEF DeletedForAReason, Live
<1> QED  BY <1>3, <1>4, <1>5, <1>7, <1>9

LEMMA StepOK == IInv /\ [Next]_vars => IInv'
<1> SUFFICES ASSUME IInv, [Next]_vars PROVE IInv'
    OBVIOUS
<1>1. CASE Keep \/ Drop \/ Truncate
  <2>1. Visit
      BY <1>1, StepIsVisit DEF IInv
  <2>2. kept' = kept \/ (i' = i + 1 /\ kept' = Append(kept, acts[i]))
      BY <1>1 DEF Keep, Drop, Truncate
  <2>3. /\ Ordered' /\ kept' \in Seq(Position) /\ i' \in 1..(Len(acts) + 1)
        /\ WhereOK' /\ where' \in [Vars -> Position \cup {None}]
        /\ Reasons' /\ const' \subseteq Position
      BY <2>1, <2>2, VisitOrdered, VisitWhere, VisitReasons DEF IInv
  <2>4. TypeOK'
      BY <2>1, <2>3 DEF IInv, TypeOK, Visit, Position
  <2>5. DeletedForAReason'
      BY <1>1, VisitReasoned
  <2> QED  BY <2>3, <2>4, <2>5 DEF IInv
<1>2. CASE Again
    BY <1>2, AgainOK
<1>3. CASE UNCHANGED vars
    BY <1>3 DEF vars, IInv, TypeOK, Ordered, WhereOK, Reasons, DeletedForAReason,
                Deletable, SelfSet, Overwritten, IsSet, Var, Connector, Live,
                InKept, InActs, Position
<1> QED  BY <1>1, <1>2, <1>3 DEF Next

\* Of every chain, the optimiser deletes only sets that assign a variable to
\* itself, sets that a later one overwrites, and what follows one of these
\* that a !> precedes: no other action is ever lost in its passes.
THEOREM ChainSafe == Spec => [](TypeOK /\ DeletedForAReason)
<1>1. IInv => TypeOK /\ DeletedForAReason
    BY DEF IInv
<1> QED  BY InitOK, StepOK, <1>1, PTL DEF Spec
-----------------------------------------------------------------------------
(* The execution of a chain.  A run is defined by recursion on the actions.  *)
(* The provers have no induction; instead, of the actions of which something *)
(* would not hold there is a first one (LeastNat).                           *)

\* A set of natural numbers has a least one.
LEMMA LeastNat ==
    ASSUME NEW N, N \subseteq Nat, N # {}
    PROVE  \E n \in N : \A m \in N : n <= m
<1>1. IsWellFoundedOn(OpToRel(<, Nat), Nat)
  BY NatLessThanWellFounded
<1>2. PICK n \in N : \A m \in N : ~(<<m, n>> \in OpToRel(<, Nat))
  BY <1>1, WFMin
<1>3. \A m \in N : ~(m < n)
  BY <1>2 DEF OpToRel
<1> QED
  BY <1>3

\* So what holds of 0, and of k + 1 if of k, holds up to n.
LEMMA UpTo ==
    ASSUME NEW n \in Nat, NEW H \in [0..n -> BOOLEAN], H[0],
           \A k \in 0..n : k # n /\ H[k] => H[k + 1]
    PROVE  \A k \in 0..n : H[k]
<1> DEFINE N == {k \in 0..n : ~H[k]}
<1> SUFFICES ASSUME N # {} PROVE FALSE
  OBVIOUS
<1>1. PICK k \in N : \A m \in N : k <= m
  <2>1. N \subseteq Nat
    OBVIOUS
  <2> HIDE DEF N
  <2> QED
    BY <2>1, LeastNat
<1>2. k - 1 \in 0..n /\ k - 1 # n /\ (k - 1) + 1 = k
  BY <1>1
<1>3. k - 1 \notin N
  BY <1>1, <1>2
<1> QED
  BY <1>1, <1>2, <1>3

\* The interpreter, or the generated code.
Begin(how) == IF how = "gen" THEN GenStart ELSE Started
Step(how, answer, s, a) == IF how = "gen" THEN GenStep(answer, s, a) ELSE InterpStep(answer, s, a)
Run(how, answer, seq, n, r) ==
    r = [k \in 0..n |-> IF k = 0 THEN Begin(how) ELSE Step(how, answer, r[k - 1], seq[k])]

LEMMA RunExists ==
    ASSUME NEW how, NEW answer, NEW seq, NEW n \in Nat
    PROVE  \E r : Run(how, answer, seq, n, r)
<1> DEFINE H == [k \in 0..n |-> \E r : Run(how, answer, seq, k, r)]
<1>1. H[0]
  <2> DEFINE t == [k \in 0..0 |-> Begin(how)]
  <2>1. \A k \in 0..0 : k = 0
    OBVIOUS
  <2>2. t = [k \in 0..0 |-> IF k = 0 THEN Begin(how) ELSE Step(how, answer, t[k - 1], seq[k])]
    BY <2>1
  <2> HIDE DEF t
  <2>3. Run(how, answer, seq, 0, t)
    BY <2>2 DEF Run
  <2> QED
    BY <2>3
<1>2. ASSUME NEW k \in 0..n, k # n, H[k] PROVE H[k + 1]
  <2>1. PICK r : Run(how, answer, seq, k, r)
    BY <1>2
  <2> DEFINE last == Step(how, answer, r[k], seq[k + 1])
             t == [l \in 0..(k + 1) |-> IF l = k + 1 THEN last ELSE r[l]]
  <2>2. ASSUME NEW l \in 0..(k + 1)
        PROVE  t[l] = IF l = 0 THEN Begin(how) ELSE Step(how, answer, t[l - 1], seq[l])
    <3>1. CASE l = k + 1
      <4>1. t[l] = last /\ t[l - 1] = r[k] /\ l # 0 /\ seq[l] = seq[k + 1]
        BY <3>1
      <4> HIDE DEF t
      <4> QED
        BY <4>1
    <3>2. CASE l = 0
      BY <2>1, <3>2 DEF Run
    <3>3. CASE l \in 1..k
      <4>1. t[l] = r[l] /\ t[l - 1] = r[l - 1]
        BY <3>3
      <4>2. r[l] = Step(how, answer, r[l - 1], seq[l])
        BY <2>1, <3>3 DEF Run
      <4> HIDE DEF t
      <4> QED
        BY <3>3, <4>1, <4>2
    <3> QED
      BY <3>1, <3>2, <3>3
  <2>3. t = [l \in 0..(k + 1) |-> t[l]]
    OBVIOUS
  <2> HIDE DEF t
  <2>4. Run(how, answer, seq, k + 1, t)
    BY <2>2, <2>3 DEF Run
  <2> QED
    BY <1>2, <2>4
<1>3. H \in [0..n -> BOOLEAN]
  OBVIOUS
<1> HIDE DEF H
<1>4. H[n]
  BY <1>1, <1>2, <1>3, UpTo
<1> QED
  BY <1>4 DEF H

\* What a run holds at its start and after each action.
LEMMA RunSteps ==
    ASSUME NEW how, NEW answer, NEW seq, NEW n \in Nat, NEW r, Run(how, answer, seq, n, r)
    PROVE  /\ r[0] = Begin(how)
           /\ \A k \in 0..n : k # n => r[k + 1] = Step(how, answer, r[k], seq[k + 1])
<1>1. r[0] = Begin(how)
  BY DEF Run
<1>2. ASSUME NEW k \in 0..n, k # n
      PROVE  r[k + 1] = Step(how, answer, r[k], seq[k + 1])
  <2>1. k + 1 \in 0..n /\ k + 1 # 0 /\ (k + 1) - 1 = k
    BY <1>2
  <2>2. r[k + 1] = Step(how, answer, r[(k + 1) - 1], seq[k + 1])
    BY <2>1 DEF Run
  <2> QED
    BY <2>1, <2>2
<1> QED
  BY <1>1, <1>2
\* A run is the sequence of its states.
LEMMA InterpIs ==
    ASSUME NEW answer, NEW seq, Len(seq) \in Nat
    PROVE  \E r : /\ Interp(answer, seq) = r[Len(seq)]
                 /\ r[0] = Started
                 /\ \A k \in 0..Len(seq) :
                        k # Len(seq) => r[k + 1] = InterpStep(answer, r[k], seq[k + 1])
<1> DEFINE run[k \in 0..Len(seq)] ==
               IF k = 0 THEN Started ELSE InterpStep(answer, run[k - 1], seq[k])
<1>1. \E r : r = [k \in 0..Len(seq) |->
                      IF k = 0 THEN Started ELSE InterpStep(answer, r[k - 1], seq[k])]
  <2>1. PICK r : Run("interp", answer, seq, Len(seq), r)
    BY RunExists
  <2>2. r = [k \in 0..Len(seq) |->
                 IF k = 0 THEN Started ELSE InterpStep(answer, r[k - 1], seq[k])]
    BY <2>1, Zenon DEF Run, Begin, Step
  <2> QED
    BY <2>2
<1>2. run = [k \in 0..Len(seq) |->
                 IF k = 0 THEN Started ELSE InterpStep(answer, run[k - 1], seq[k])]
  BY <1>1
<1>3. Interp(answer, seq) = run[Len(seq)]
  BY DEF Interp
<1> HIDE DEF run
<1>4. Run("interp", answer, seq, Len(seq), run)
  BY <1>2, Zenon DEF Run, Begin, Step
<1>5. /\ run[0] = Begin("interp")
      /\ \A k \in 0..Len(seq) :
             k # Len(seq) => run[k + 1] = Step("interp", answer, run[k], seq[k + 1])
  BY <1>4, RunSteps
<1> QED
  BY <1>3, <1>5 DEF Begin, Step

LEMMA GeneratedIs ==
    ASSUME NEW answer, NEW seq, Len(seq) \in Nat
    PROVE  \E r : /\ Generated(answer, seq) = r[Len(seq)]
                 /\ r[0] = GenStart
                 /\ \A k \in 0..Len(seq) :
                        k # Len(seq) => r[k + 1] = GenStep(answer, r[k], seq[k + 1])
<1> DEFINE run[k \in 0..Len(seq)] ==
               IF k = 0 THEN GenStart ELSE GenStep(answer, run[k - 1], seq[k])
<1>1. \E r : r = [k \in 0..Len(seq) |->
                      IF k = 0 THEN GenStart ELSE GenStep(answer, r[k - 1], seq[k])]
  <2>1. PICK r : Run("gen", answer, seq, Len(seq), r)
    BY RunExists
  <2>2. r = [k \in 0..Len(seq) |->
                 IF k = 0 THEN GenStart ELSE GenStep(answer, r[k - 1], seq[k])]
    BY <2>1, Zenon DEF Run, Begin, Step
  <2> QED
    BY <2>2
<1>2. run = [k \in 0..Len(seq) |->
                 IF k = 0 THEN GenStart ELSE GenStep(answer, run[k - 1], seq[k])]
  BY <1>1
<1>3. Generated(answer, seq) = run[Len(seq)]
  BY DEF Generated
<1> HIDE DEF run
<1>4. Run("gen", answer, seq, Len(seq), run)
  BY <1>2, Zenon DEF Run, Begin, Step
<1>5. /\ run[0] = Begin("gen")
      /\ \A k \in 0..Len(seq) :
             k # Len(seq) => run[k + 1] = Step("gen", answer, run[k], seq[k + 1])
  BY <1>4, RunSteps
<1> QED
  BY <1>3, <1>5 DEF Begin, Step
-----------------------------------------------------------------------------
(* What an action does.                                                     *)

AnyVal == Arg \cup {InitVal}
Env == [Vars -> AnyVal]
Out == Seq(Calls \X AnyVal)

EnvAfter(env, a) ==
    IF IsSet(a) THEN [env EXCEPT ![Var(a)] = Value(env, source[a].what.arg)] ELSE env
OutAfter(out, env, a) ==
    IF IsSet(a) THEN out ELSE Append(out, <<source[a].what.id, Value(env, source[a].what.arg)>>)

State == [env : Env, out : Out, ran : SUBSET Nat, issuccess : BOOLEAN, stopped : BOOLEAN]
GenState == [env : Env, out : Out, ran : SUBSET Nat, issuccess : BOOLEAN, stopped : BOOLEAN,
             isfst : BOOLEAN, iscomma : BOOLEAN, tokthen : BOOLEAN]

LEMMA ActionIs ==
    ASSUME TypeOK, NEW a \in Position
    PROVE  /\ a \in Nat \ {0} /\ Connector(a) \in Con /\ source[a].what.arg \in Arg
           /\ IsSet(a) => Var(a) \in Vars
           /\ ~IsSet(a) => source[a].what.id \in Calls
<1>1. source[a] \in Action /\ a \in Nat \ {0}
  BY PositionType
<1> QED
  BY <1>1 DEF Action, What, IsSet, Var, Connector

LEMMA AfterType ==
    ASSUME TypeOK, NEW a \in Position, NEW env \in Env, NEW out \in Out
    PROVE  EnvAfter(env, a) \in Env /\ OutAfter(out, env, a) \in Out
<1>1. Value(env, source[a].what.arg) \in AnyVal
  BY ActionIs DEF Value, Env, AnyVal
<1>2. EnvAfter(env, a) \in Env
  BY <1>1, ActionIs DEF EnvAfter, Env
<1>3. OutAfter(out, env, a) \in Out
  BY <1>1, ActionIs DEF OutAfter, Out
<1> QED
  BY <1>2, <1>3

\* The interpreter goes on as the connector says, or stops.
LEMMA InterpStepIs ==
    ASSUME TypeOK, NEW answer \in Answers, NEW a \in Position, NEW s \in State
    PROVE  LET t == InterpStep(answer, s, a)
               goes == ~s.stopped /\ DoNext(s.issuccess, Connector(a))
           IN  /\ t \in State /\ t.stopped = ~goes
               /\ goes => /\ t.env = EnvAfter(s.env, a) /\ t.out = OutAfter(s.out, s.env, a)
                          /\ t.ran = s.ran \cup {a} /\ t.issuccess = Answer(answer, a)
               /\ ~goes => t.env = s.env /\ t.out = s.out /\ t.ran = s.ran
<1> DEFINE t == InterpStep(answer, s, a)
           goes == ~s.stopped /\ DoNext(s.issuccess, Connector(a))
<1>1. /\ s.env \in Env /\ s.out \in Out /\ s.ran \in SUBSET Nat
      /\ s.issuccess \in BOOLEAN /\ s.stopped \in BOOLEAN
  BY DEF State
<1>2. CASE ~goes
  <2>1. t = [s EXCEPT !.stopped = TRUE]
    BY <1>2 DEF InterpStep
  <2> QED
    BY <1>2, <2>1 DEF State
<1>3. CASE goes /\ IsSet(a)
  <2>1. t = [s EXCEPT !.ran = s.ran \cup {a}, !.env = EnvAfter(s.env, a), !.issuccess = TRUE]
    BY <1>3 DEF InterpStep, Do, EnvAfter, IsSet, Var, State
  <2>2. EnvAfter(s.env, a) \in Env /\ s.ran \cup {a} \in SUBSET Nat
    BY <1>1, AfterType, ActionIs
  <2> QED
    BY <1>1, <1>3, <2>1, <2>2 DEF State, Answer, OutAfter
<1>4. CASE goes /\ ~IsSet(a)
  <2>1. t = [s EXCEPT !.ran = s.ran \cup {a}, !.out = OutAfter(s.out, s.env, a),
                      !.issuccess = answer[source[a].what.id]]
    BY <1>4 DEF InterpStep, Do, OutAfter, IsSet, State
  <2>2. /\ OutAfter(s.out, s.env, a) \in Out /\ s.ran \cup {a} \in SUBSET Nat
        /\ answer[source[a].what.id] \in BOOLEAN
    BY <1>1, <1>4, AfterType, ActionIs DEF Answers
  <2> QED
    BY <1>1, <1>4, <2>1, <2>2 DEF State, Answer, EnvAfter
<1> QED
  BY <1>2, <1>3, <1>4

LEMMA StartIs == Started \in State /\ GenStart \in GenState
<1>1. Started.env \in Env /\ <<>> \in Out
  BY DEF Started, Env, AnyVal, Out
<1> QED
  BY <1>1 DEF Started, GenStart, State, GenState

LEMMA ParsedIs ==
    ASSUME TypeOK
    PROVE  /\ Len(Parsed) = Len(source) /\ Len(source) \in Nat /\ Len(source) # 0
           /\ Position = 1..Len(source) /\ \A k \in Position : Parsed[k] = k
           /\ Connector(1) = "comma" /\ 1 \in Position
<1>1. source \in Seq(Action) /\ source # <<>> /\ source[1].con = "comma"
  BY ChainAssumption DEF TypeOK
<1>2. Position = 1..Len(source) /\ Len(source) \in Nat /\ Len(source) # 0
  BY <1>1 DEF Position
<1> QED
  BY <1>1, <1>2 DEF Parsed, Position, Connector
-----------------------------------------------------------------------------
(* Connectors.                                                              *)

LEMMA Connectors == TypeOK => FollowsConnectors
<1> SUFFICES ASSUME TypeOK, NEW answer \in Answers
             PROVE  LET ran == Interp(answer, Parsed).ran
                    IN  \A a \in Position :
                            a \in ran <=> \/ a = 1
                                          \/ /\ a - 1 \in ran
                                             /\ DoNext(Answer(answer, a - 1), Connector(a))
  BY DEF FollowsConnectors
<1> DEFINE n == Len(source)
           Follows(ran, k) ==
               \A a \in 1..k :
                   a \in ran <=> \/ a = 1
                                 \/ /\ a - 1 \in ran
                                    /\ DoNext(Answer(answer, a - 1), Connector(a))
<1>1. /\ n \in Nat /\ n # 0 /\ Len(Parsed) = n /\ Position = 1..n
      /\ \A k \in Position : Parsed[k] = k
      /\ Connector(1) = "comma"
  BY ParsedIs
<1>2. PICK r : /\ Interp(answer, Parsed) = r[n] /\ r[0] = Started
               /\ \A k \in 0..n : k # n => r[k + 1] = InterpStep(answer, r[k], Parsed[k + 1])
  <2>1. Len(Parsed) \in Nat /\ Len(Parsed) = n
    BY <1>1
  <2> HIDE DEF n
  <2> QED
    BY <2>1, InterpIs
<1>3. r[0] = Started /\ \A k \in 0..n : k # n => r[k + 1] = InterpStep(answer, r[k], k + 1)
  <2>1. \A k \in 0..n : k # n => k + 1 \in Position /\ Parsed[k + 1] = k + 1
    BY <1>1
  <2> QED
    BY <1>2, <2>1
\* After the first k actions.
<1> DEFINE Held(k) ==
               LET s == r[k]
               IN  /\ s \in State /\ s.ran \subseteq 1..k /\ Follows(s.ran, k)
                   /\ k = 0 => s.issuccess /\ ~s.stopped
                   /\ k # 0 => (s.stopped <=> k \notin s.ran)
                   /\ k # 0 /\ k \in s.ran => s.issuccess = Answer(answer, k)
<1>4. Held(0)
  BY <1>3, StartIs DEF Started
<1>5. ASSUME NEW k \in 0..n, k # n, Held(k) PROVE Held(k + 1)
  <2> DEFINE s == r[k]
             t == r[k + 1]
             goes == ~s.stopped /\ DoNext(s.issuccess, Connector(k + 1))
  <2>1. k + 1 \in Position /\ k + 1 # 0
    BY <1>1, <1>5
  <2>2. /\ t \in State /\ t.stopped = ~goes
        /\ goes => t.ran = s.ran \cup {k + 1} /\ t.issuccess = Answer(answer, k + 1)
        /\ ~goes => t.ran = s.ran
    BY <1>3, <1>5, <2>1, InterpStepIs
  <2>3. goes <=> k + 1 = 1 \/ (k \in s.ran /\ DoNext(Answer(answer, k), Connector(k + 1)))
    BY <1>1, <1>5 DEF DoNext
  <2> HIDE DEF goes, s, t
  <2>4. t.ran \subseteq 1..(k + 1) /\ (k + 1 \in t.ran <=> goes)
        /\ \A a \in 1..k : a \in t.ran <=> a \in s.ran
    BY <1>5, <2>2 DEF s
  <2>5. Follows(t.ran, k + 1)
    <3>1. ASSUME NEW a \in 1..(k + 1)
          PROVE  a \in t.ran <=> \/ a = 1
                                 \/ /\ a - 1 \in t.ran
                                    /\ DoNext(Answer(answer, a - 1), Connector(a))
      <4>1. CASE a \in 1..k
        <5>1. a = 1 \/ a - 1 \in 1..k
          BY <4>1
        <5>2. a \in s.ran <=> \/ a = 1
                              \/ /\ a - 1 \in s.ran
                                 /\ DoNext(Answer(answer, a - 1), Connector(a))
          BY <1>5, <4>1 DEF s
        <5> QED
          BY <2>4, <4>1, <5>1, <5>2
      <4>2. CASE a = k + 1
        <5>1. a - 1 = k /\ (k = 0 \/ k \in 1..k)
          BY <4>2
        <5> QED
          BY <2>3, <2>4, <4>2, <5>1
      <4> QED
        BY <4>1, <4>2
    <3> QED
      BY <3>1
  <2> QED
    BY <2>1, <2>2, <2>4, <2>5 DEF t
<1>6. \A k \in 0..n : Held(k)
  <2> DEFINE H == [k \in 0..n |-> Held(k)]
  <2>1. \A k \in 0..n : Held(k) \in BOOLEAN
    OBVIOUS
  <2> HIDE DEF Held
  <2>2. H \in [0..n -> BOOLEAN] /\ \A k \in 0..n : H[k] = Held(k)
    BY <2>1
  <2>3. H[0] /\ \A k \in 0..n : k # n /\ H[k] => H[k + 1]
    BY <1>1, <1>4, <1>5
  <2> HIDE DEF H
  <2> QED
    BY <1>1, <2>2, <2>3, UpTo
<1>7. Follows(r[n].ran, n)
  BY <1>1, <1>6
<1> QED
  BY <1>1, <1>2, <1>7
-----------------------------------------------------------------------------
(* Deletions.  A variable is stale after the first k actions if one of them  *)
(* set it and a later one will: where sets that are overwritten are dead,    *)
(* nobody reads it in between.                                               *)

Stale(v, k) ==
    \E a, c \in Position :
        /\ a <= k /\ k < c /\ IsSet(a) /\ IsSet(c)
        /\ Var(a) = v /\ Var(c) = v

\* The runs of two chains differ at most in what is stale.
Alike(x, y, k) ==
    /\ x \in State /\ y \in State /\ ~x.stopped /\ ~y.stopped
    /\ x.out = y.out
    /\ \A v \in Vars : x.env[v] = y.env[v] \/ Stale(v, k)

LEMMA CommaStep ==
    ASSUME TypeOK, AllCommas, NEW answer \in Answers, NEW a \in Position,
           NEW s \in State, ~s.stopped
    PROVE  LET t == InterpStep(answer, s, a)
           IN  /\ t \in State /\ ~t.stopped
               /\ t.env = EnvAfter(s.env, a) /\ t.out = OutAfter(s.out, s.env, a)
<1>1. DoNext(s.issuccess, Connector(a))
  BY DEF AllCommas, DoNext
<1> QED
  BY <1>1, InterpStepIs

\* What an action reads is not stale.
LEMMA StaleUnread ==
    ASSUME TypeOK, DeadSetsAreDead, NEW k \in Nat, k + 1 \in Position, NEW v \in Vars,
           Stale(v, k)
    PROVE  v \notin Reads(k + 1)
<1>1. PICK a, c \in Position : /\ a <= k /\ k < c /\ IsSet(a) /\ IsSet(c)
                               /\ Var(a) = v /\ Var(c) = v
  BY DEF Stale
<1>2. a \in Nat /\ c \in Nat /\ a < c /\ k + 1 \in (a + 1)..c
  BY <1>1, ActionIs
<1> QED
  BY <1>1, <1>2 DEF DeadSetsAreDead

\* It goes on being so until the set that comes.
LEMMA StaleLasts ==
    ASSUME TypeOK, NEW k \in Nat, NEW v \in Vars, Stale(v, k),
           k + 1 \in Position, ~(IsSet(k + 1) /\ Var(k + 1) = v)
    PROVE  Stale(v, k + 1)
<1>1. PICK a, c \in Position : /\ a <= k /\ k < c /\ IsSet(a) /\ IsSet(c)
                               /\ Var(a) = v /\ Var(c) = v
  BY DEF Stale
<1>2. a \in Nat /\ c \in Nat /\ c # k + 1
  BY <1>1, ActionIs
<1>3. a <= k + 1 /\ k + 1 < c
  BY <1>1, <1>2
<1> QED
  BY <1>1, <1>3 DEF Stale

LEMMA SameArg ==
    ASSUME TypeOK, DeadSetsAreDead, NEW k \in Nat, k + 1 \in Position,
           NEW x, NEW y, Alike(x, y, k)
    PROVE  Value(x.env, source[k + 1].what.arg) = Value(y.env, source[k + 1].what.arg)
<1> DEFINE arg == source[k + 1].what.arg
<1>1. CASE arg \in Vars
  <2>1. arg \in Reads(k + 1)
    BY <1>1 DEF Reads
  <2>2. ~Stale(arg, k)
    BY <1>1, <2>1, StaleUnread
  <2> QED
    BY <1>1, <2>2 DEF Alike, Value
<1>2. CASE arg \notin Vars
  BY <1>2 DEF Value
<1> QED
  BY <1>1, <1>2

\* Both do the action.
LEMMA BothDo ==
    ASSUME TypeOK, AllCommas, DeadSetsAreDead, NEW answer \in Answers,
           NEW k \in Nat, k + 1 \in Position, NEW x, NEW y, Alike(x, y, k)
    PROVE  Alike(InterpStep(answer, x, k + 1), InterpStep(answer, y, k + 1), k + 1)
<1> DEFINE b == k + 1
           x1 == InterpStep(answer, x, b)
           y1 == InterpStep(answer, y, b)
           val == Value(y.env, source[b].what.arg)
<1>1. x \in State /\ y \in State /\ ~x.stopped /\ ~y.stopped /\ x.out = y.out
      /\ \A v \in Vars : x.env[v] = y.env[v] \/ Stale(v, k)
  BY DEF Alike
<1>2. /\ x1 \in State /\ ~x1.stopped /\ y1 \in State /\ ~y1.stopped
      /\ x1.env = EnvAfter(x.env, b) /\ x1.out = OutAfter(x.out, x.env, b)
      /\ y1.env = EnvAfter(y.env, b) /\ y1.out = OutAfter(y.out, y.env, b)
  BY <1>1, CommaStep
<1>3. Value(x.env, source[b].what.arg) = val
  BY SameArg
<1>4. x1.out = y1.out
  BY <1>1, <1>2, <1>3 DEF OutAfter
<1>5. ASSUME NEW v \in Vars PROVE x1.env[v] = y1.env[v] \/ Stale(v, b)
  <2>1. x.env \in Env /\ y.env \in Env
    BY <1>1 DEF State
  <2>2. CASE IsSet(b) /\ Var(b) = v
    BY <1>2, <1>3, <2>1, <2>2 DEF EnvAfter, Env
  <2>3. CASE ~(IsSet(b) /\ Var(b) = v)
    <3>1. x1.env[v] = x.env[v] /\ y1.env[v] = y.env[v]
      BY <1>2, <2>1, <2>3 DEF EnvAfter, Env
    <3> QED
      BY <1>1, <2>3, <3>1, StaleLasts
  <2> QED
    BY <2>2, <2>3
<1> QED
  BY <1>2, <1>4, <1>5 DEF Alike

\* Only the chain as it was parsed does: the action was deleted.
LEMMA OneDoes ==
    ASSUME TypeOK, AllCommas, DeadSetsAreDead, NEW answer \in Answers,
           NEW k \in Nat, k + 1 \in Position, Deletable(k + 1),
           NEW x, NEW y, Alike(x, y, k)
    PROVE  Alike(x, InterpStep(answer, y, k + 1), k + 1)
<1> DEFINE b == k + 1
           y1 == InterpStep(answer, y, b)
<1>1. x \in State /\ y \in State /\ ~x.stopped /\ ~y.stopped /\ x.out = y.out
      /\ \A v \in Vars : x.env[v] = y.env[v] \/ Stale(v, k)
  BY DEF Alike
<1>2. /\ y1 \in State /\ ~y1.stopped
      /\ y1.env = EnvAfter(y.env, b) /\ y1.out = OutAfter(y.out, y.env, b)
  BY <1>1, CommaStep
<1>3. IsSet(b) /\ Var(b) \in Vars
  BY ActionIs DEF Deletable, SelfSet, Overwritten
<1>4. x.out = y1.out
  BY <1>1, <1>2, <1>3 DEF OutAfter
<1>5. y.env \in Env
  BY <1>1 DEF State
<1>6. ASSUME NEW v \in Vars PROVE x.env[v] = y1.env[v] \/ Stale(v, b)
  <2>1. CASE Var(b) # v
    <3>1. y1.env[v] = y.env[v]
      BY <1>2, <1>5, <2>1 DEF EnvAfter, Env
    <3> QED
      BY <1>1, <2>1, <3>1, StaleLasts
  <2>2. CASE Var(b) = v /\ SelfSet(b)
    <3>1. source[b].what.arg = v /\ v \in Reads(b)
      BY <2>2 DEF SelfSet, Reads
    <3>2. y1.env[v] = y.env[v]
      BY <1>2, <1>3, <1>5, <2>2, <3>1 DEF EnvAfter, Env, Value
    <3> QED
      BY <1>1, <3>1, <3>2, StaleUnread
  <2>3. CASE Var(b) = v /\ Overwritten(b)
    <3>1. PICK c \in Position : c > b /\ IsSet(c) /\ Var(c) = v
      BY <2>3 DEF Overwritten
    <3>2. b <= b /\ b < c
      BY <3>1, ActionIs
    <3> QED
      BY <1>3, <2>3, <3>1, <3>2 DEF Stale
  <2> QED
    BY <2>1, <2>2, <2>3 DEF Deletable
<1> QED
  BY <1>1, <1>2, <1>4, <1>6 DEF Alike

\* What is left of the chain is in order, and what is not could be deleted.
LEMMA KeptIs ==
    ASSUME IInv, Done, AllCommas
    PROVE  /\ Len(kept) \in Nat
           /\ \A l \in 1..Len(kept) : kept[l] \in Position
           /\ \A l, m \in 1..Len(kept) : l < m => kept[l] < kept[m]
           /\ \A a \in Position : (\A l \in 1..Len(kept) : kept[l] # a) => Deletable(a)
<1>1. TypeOK /\ Ordered /\ DeletedForAReason
  BY DEF IInv
<1>2. DOMAIN kept = 1..Len(kept) /\ Len(kept) \in Nat /\ Len(acts) \in Nat /\ i \in Nat
  BY <1>1, PositionType DEF TypeOK
<1>3. ASSUME NEW a \in Position, \A l \in 1..Len(kept) : kept[l] # a
      PROVE  Deletable(a)
  <2>1. ~InKept(a)
    BY <1>2, <1>3 DEF InKept
  <2>2. ~InActs(a)
    BY <1>2 DEF InActs, Done
  <2>3. a \notin Live
    BY <2>1, <2>2 DEF Live
  <2>4. \A b \in const : b \in Position /\ Connector(b) # "nthen"
    BY <1>1 DEF TypeOK, AllCommas
  <2> QED
    BY <1>1, <2>3, <2>4 DEF DeletedForAReason
<1>4. \A l \in 1..Len(kept) : kept[l] \in Position
  BY <1>1, <1>2 DEF TypeOK
<1> QED
  BY <1>1, <1>2, <1>3, <1>4 DEF Ordered

LEMMA DeletionsKeep ==
    ASSUME IInv, Done, AllCommas, DeadSetsAreDead, NEW answer \in Answers
    PROVE  Outcome(Interp(answer, kept)) = Outcome(Interp(answer, Parsed))
<1> DEFINE n == Len(source)
           m == Len(kept)
<1>1. /\ n \in Nat /\ Len(Parsed) = n /\ Position = 1..n
      /\ \A k \in Position : Parsed[k] = k
  BY ParsedIs DEF IInv
<1>2. /\ m \in Nat /\ \A l \in 1..m : kept[l] \in Position
      /\ \A l, h \in 1..m : l < h => kept[l] < kept[h]
      /\ \A a \in Position : (\A l \in 1..m : kept[l] # a) => Deletable(a)
  BY KeptIs
<1>3. PICK y : /\ Interp(answer, Parsed) = y[n] /\ y[0] = Started
               /\ \A k \in 0..n : k # n => y[k + 1] = InterpStep(answer, y[k], Parsed[k + 1])
  <2>1. Len(Parsed) \in Nat /\ Len(Parsed) = n
    BY <1>1
  <2> HIDE DEF n
  <2> QED
    BY <2>1, InterpIs
<1>4. PICK x : /\ Interp(answer, kept) = x[m] /\ x[0] = Started
               /\ \A j \in 0..m : j # m => x[j + 1] = InterpStep(answer, x[j], kept[j + 1])
  <2>1. Len(kept) \in Nat
    BY <1>2
  <2> QED
    BY <2>1, InterpIs
<1> HIDE DEF n, m
<1>5. y[0] = Started /\ \A k \in 0..n : k # n => y[k + 1] = InterpStep(answer, y[k], k + 1)
  <2>1. \A k \in 0..n : k # n => k + 1 \in Position /\ Parsed[k + 1] = k + 1
    BY <1>1
  <2> QED
    BY <1>3, <2>1
<1>6. x[0] = Started /\ \A j \in 0..m : j # m => x[j + 1] = InterpStep(answer, x[j], kept[j + 1])
  BY <1>4
\* After k actions of the source, j of which were kept.
<1> DEFINE At(j, k) == /\ \A l \in 1..j : kept[l] <= k
                       /\ \A l \in (j + 1)..m : k < kept[l]
                       /\ Alike(x[j], y[k], k)
           Held(k) == \E j \in 0..m : At(j, k)
<1>7. Held(0)
  <2>1. At(0, 0)
    <3>1. \A l \in 1..m : 0 < kept[l]
      BY <1>1, <1>2
    <3>2. Alike(x[0], y[0], 0)
      BY <1>5, <1>6, StartIs DEF Started, Alike
    <3> QED
      BY <3>1, <3>2
  <2> QED
    BY <1>2, <2>1
<1>8. ASSUME NEW k \in 0..n, k # n, Held(k) PROVE Held(k + 1)
  <2>1. PICK j \in 0..m : At(j, k)
    BY <1>8
  <2>2. k \in Nat /\ k + 1 \in Position /\ y[k + 1] = InterpStep(answer, y[k], k + 1)
    BY <1>1, <1>5, <1>8
  <2>3. TypeOK
    BY DEF IInv
  <2>4. CASE j # m /\ kept[j + 1] = k + 1
    <3>1. j + 1 \in 0..m /\ x[j + 1] = InterpStep(answer, x[j], k + 1)
      BY <1>2, <1>6, <2>4
    <3>2. Alike(x[j + 1], y[k + 1], k + 1)
      BY <2>1, <2>2, <2>3, <3>1, BothDo
    <3>3. \A l \in 1..(j + 1) : kept[l] <= k + 1
      <4>1. ASSUME NEW l \in 1..(j + 1) PROVE kept[l] <= k + 1
        <5>1. l = j + 1 \/ l \in 1..j
          BY <1>2
        <5>2. l \in 1..m /\ kept[l] \in Nat
          BY <1>1, <1>2, <3>1
        <5> QED
          BY <2>1, <2>2, <2>4, <5>1, <5>2
      <4> QED
        BY <4>1
    <3>4. \A l \in ((j + 1) + 1)..m : k + 1 < kept[l]
      BY <1>2, <2>4, <3>1
    <3> QED
      BY <3>1, <3>2, <3>3, <3>4
  <2>5. CASE ~(j # m /\ kept[j + 1] = k + 1)
    <3>1. \A l \in 1..m : kept[l] # k + 1
      <4>1. ASSUME NEW l \in 1..m, kept[l] = k + 1 PROVE FALSE
        <5>1. l \in (j + 1)..m /\ j # m /\ j + 1 \in 1..m
          BY <1>2, <2>1, <2>2, <4>1
        <5>2. k < kept[j + 1] /\ kept[j + 1] \in Nat /\ kept[j + 1] # k + 1
          BY <1>1, <1>2, <2>1, <2>5, <5>1
        <5>3. l = j + 1 \/ kept[j + 1] < kept[l]
          BY <1>2, <5>1
        <5> QED
          BY <2>2, <4>1, <5>2, <5>3
      <4> QED
        BY <4>1
    <3>2. Deletable(k + 1)
      BY <1>2, <2>2, <3>1
    <3>3. Alike(x[j], y[k + 1], k + 1)
      BY <2>1, <2>2, <2>3, <3>2, OneDoes
    <3>4. \A l \in 1..m : kept[l] \in Nat
      BY <1>1, <1>2
    <3>5. At(j, k + 1)
      BY <1>2, <2>1, <2>2, <3>1, <3>3, <3>4
    <3> QED
      BY <3>5
  <2> QED
    BY <2>4, <2>5
<1>9. Held(n)
  <2> DEFINE H == [k \in 0..n |-> Held(k)]
  <2>1. \A k \in 0..n : Held(k) \in BOOLEAN
    OBVIOUS
  <2> HIDE DEF Held
  <2>2. H \in [0..n -> BOOLEAN] /\ \A k \in 0..n : H[k] = Held(k)
    BY <2>1
  <2>3. H[0] /\ \A k \in 0..n : k # n /\ H[k] => H[k + 1]
    BY <1>1, <1>7, <1>8
  <2> HIDE DEF H
  <2> QED
    BY <1>1, <2>2, <2>3, UpTo
<1>10. PICK j \in 0..m : At(j, n)
  BY <1>9
<1>11. j = m
  <2>1. m \in (j + 1)..m => n < kept[m] /\ kept[m] \in 1..n
    BY <1>1, <1>2, <1>10
  <2> QED
    BY <1>1, <1>2, <2>1
<1>12. x[m] \in State /\ y[n] \in State /\ x[m].out = y[n].out
       /\ \A v \in Vars : x[m].env[v] = y[n].env[v]
  <2>1. \A v : ~Stale(v, n)
    BY <1>1 DEF Stale
  <2> QED
    BY <1>10, <1>11, <2>1 DEF Alike
<1>13. x[m].env = y[n].env
  BY <1>12 DEF State, Env
<1> QED
  BY <1>3, <1>4, <1>12, <1>13 DEF Outcome
-----------------------------------------------------------------------------
(* The generated code.                                                      *)

\* With iscomma, which is true from the start, it never stops.
LEMMA GenStepIs ==
    ASSUME TypeOK, NEW answer \in Answers, NEW a \in Position, NEW s \in GenState,
           ~s.stopped, s.iscomma
    PROVE  LET t == GenStep(answer, s, a)
           IN  /\ t \in GenState /\ ~t.stopped /\ t.iscomma
               /\ t.env = EnvAfter(s.env, a) /\ t.out = OutAfter(s.out, s.env, a)
<1> DEFINE u == [s EXCEPT !.ran = @ \cup {a}]
           w == GenFlags(u, Connector(a))
           t == Do(answer, w, source[a].what)
<1>1. u \in GenState /\ u.env = s.env /\ u.out = s.out /\ ~u.stopped /\ u.iscomma
  BY ActionIs DEF GenState
<1> HIDE DEF u
<1>2. w \in GenState /\ w.env = s.env /\ w.out = s.out /\ ~w.stopped /\ w.iscomma
  <2>1. CASE u.isfst
    <3>1. w = [u EXCEPT !.isfst = FALSE]
      BY <2>1 DEF GenFlags
    <3> QED
      BY <1>1, <3>1 DEF GenState
  <2>2. CASE ~u.isfst
    <3>1. w = [u EXCEPT !.tokthen = @ \/ Connector(a) = "then",
                        !.iscomma = @ \/ Connector(a) = "comma"]
      BY <2>2 DEF GenFlags
    <3>2. /\ (u.tokthen \/ Connector(a) = "then") \in BOOLEAN
          /\ (u.iscomma \/ Connector(a) = "comma") = TRUE
      BY <1>1
    <3>3. w = [u EXCEPT !.tokthen = (u.tokthen \/ Connector(a) = "then"), !.iscomma = TRUE]
      BY <1>1, <3>1, <3>2 DEF GenState
    <3> QED
      BY <1>1, <3>2, <3>3 DEF GenState
  <2> QED
    BY <2>1, <2>2
<1> HIDE DEF w
<1>3. /\ t \in GenState /\ t.iscomma
      /\ t.env = EnvAfter(s.env, a) /\ t.out = OutAfter(s.out, s.env, a)
  <2>1. s.env \in Env /\ s.out \in Out
    BY DEF GenState
  <2>2. EnvAfter(s.env, a) \in Env /\ OutAfter(s.out, s.env, a) \in Out
    BY <2>1, AfterType
  <2>3. CASE IsSet(a)
    <3>1. t = [w EXCEPT !.env = EnvAfter(s.env, a), !.issuccess = TRUE]
      BY <1>2, <2>3 DEF Do, EnvAfter, IsSet, Var, GenState
    <3> QED
      BY <1>2, <2>2, <2>3, <3>1 DEF GenState, OutAfter
  <2>4. CASE ~IsSet(a)
    <3>1. t = [w EXCEPT !.out = OutAfter(s.out, s.env, a),
                        !.issuccess = answer[source[a].what.id]]
      BY <1>2, <2>4 DEF Do, OutAfter, IsSet, GenState
    <3>2. answer[source[a].what.id] \in BOOLEAN
      BY <2>4, ActionIs DEF Answers
    <3> QED
      BY <1>2, <2>2, <2>4, <3>1, <3>2 DEF GenState, EnvAfter
  <2> QED
    BY <2>3, <2>4
<1>4. GenStep(answer, s, a) = [t EXCEPT !.stopped = ~GenCond(t)]
  BY DEF GenStep, t, w, u
<1> HIDE DEF t
<1>5. GenCond(t) = TRUE
  BY <1>3 DEF GenCond
<1>6. GenStep(answer, s, a) = [t EXCEPT !.stopped = FALSE]
  BY <1>4, <1>5
<1> QED
  BY <1>3, <1>6 DEF GenState

LEMMA GeneratedKeeps ==
    ASSUME TypeOK, AllCommas, NEW answer \in Answers, NEW seq \in Seq(Position)
    PROVE  Outcome(Generated(answer, seq)) = Outcome(Interp(answer, seq))
<1> DEFINE n == Len(seq)
<1>1. n \in Nat /\ \A k \in 0..n : k # n => seq[k + 1] \in Position
  OBVIOUS
<1>2. PICK x : /\ Interp(answer, seq) = x[n] /\ x[0] = Started
               /\ \A k \in 0..n : k # n => x[k + 1] = InterpStep(answer, x[k], seq[k + 1])
  BY <1>1, InterpIs
<1>3. PICK z : /\ Generated(answer, seq) = z[n] /\ z[0] = GenStart
               /\ \A k \in 0..n : k # n => z[k + 1] = GenStep(answer, z[k], seq[k + 1])
  BY <1>1, GeneratedIs
<1> HIDE DEF n
<1> DEFINE Held(k) == /\ x[k] \in State /\ ~x[k].stopped
                      /\ z[k] \in GenState /\ ~z[k].stopped /\ z[k].iscomma
                      /\ x[k].env = z[k].env /\ x[k].out = z[k].out
<1>4. Held(0)
  BY <1>2, <1>3, StartIs DEF Started, GenStart
<1>5. ASSUME NEW k \in 0..n, k # n, Held(k) PROVE Held(k + 1)
  <2>1. /\ seq[k + 1] \in Position
        /\ x[k + 1] = InterpStep(answer, x[k], seq[k + 1])
        /\ z[k + 1] = GenStep(answer, z[k], seq[k + 1])
    BY <1>1, <1>2, <1>3, <1>5
  <2>2. /\ x[k + 1] \in State /\ ~x[k + 1].stopped
        /\ x[k + 1].env = EnvAfter(x[k].env, seq[k + 1])
        /\ x[k + 1].out = OutAfter(x[k].out, x[k].env, seq[k + 1])
    BY <1>5, <2>1, CommaStep
  <2>3. /\ z[k + 1] \in GenState /\ ~z[k + 1].stopped /\ z[k + 1].iscomma
        /\ z[k + 1].env = EnvAfter(z[k].env, seq[k + 1])
        /\ z[k + 1].out = OutAfter(z[k].out, z[k].env, seq[k + 1])
    BY <1>5, <2>1, GenStepIs
  <2> QED
    BY <1>5, <2>2, <2>3
<1>6. Held(n)
  <2> DEFINE H == [k \in 0..n |-> Held(k)]
  <2>1. \A k \in 0..n : Held(k) \in BOOLEAN
    OBVIOUS
  <2> HIDE DEF Held
  <2>2. H \in [0..n -> BOOLEAN] /\ \A k \in 0..n : H[k] = Held(k)
    BY <2>1
  <2>3. H[0] /\ \A k \in 0..n : k # n /\ H[k] => H[k + 1]
    BY <1>1, <1>4, <1>5
  <2> HIDE DEF H
  <2> QED
    BY <1>1, <2>2, <2>3, UpTo
<1> QED
  BY <1>2, <1>3, <1>6 DEF Outcome
-----------------------------------------------------------------------------
LEMMA Commas == IInv => CommaChains
<1> SUFFICES ASSUME IInv, Done, AllCommas, DeadSetsAreDead, NEW answer \in Answers
             PROVE  /\ Outcome(Interp(answer, kept)) = Outcome(Interp(answer, Parsed))
                    /\ Outcome(Generated(answer, kept)) = Outcome(Interp(answer, kept))
  BY DEF CommaChains
<1>1. TypeOK /\ kept \in Seq(Position)
  BY DEF IInv, TypeOK
<1> QED
  BY <1>1, DeletionsKeep, GeneratedKeeps

\* Of every chain, the interpreter runs exactly the actions that its connectors
\* lead to; and a chain with commas only, where the sets that are overwritten
\* are dead, does the same as it was parsed, once optimised, and generated.
THEOREM ChainRunSafe == Spec => [](FollowsConnectors /\ CommaChains)
<1>1. IInv => FollowsConnectors /\ CommaChains
  BY Connectors, Commas DEF IInv
<1> QED
  BY InitOK, StepOK, <1>1, PTL DEF Spec
=============================================================================
