--------------------------- MODULE Queries_proofs ---------------------------
(***************************************************************************)
(* What is proved of the types of sections and of the queries.               *)
(***************************************************************************)
EXTENDS Queries, FiniteSetTheorems, TLAPS

(* The types.                                                               *)

\* Compatibility does not depend on the side a type is on.
LEMMA CompatSymmetric ==
    \A t, u \in TypeVals \X TypeExprs : IsTypeCompat(t, u) <=> IsTypeCompat(u, t)
BY DEF IsTypeCompat, IsTypeValCompat, IsTypeExprCompat, IsTypeExprCompatSpecial

\* The type of a section and that of a builtin are compatible as the manual says
\* (doc/tech/tech.tex:976-983): were a call of the type of its arguments, the
\* compiler would keep each in its sections.
THEOREM LatticeKeepsApart ==
    \A name \in {"Msg", "Graph", "MsgGraph", "External"}, e \in {"emsg", "egraph", "eexternal"} :
        IsTypeExprCompat(TypeExprFromName(name), e) <=>
            CASE e = "emsg"      -> name \in {"Msg", "MsgGraph"}
              [] e = "egraph"    -> name \in {"Graph", "MsgGraph"}
              [] e = "eexternal" -> name = "External"
<1>1. /\ TypeExprFromName("Msg") = "emsg" /\ TypeExprFromName("Graph") = "egraph"
      /\ TypeExprFromName("MsgGraph") = "emsggraph"
      /\ TypeExprFromName("External") = "eexternal"
  BY DEF TypeExprFromName
<1>2. \A t \in {"emsg", "egraph", "emsggraph", "eexternal"}, e \in {"emsg", "egraph", "eexternal"} :
          IsTypeExprCompat(t, e) <=> t = e \/ (t = "emsggraph" /\ e # "eexternal")
  BY DEF IsTypeExprCompat, IsTypeExprCompatSpecial
<1> QED
  BY <1>1, <1>2

LEMMA UniversalSuits ==
    ASSUME NEW e, NEW v
    PROVE  IsTypeCompat(<<"univ", e>>, <<v, "eexpr">>)
<1>1. IsTypeValCompat("univ", v)
  <2>1. "univ" \in {"univ", v} \cap {"undef", "univ"}
    OBVIOUS
  <2> QED
    BY <2>1, Zenon DEF IsTypeValCompat
<1>2. IsTypeExprCompat(e, "eexpr")
  <2>1. "eexpr" \in {e, "eexpr"} \cap {"eundef", "eexpr"}
    OBVIOUS
  <2> QED
    BY <2>1, Zenon DEF IsTypeExprCompat
<1> QED
  BY <1>1, <1>2 DEF IsTypeCompat

\* But every call and every literal is of a type that suits any section: what
\* the compiler accepts in one it accepts in all (tree/builtins.go:291).
THEOREM AnySectionWillDo ==
    ASSUME NEW fn \in Fns, NEW types,
           \A i \in DOMAIN types : \E v \in TypeVals : types[i] = Universal(v),
           NEW s \in {"Msg", "Graph", "MsgGraph", "External"},
           NEW t \in {"Msg", "Graph", "MsgGraph", "External"},
           TypeCheck(fn, types, s)
    PROVE  TypeCheck(fn, types, t)
<1>1. IsSection(t)
  BY DEF IsSection
<1>2. ArityOk(fn, Len(types))
  BY DEF TypeCheck
<1>3. ASSUME NEW i \in DOMAIN types
      PROVE  /\ ~IsTypeUndef(AnnotatedArg(fn, types, i))
             /\ IsTypeCompat(<<"univ", TypeExprFromName(t)>>, AnnotatedArg(fn, types, i))
  <2>1. ~IsTypeUndef(AnnotatedArg(fn, types, i))
    BY <1>3 DEF TypeCheck
  <2>2. AnnotatedArg(fn, types, i) = types[i]
    BY <2>1 DEF AnnotatedArg, IsTypeUndef
  <2>3. PICK v \in TypeVals : types[i] = <<v, "eexpr">>
    BY <1>3 DEF Universal
  <2>4. AnnotatedArg(fn, types, i) = <<v, "eexpr">>
    BY <2>2, <2>3
  <2>5. IsTypeCompat(<<"univ", TypeExprFromName(t)>>, <<v, "eexpr">>)
    BY UniversalSuits
  <2> QED
    BY <2>1, <2>4, <2>5, Zenon
<1>4. /\ ~IsTypeUndef(Annotate(fn, types))
      /\ IsTypeCompat(<<"univ", TypeExprFromName(t)>>, Annotate(fn, types))
  <2>1. ~IsTypeUndef(Annotate(fn, types))
    BY DEF TypeCheck
  <2>2. Annotate(fn, types) = <<"bool", "eexpr">>
    BY <2>1 DEF Annotate, IsTypeUndef, RetType, Universal
  <2>3. IsTypeCompat(<<"univ", TypeExprFromName(t)>>, <<"bool", "eexpr">>)
    BY UniversalSuits
  <2> QED
    BY <2>1, <2>2, <2>3, Zenon
<1> QED
  BY <1>1, <1>2, <1>3, <1>4 DEF TypeCheck
-----------------------------------------------------------------------------
(* The context.                                                             *)

\* A set of natural numbers has a least one.
LEMMA LeastNat ==
    ASSUME NEW N, N \subseteq Nat, N # {}
    PROVE  \E i \in N : \A j \in N : i <= j
<1>1. IsWellFoundedOn(OpToRel(<, Nat), Nat)
  BY NatLessThanWellFounded
<1>2. PICK i \in N : \A j \in N : ~(<<j, i>> \in OpToRel(<, Nat))
  BY <1>1, WFMin
<1>3. \A j \in N : ~(j < i)
  BY <1>2 DEF OpToRel
<1> QED
  BY <1>3

\* What a message is.
LEMMA MsgShape ==
    ASSUME NEW m \in Msgs
    PROVE  /\ m # Nil
           /\ DOMAIN m.topics = 1..Len(m.topics) /\ Len(m.topics) \in Nat
           /\ DOMAIN m.nodes = 1..Len(m.nodes) /\ Len(m.nodes) \in Nat
           /\ DOMAIN m.topics \subseteq Nat /\ DOMAIN m.nodes \subseteq Nat
           /\ \A i \in DOMAIN m.topics : TopicOk(m.topics[i])
           /\ \A i \in DOMAIN m.nodes : NodeOk(m.nodes[i])
BY QueriesAssumption

\* The first of a name is one of that name, and there is none only if no one has it.
LEMMA FirstIsOne ==
    ASSUME NEW s, NEW name, DOMAIN s \subseteq Nat, \A i \in DOMAIN s : s[i] # Nil
    PROVE  IF First(s, name) = Nil THEN \A i \in DOMAIN s : s[i].name # name
           ELSE \E i \in DOMAIN s : s[i].name = name /\ First(s, name) = s[i]
<1> DEFINE Least(i) == \A j \in Named(s, name) : i <= j
<1>1. Named(s, name) \subseteq DOMAIN s
  BY DEF Named
<1>2. CASE Named(s, name) = {}
  <2>1. First(s, name) = Nil
    BY <1>2 DEF First
  <2>2. \A i \in DOMAIN s : s[i].name # name
    BY <1>2 DEF Named
  <2> QED
    BY <2>1, <2>2
<1>3. CASE Named(s, name) # {}
  <2>1. \E i \in Named(s, name) : Least(i)
    BY <1>1, <1>3, LeastNat
  <2> DEFINE k == CHOOSE i \in Named(s, name) : Least(i)
  <2>2. k \in Named(s, name)
    BY <2>1
  <2>3. First(s, name) = s[k]
    BY <1>3 DEF First
  <2>4. k \in DOMAIN s /\ s[k].name = name
    BY <2>2 DEF Named
  <2>5. s[k] # Nil
    BY <2>4
  <2> QED
    BY <2>3, <2>4, <2>5
<1> QED
  BY <1>2, <1>3

\* If no other has its name, it is all there is of it.
LEMMA FirstIsAll ==
    ASSUME NEW s, NEW name, DOMAIN s \subseteq Nat, \A i \in DOMAIN s : s[i] # Nil,
           OneOfAName(s)
    PROVE  /\ {u \in NameSet(s) : u.name = name} =
                  IF First(s, name) = Nil THEN {} ELSE {First(s, name)}
           /\ First(s, name) # Nil => First(s, name) \in NameSet(s) /\ First(s, name).name = name
<1>1. CASE First(s, name) = Nil
  <2>1. \A i \in DOMAIN s : s[i].name # name
    BY <1>1, FirstIsOne
  <2> QED
    BY <1>1, <2>1 DEF NameSet
<1>2. CASE First(s, name) # Nil
  <2>1. PICK i \in DOMAIN s : s[i].name = name /\ First(s, name) = s[i]
    BY <1>2, FirstIsOne
  <2>2. \A j \in DOMAIN s : s[j].name = name => j = i
    BY <2>1 DEF OneOfAName
  <2> QED
    BY <1>2, <2>1, <2>2 DEF NameSet
<1> QED
  BY <1>1, <1>2
-----------------------------------------------------------------------------
(* Lists and sets.                                                          *)

\* What a list stands for: its names, or none if it is the one of no name.
LEMMA SetOfIs ==
    ASSUME NEW s \in Seq(STRING)
    PROVE  /\ isEmpty(s) <=> SetOf(s) = {}
           /\ s # <<NoName>> => SetOf(s) = NameSet(s)
           /\ s = <<NoName>> => NameSet(s) = {NoName}
<1>1. Len(s) = 0 <=> NameSet(s) = {}
  <2>1. Len(s) # 0 => s[1] \in NameSet(s)
    BY DEF NameSet
  <2> QED
    BY <2>1 DEF NameSet
<1>2. s = <<NoName>> <=> Len(s) = 1 /\ s[1] = NoName
  OBVIOUS
<1>3. s = <<NoName>> => NameSet(s) = {NoName}
  BY DEF NameSet
<1> QED
  BY <1>1, <1>2, <1>3 DEF isEmpty, SetOf

\* To look the names of a list up in another one is to compare sets.
LEMMA SubsetMeans ==
    ASSUME NEW s \in Seq(STRING), NEW t \in Seq(STRING), TellsNames(t)
    PROVE  matchSubset(s, t) <=> SetOf(t) \subseteq SetOf(s)
<1>1. CASE isEmpty(t)
  BY <1>1, SetOfIs DEF matchSubset
<1>2. CASE ~isEmpty(t)
  <2>1. SetOf(t) = NameSet(t) /\ NameSet(t) # {} /\ NameSet(t) # {NoName}
    BY <1>2, SetOfIs DEF TellsNames, SetOf
  <2>2. CASE s = <<NoName>>
    <3>1. SetOf(s) = {} /\ NameSet(s) = {NoName}
      BY <2>2, SetOfIs DEF SetOf
    <3> QED
      BY <1>2, <2>1, <3>1 DEF matchSubset
  <2>3. CASE s # <<NoName>>
    BY <1>2, <2>1, <2>3, SetOfIs DEF matchSubset
  <2> QED
    BY <2>2, <2>3
<1> QED
  BY <1>1, <1>2

LEMMA AllMeans ==
    ASSUME NEW s \in Seq(STRING), NEW t \in Seq(STRING), TellsNames(s), TellsNames(t)
    PROVE  matchAll(s, t) <=> SetOf(s) = SetOf(t)
<1>1. matchSubset(s, t) <=> SetOf(t) \subseteq SetOf(s)
  BY SubsetMeans
<1>2. matchSubset(t, s) <=> SetOf(s) \subseteq SetOf(t)
  BY SubsetMeans
<1> QED
  BY <1>1, <1>2 DEF matchAll

\* The length of a list that repeats nothing is the size of its set.
LEMMA CountMeans ==
    ASSUME NEW s, NEW n \in Nat, Len(s) = n, DOMAIN s = 1..n,
           \A i, j \in DOMAIN s : s[i] = s[j] => i = j,
           NEW lo, NEW hi, lo.IntVal \in Int, hi.IntVal \in Int
    PROVE  Within(s, lo, hi) <=> Counts(NameSet(s), lo, hi)
<1> DEFINE f == [i \in 1..n |-> s[i]]
<1>1. f \in Bijection(1..n, NameSet(s))
  BY DEF Bijection, Injection, Surjection, IsInjective, NameSet
<1>2. Cardinality(NameSet(s)) = n
  BY <1>1, FS_CountingElements DEF ExistsBijection
<1> QED
  BY <1>2 DEF Within, Counts

\* An argument of a call has both fields, whatever its type.
LEMMA ArgIs ==
    ASSUME NEW c \in Calls, NEW i \in 1..Len(c.args)
    PROVE  c.args[i].StrVal \in STRING /\ c.args[i].IntVal \in Int
<1> DEFINE Arg == [type : {"string", "int"}, StrVal : STRING, IntVal : Int]
<1>1. c.args \in Seq(Arg)
  BY QueriesAssumption
<1> HIDE DEF Arg
<1>2. c.args[i] \in Arg
  BY <1>1
<1> QED
  BY <1>2 DEF Arg

\* The arguments of a call as strings.
LEMMA StrValsAre ==
    ASSUME NEW c \in Calls, NEW from \in {1, 2}, from <= Len(c.args) + 1
    PROVE  /\ StrVals(c.args, from) \in Seq(STRING)
           /\ Len(StrVals(c.args, from)) = Len(c.args) + 1 - from
           /\ \A i \in 1..(Len(c.args) + 1 - from) :
                  StrVals(c.args, from)[i] = c.args[from + i - 1].StrVal
<1>1. c.args \in Seq([type : {"string", "int"}, StrVal : STRING, IntVal : Int])
  BY QueriesAssumption
<1> DEFINE n == Len(c.args) + 1 - from
<1>2. n \in Nat /\ \A i \in 1..n : from + i - 1 \in 1..Len(c.args)
  BY <1>1
<1>3. \A i \in 1..n : c.args[from + i - 1].StrVal \in STRING
  BY <1>2, ArgIs
<1>4. StrVals(c.args, from) = [i \in 1..n |-> c.args[from + i - 1].StrVal]
  BY DEF StrVals
<1> HIDE DEF n
<1>5. StrVals(c.args, from) \in Seq(STRING)
  BY <1>2, <1>3, <1>4
<1>6. Len(StrVals(c.args, from)) = n
  BY <1>2, <1>4, <1>5
<1> QED
  BY <1>4, <1>5, <1>6 DEF n

(* The graph.                                                               *)

\* The lists of a topic in the message are what it means by its publishers and
\* subscribers, and those of a node by its services.
LEMMA TopicLists ==
    ASSUME NEW m \in Msgs, NEW topic, PlainMsg(m)
    PROVE  /\ PubsIn(m, topic) = SetOf(PublishersOf(m, topic))
           /\ SubsIn(m, topic) = SetOf(SubscribersOf(m, topic))
           /\ \A s \in {PublishersOf(m, topic), SubscribersOf(m, topic)} :
                  s \in Seq(STRING) /\ TellsNames(s) /\ (s = <<>> \/ s \in ListsOf(m))
<1> DEFINE t == First(m.topics, topic)
<1>1. \A i \in DOMAIN m.topics : m.topics[i] # Nil
  BY MsgShape DEF TopicOk
<1>2. /\ {u \in NameSet(m.topics) : u.name = topic} = IF t = Nil THEN {} ELSE {t}
      /\ t # Nil => t \in NameSet(m.topics)
  BY <1>1, MsgShape, FirstIsAll DEF PlainMsg
<1>3. t # Nil => TopicOk(t)
  BY <1>2, MsgShape DEF NameSet
<1>4. SetOf(<<>>) = {} /\ TellsNames(<<>>) /\ <<>> \in Seq(STRING)
  <2>1. <<>> \in Seq(STRING) /\ <<>> # <<NoName>> /\ NameSet(<<>>) = {}
    BY DEF NameSet
  <2> QED
    BY <2>1 DEF SetOf, TellsNames
<1> HIDE DEF t
<1>5. CASE t = Nil
  BY <1>2, <1>4, <1>5 DEF t, PublishersOf, SubscribersOf, rostopic, PubsIn, SubsIn
<1>6. CASE t # Nil
  <2>1. PublishersOf(m, topic) = t.publishers /\ SubscribersOf(m, topic) = t.subscribers
    BY <1>6 DEF t, PublishersOf, SubscribersOf, rostopic
  <2>2. {t.publishers, t.subscribers} \subseteq ListsOf(m)
    BY <1>2, <1>6 DEF ListsOf
  <2>3. PubsIn(m, topic) = SetOf(t.publishers) /\ SubsIn(m, topic) = SetOf(t.subscribers)
    BY <1>2, <1>6 DEF PubsIn, SubsIn
  <2> QED
    BY <1>3, <1>6, <2>1, <2>2, <2>3 DEF TopicOk, PlainMsg
<1> QED
  BY <1>5, <1>6

LEMMA NodeLists ==
    ASSUME NEW m \in Msgs, NEW node, PlainMsg(m), RosNode(m, node) # Nil
    PROVE  /\ ServicesIn(m, node) = SetOf(RosNode(m, node).services)
           /\ RosNode(m, node).services \in Seq(STRING) /\ TellsNames(RosNode(m, node).services)
<1> DEFINE n == First(m.nodes, node)
<1>1. \A i \in DOMAIN m.nodes : m.nodes[i] # Nil
  BY MsgShape DEF NodeOk
<1>2. {u \in NameSet(m.nodes) : u.name = node} = {n} /\ n \in NameSet(m.nodes)
  BY <1>1, MsgShape, FirstIsAll DEF PlainMsg, RosNode
<1> HIDE DEF n
<1>3. NodeOk(n)
  BY <1>2, MsgShape DEF NameSet
<1>4. n.services \in ListsOf(m)
  <2>1. n.services \in {u.services : u \in NameSet(m.nodes)}
    BY <1>2
  <2> QED
    BY <2>1, Zenon DEF ListsOf
<1> QED
  BY <1>2, <1>3, <1>4 DEF n, ServicesIn, RosNode, NodeOk, PlainMsg

\* The type of the topic of the message, if it is known, is in its graph.
LEMMA TypeIs ==
    ASSUME NEW m \in Msgs, PlainMsg(m), NEW fn \in AboutType, ~NoParam(fn, m)
    PROVE  \/ /\ TypesIn(m, m.topic) = {}
              /\ RosType(m, m.topic) = "UnknownRostype"
              /\ RosSubtype(m, m.topic) = "UnknownRosSubtype"
           \/ \E p \in Seq(STRING) :
              /\ TypesIn(m, m.topic) = {p} /\ p[1] # NoName
              /\ RosType(m, m.topic) = p[1]
              /\ RosSubtype(m, m.topic) = IF Len(p) < 3 THEN "UnknownRosSubtype" ELSE p[3]
<1> DEFINE t == First(m.topics, m.topic)
           ofName == {u \in NameSet(m.topics) : u.name = m.topic}
<1>1. \A i \in DOMAIN m.topics : m.topics[i] # Nil
  BY MsgShape DEF TopicOk
<1>2. /\ ofName = IF t = Nil THEN {} ELSE {t}
      /\ t # Nil => t \in NameSet(m.topics) /\ t.name = m.topic
  BY <1>1, MsgShape, FirstIsAll DEF PlainMsg
<1>3. t # Nil => TopicOk(t)
  BY <1>2, MsgShape DEF NameSet
<1>4. t # Nil => t.params # <<>>
  BY DEF NoParam, rostopic
<1>5. TypesIn(m, m.topic) = {u.params[1] : u \in {v \in ofName : v.params \notin {Nil, <<>>}}}
  BY DEF TypesIn
<1> HIDE DEF t, ofName
<1>6. CASE t = Nil \/ t.params = Nil
  <2>1. TypesIn(m, m.topic) = {}
    BY <1>2, <1>5, <1>6
  <2> QED
    BY <1>6, <2>1 DEF RosType, RosSubtype, rostopic, t
<1>7. CASE t # Nil /\ t.params # Nil
  <2>1. TypesIn(m, m.topic) = {t.params[1]}
    BY <1>2, <1>4, <1>5, <1>7
  <2>2. t.params \in Seq(Seq(STRING)) /\ Len(t.params) # 0
    BY <1>3, <1>4, <1>7 DEF TopicOk
  <2>3. t.params[1] \in Seq(STRING)
    BY <2>2
  <2>4. t.params[1][1] # NoName
    BY <2>1 DEF PlainMsg
  <2> QED
    BY <1>7, <2>1, <2>3, <2>4 DEF RosType, RosSubtype, rostopic, t
<1> QED
  BY <1>6, <1>7

\* The names of topics, or of nodes, are a list with no surprise.
LEMMA NamesAre ==
    ASSUME NEW s, DOMAIN s = 1..Len(s), Len(s) \in Nat, OneOfAName(s),
           \A i \in DOMAIN s : s[i].name \in STRING,
           NoName \notin NameSet(Names(s))
    PROVE  /\ Names(s) \in Seq(STRING) /\ Len(Names(s)) = Len(s)
           /\ DOMAIN Names(s) = 1..Len(s)
           /\ SetOf(Names(s)) = NameSet(Names(s)) /\ TellsNames(Names(s))
           /\ \A i, j \in DOMAIN Names(s) : Names(s)[i] = Names(s)[j] => i = j
<1>1. Names(s) \in Seq(STRING) /\ DOMAIN Names(s) = 1..Len(s)
  BY DEF Names
<1>2. Len(Names(s)) = Len(s)
  BY <1>1
<1>3. Names(s) # <<NoName>>
  BY <1>1, SetOfIs
<1> QED
  BY <1>1, <1>2, <1>3 DEF Names, SetOf, TellsNames, OneOfAName
-----------------------------------------------------------------------------
(* The queries.                                                             *)

\* What the compiler accepts has the arguments that are taken by index, but
\* for the three builtins that are declared with fewer.
LEMMA ArityIndex ==
    ASSUME NEW fn \in Fns, NEW n \in Nat, ArityOk(fn, n), n < Indexed(fn)
    PROVE  \/ fn \in {"service", "servicecount"}
           \/ fn \in {"services", "servicesinclude"} /\ n = 0
<1> DEFINE One == {"payload", "plugin", "topicmatches", "signal", "idsalert", "service"}
           Two == {"msgsubtype", "publishercount", "subscribercount", "nodecount",
                   "servicecount", "topiccount", "topicsubscribers"}
           Three == {"topicpublishercount", "topicsubscribercount"}
           Some == {"topicpublishers", "topicpublishersinclude", "topicsubscribersinclude"}
           Any == {"msgtypein", "publishers", "publishersinclude", "subscribers",
                   "subscribersinclude", "topicin", "nodes", "nodesinclude", "topics",
                   "topicsinclude", "services", "servicesinclude"}
<1>1. fn \in One \cup Two \cup Three \cup Some \cup Any
  BY DEF Fns, Builtins
<1>2. CASE fn \in One
  <2>1. ~Builtins[fn].variadic /\ Len(Builtins[fn].args) = 1
    BY <1>2 DEF Builtins, Fixed
  <2>2. fn = "service" \/ Indexed(fn) = 1
    BY <1>2 DEF Indexed
  <2> QED
    BY <2>1, <2>2 DEF ArityOk
<1>3. CASE fn \in Two
  <2>1. ~Builtins[fn].variadic /\ Len(Builtins[fn].args) = 2
    BY <1>3 DEF Builtins, Fixed
  <2>2. fn = "servicecount" \/ Indexed(fn) \in {1, 2}
    BY <1>3 DEF Indexed
  <2> QED
    BY <2>1, <2>2 DEF ArityOk
<1>4. CASE fn \in Three
  <2>1. ~Builtins[fn].variadic /\ Len(Builtins[fn].args) = 3
    BY <1>4 DEF Builtins, Fixed
  <2>2. Indexed(fn) = 3
    BY <1>4 DEF Indexed
  <2> QED
    BY <2>1, <2>2 DEF ArityOk
<1>5. CASE fn \in Some
  <2>1. Builtins[fn].variadic /\ Len(Builtins[fn].args) = 2
    BY <1>5 DEF Builtins, Variadic
  <2>2. Indexed(fn) = 1
    BY <1>5 DEF Indexed
  <2> QED
    BY <2>1, <2>2 DEF ArityOk
<1>6. CASE fn \in Any
  <2>1. fn \in {"services", "servicesinclude"} \/ Indexed(fn) = 0
    BY <1>6 DEF Indexed
  <2>2. fn \in {"services", "servicesinclude"} => Indexed(fn) = 1
    BY DEF Indexed
  <2> QED
    BY <2>1, <2>2
<1> QED
  BY <1>1, <1>2, <1>3, <1>4, <1>5, <1>6

\* Two of those never have them.
LEMMA ServiceShort ==
    ASSUME NEW fn \in {"service", "servicecount"}, NEW n \in Nat, ArityOk(fn, n)
    PROVE  n < Indexed(fn)
<1>1. CASE fn = "service"
  <2>1. ~Builtins[fn].variadic /\ Len(Builtins[fn].args) = 1
    BY <1>1 DEF Builtins, Fixed
  <2>2. Indexed(fn) = 2
    BY <1>1 DEF Indexed
  <2> QED
    BY <2>1, <2>2 DEF ArityOk
<1>2. CASE fn = "servicecount"
  <2>1. ~Builtins[fn].variadic /\ Len(Builtins[fn].args) = 2
    BY <1>2 DEF Builtins, Fixed
  <2>2. Indexed(fn) = 3
    BY <1>2 DEF Indexed
  <2> QED
    BY <2>1, <2>2 DEF ArityOk
<1> QED
  BY <1>1, <1>2
-----------------------------------------------------------------------------
(* The rule, from the compiler to its evaluation.                            *)

\* What runs has been accepted, and folded if it can be; what has panicked did
\* so in this message, in its section; and an answer is of the current message.
Ran == pc \in {"idle", "run", "dead"}
Inv ==
    /\ call \in Calls /\ CurrentMsg \in Msgs \cup {Nil}
    /\ Ran => TypeCheck(call.fn, TypesOf(call.args), section)
    /\ Ran => folded = Fold(call.fn, call.args)
    /\ pc # "dead" => answer # "panic"
    /\ pc = "dead" => section = Picked /\ ~folded /\ Panics(call.fn, call.args, CurrentMsg)
    /\ answer # "none" =>
           /\ pc \in {"idle", "dead"}
           /\ IF folded THEN answer = "true"
              ELSE answer \in Outcomes(call.fn, call.args, CurrentMsg)

\* A panic or an answer, and one answer only unless what is outside decides.
LEMMA OutcomeIs ==
    ASSUME NEW fn, NEW args, NEW m, NEW a \in Outcomes(fn, args, m)
    PROVE  /\ Panics(fn, args, m) <=> a = "panic"
           /\ a # "panic" /\ fn \notin Opaque =>
                  LET query == IF fn \in AboutMsg THEN MsgQuery(fn, args, m) ELSE GraphQuery(fn, args, m)
                  IN  a = IF query THEN "true" ELSE "false"
<1>1. CASE Panics(fn, args, m)
  BY <1>1 DEF Outcomes
<1>2. CASE ~Panics(fn, args, m)
  BY <1>2 DEF Outcomes
<1> QED
  BY <1>1, <1>2

\* What is in the list of a call, and of the message, in terms of sets.
LEMMA ListMeans ==
    ASSUME NEW c \in Calls, NEW m \in Msgs, PlainMsg(m), PlainCall(c.fn, c.args),
           Indexed(c.fn) \in {0, 1}, Indexed(c.fn) <= Len(c.args)
    PROVE  LET list == ListArg(c.fn, c.args)
           IN  /\ list \in Seq(STRING) /\ TellsNames(list)
               /\ \A t :
                      /\ matchAll(list, PublishersOf(m, t)) <=> SetOf(list) = PubsIn(m, t)
                      /\ matchAll(list, SubscribersOf(m, t)) <=> SetOf(list) = SubsIn(m, t)
                      /\ matchSubset(PublishersOf(m, t), list) <=> SetOf(list) \subseteq PubsIn(m, t)
                      /\ matchSubset(SubscribersOf(m, t), list) <=> SetOf(list) \subseteq SubsIn(m, t)
               /\ \A n : RosNode(m, n) # Nil =>
                      /\ matchAll(list, RosNode(m, n).services) <=> SetOf(list) = ServicesIn(m, n)
                      /\ matchSubset(RosNode(m, n).services, list) <=> SetOf(list) \subseteq ServicesIn(m, n)
               /\ matchAll(list, Names(m.topics)) <=> SetOf(list) = TopicsIn(m)
               /\ matchAll(list, Names(m.nodes)) <=> SetOf(list) = NodesIn(m)
               /\ matchSubset(Names(m.topics), list) <=> SetOf(list) \subseteq TopicsIn(m)
               /\ matchSubset(Names(m.nodes), list) <=> SetOf(list) \subseteq NodesIn(m)
<1> DEFINE list == ListArg(c.fn, c.args)
<1>1. list \in Seq(STRING)
  <2>1. Indexed(c.fn) + 1 \in {1, 2} /\ Indexed(c.fn) + 1 <= Len(c.args) + 1
    BY QueriesAssumption
  <2> QED
    BY <2>1, StrValsAre DEF ListArg
<1>2. TellsNames(list)
  BY DEF PlainCall
<1> HIDE DEF list
<1>3. ASSUME NEW s \in Seq(STRING), TellsNames(s)
      PROVE  /\ matchAll(list, s) <=> SetOf(list) = SetOf(s)
             /\ matchSubset(s, list) <=> SetOf(list) \subseteq SetOf(s)
  BY <1>1, <1>2, <1>3, AllMeans, SubsetMeans
<1>4. /\ Names(m.topics) \in Seq(STRING) /\ TellsNames(Names(m.topics))
      /\ SetOf(Names(m.topics)) = TopicsIn(m)
  <2>1. /\ \A i \in DOMAIN m.topics : m.topics[i].name \in STRING
        /\ NoName \notin NameSet(Names(m.topics)) /\ OneOfAName(m.topics)
    BY MsgShape DEF TopicOk, PlainMsg, TopicsIn
  <2> QED
    BY <2>1, MsgShape, NamesAre DEF TopicsIn
<1>5. /\ Names(m.nodes) \in Seq(STRING) /\ TellsNames(Names(m.nodes))
      /\ SetOf(Names(m.nodes)) = NodesIn(m)
  <2>1. /\ \A i \in DOMAIN m.nodes : m.nodes[i].name \in STRING
        /\ NoName \notin NameSet(Names(m.nodes)) /\ OneOfAName(m.nodes)
    BY MsgShape DEF NodeOk, PlainMsg, NodesIn
  <2> QED
    BY <2>1, MsgShape, NamesAre DEF NodesIn
<1>6. \A t :
          /\ matchAll(list, PublishersOf(m, t)) <=> SetOf(list) = PubsIn(m, t)
          /\ matchAll(list, SubscribersOf(m, t)) <=> SetOf(list) = SubsIn(m, t)
          /\ matchSubset(PublishersOf(m, t), list) <=> SetOf(list) \subseteq PubsIn(m, t)
          /\ matchSubset(SubscribersOf(m, t), list) <=> SetOf(list) \subseteq SubsIn(m, t)
  BY <1>3, TopicLists
<1>7. ASSUME NEW n, RosNode(m, n) # Nil
      PROVE  /\ matchAll(list, RosNode(m, n).services) <=> SetOf(list) = ServicesIn(m, n)
             /\ matchSubset(RosNode(m, n).services, list) <=> SetOf(list) \subseteq ServicesIn(m, n)
  BY <1>3, <1>7, NodeLists
<1>8. /\ matchAll(list, Names(m.topics)) <=> SetOf(list) = TopicsIn(m)
      /\ matchAll(list, Names(m.nodes)) <=> SetOf(list) = NodesIn(m)
      /\ matchSubset(Names(m.topics), list) <=> SetOf(list) \subseteq TopicsIn(m)
      /\ matchSubset(Names(m.nodes), list) <=> SetOf(list) \subseteq NodesIn(m)
  BY <1>3, <1>4, <1>5
<1> QED
  BY <1>1, <1>2, <1>6, <1>7, <1>8 DEF list

\* And how many there are.
LEMMA CountsMean ==
    ASSUME NEW m \in Msgs, PlainMsg(m), \A s \in ListsOf(m) : Countable(s),
           NEW lo, NEW hi, lo.IntVal \in Int, hi.IntVal \in Int
    PROVE  /\ \A t :
                  /\ Within(PublishersOf(m, t), lo, hi) <=> Counts(PubsIn(m, t), lo, hi)
                  /\ Within(SubscribersOf(m, t), lo, hi) <=> Counts(SubsIn(m, t), lo, hi)
           /\ Within(m.topics, lo, hi) <=> Counts(TopicsIn(m), lo, hi)
           /\ Within(m.nodes, lo, hi) <=> Counts(NodesIn(m), lo, hi)
<1>1. ASSUME NEW s \in Seq(STRING), s = <<>> \/ Countable(s)
      PROVE  Within(s, lo, hi) <=> Counts(SetOf(s), lo, hi)
  <2>1. s # <<NoName>> /\ \A i, j \in DOMAIN s : s[i] = s[j] => i = j
    BY <1>1 DEF Countable
  <2>2. SetOf(s) = NameSet(s)
    BY <2>1, SetOfIs
  <2> QED
    BY <2>1, <2>2, CountMeans
<1>2. \A t :
          /\ Within(PublishersOf(m, t), lo, hi) <=> Counts(PubsIn(m, t), lo, hi)
          /\ Within(SubscribersOf(m, t), lo, hi) <=> Counts(SubsIn(m, t), lo, hi)
  BY <1>1, TopicLists
<1>3. Within(m.topics, lo, hi) <=> Counts(TopicsIn(m), lo, hi)
  <2>1. /\ \A i \in DOMAIN m.topics : m.topics[i].name \in STRING
        /\ NoName \notin NameSet(Names(m.topics)) /\ OneOfAName(m.topics)
    BY MsgShape DEF TopicOk, PlainMsg, TopicsIn
  <2>2. Within(Names(m.topics), lo, hi) <=> Counts(TopicsIn(m), lo, hi)
    BY <2>1, MsgShape, NamesAre, CountMeans DEF TopicsIn
  <2>3. Len(Names(m.topics)) = Len(m.topics)
    BY <2>1, MsgShape, NamesAre
  <2> QED
    BY <2>2, <2>3 DEF Within
<1>4. Within(m.nodes, lo, hi) <=> Counts(NodesIn(m), lo, hi)
  <2>1. /\ \A i \in DOMAIN m.nodes : m.nodes[i].name \in STRING
        /\ NoName \notin NameSet(Names(m.nodes)) /\ OneOfAName(m.nodes)
    BY MsgShape DEF NodeOk, PlainMsg, NodesIn
  <2>2. Within(Names(m.nodes), lo, hi) <=> Counts(NodesIn(m), lo, hi)
    BY <2>1, MsgShape, NamesAre, CountMeans DEF NodesIn
  <2>3. Len(Names(m.nodes)) = Len(m.nodes)
    BY <2>1, MsgShape, NamesAre
  <2> QED
    BY <2>2, <2>3 DEF Within
<1> QED
  BY <1>2, <1>3, <1>4

\* A query that neither panics nor is folded answers what it means.
LEMMA QueryMeans ==
    ASSUME NEW c \in Calls, NEW m \in Msgs, PlainMsg(m), PlainCall(c.fn, c.args),
           Indexed(c.fn) > 1 => \A s \in ListsOf(m) : Countable(s),
           c.fn \notin Opaque \cup {"subscribersinclude", "service", "servicecount"},
           ~Panics(c.fn, c.args, m), ~Fold(c.fn, c.args)
    PROVE  (IF c.fn \in AboutMsg THEN MsgQuery(c.fn, c.args, m) ELSE GraphQuery(c.fn, c.args, m))
           <=> Meaning(c.fn, c.args, m)
<1> DEFINE fn == c.fn
           args == c.args
           list == ListArg(fn, args)
           of == args[1].StrVal
           query == IF fn \in AboutMsg THEN MsgQuery(fn, args, m) ELSE GraphQuery(fn, args, m)
           meaning == Meaning(fn, args, m)
           OfTopic == {"msgsubtype", "msgtypein", "topicin"}
           Counting == {"publishercount", "subscribercount", "nodecount", "topiccount"}
           Counting3 == {"topicpublishercount", "topicsubscribercount"}
           Listing == {"publishers", "publishersinclude", "subscribers", "nodes", "nodesinclude",
                       "topics", "topicsinclude"}
           Listing2 == {"services", "servicesinclude", "topicpublishers", "topicpublishersinclude",
                        "topicsubscribers", "topicsubscribersinclude"}
<1>1. fn \in OfTopic \cup Counting \cup Counting3 \cup Listing \cup Listing2
  <2>1. fn \in Fns
    BY QueriesAssumption
  <2> QED
    BY <2>1 DEF Fns, Builtins, Opaque, External
<1>2. Len(args) \in Nat /\ Indexed(fn) <= Len(args)
  <2>1. Len(args) \in Nat
    BY QueriesAssumption
  <2>2. Indexed(fn) \in Nat
    BY DEF Indexed
  <2> QED
    BY <2>1, <2>2 DEF Panics, NoIndex
<1>3. CASE fn \in Counting
  <2>1. Indexed(fn) = 2
    BY <1>3 DEF Indexed
  <2>2. args[1].IntVal \in Int /\ args[2].IntVal \in Int
    BY <1>2, <2>1, ArgIs
  <2>3. CASE fn = "publishercount"
    BY <2>1, <2>2, <2>3, CountsMean DEF MsgQuery, AboutMsg, Meaning
  <2>4. CASE fn = "subscribercount"
    BY <2>1, <2>2, <2>4, CountsMean DEF MsgQuery, AboutMsg, Meaning
  <2>5. CASE fn = "nodecount"
    BY <2>1, <2>2, <2>5, CountsMean DEF GraphQuery, AboutMsg, Meaning
  <2>6. CASE fn = "topiccount"
    BY <2>1, <2>2, <2>6, CountsMean DEF GraphQuery, AboutMsg, Meaning
  <2> QED
    BY <1>3, <2>3, <2>4, <2>5, <2>6
<1>4. CASE fn \in Counting3
  <2>1. Indexed(fn) = 3
    BY <1>4 DEF Indexed
  <2>2. args[2].IntVal \in Int /\ args[3].IntVal \in Int
    BY <1>2, <2>1, ArgIs
  <2>3. CASE fn = "topicpublishercount"
    BY <2>1, <2>2, <2>3, CountsMean DEF GraphQuery, AboutMsg, Meaning
  <2>4. CASE fn = "topicsubscribercount"
    BY <2>1, <2>2, <2>4, CountsMean DEF GraphQuery, AboutMsg, Meaning
  <2> QED
    BY <1>4, <2>3, <2>4
<1>5. CASE fn \in Listing
  <2>1. Indexed(fn) = 0 /\ list = StrVals(args, 1)
    BY <1>5 DEF Indexed, ListArg
  <2>2. /\ matchAll(list, PublishersOf(m, m.topic)) <=> SetOf(list) = PubsIn(m, m.topic)
        /\ matchAll(list, SubscribersOf(m, m.topic)) <=> SetOf(list) = SubsIn(m, m.topic)
        /\ matchSubset(PublishersOf(m, m.topic), list) <=> SetOf(list) \subseteq PubsIn(m, m.topic)
        /\ matchAll(list, Names(m.topics)) <=> SetOf(list) = TopicsIn(m)
        /\ matchAll(list, Names(m.nodes)) <=> SetOf(list) = NodesIn(m)
        /\ matchSubset(Names(m.topics), list) <=> SetOf(list) \subseteq TopicsIn(m)
        /\ matchSubset(Names(m.nodes), list) <=> SetOf(list) \subseteq NodesIn(m)
    BY <1>2, <2>1, ListMeans
  <2>3. /\ fn = "publishers" => (query <=> matchAll(list, PublishersOf(m, m.topic)))
        /\ fn = "publishersinclude" => (query <=> matchSubset(PublishersOf(m, m.topic), list))
        /\ fn = "subscribers" => (query <=> matchAll(list, SubscribersOf(m, m.topic)))
    BY <2>1 DEF MsgQuery, AboutMsg, Publishersinclude
  <2>4. /\ fn = "nodes" => (query <=> matchAll(list, Names(m.nodes)))
        /\ fn = "nodesinclude" => (query <=> matchSubset(Names(m.nodes), list))
        /\ fn = "topics" => (query <=> matchAll(list, Names(m.topics)))
        /\ fn = "topicsinclude" => (query <=> matchSubset(Names(m.topics), list))
    BY <2>1 DEF GraphQuery, AboutMsg
  <2>5. /\ fn = "publishers" => (meaning <=> SetOf(list) = PubsIn(m, m.topic))
        /\ fn = "publishersinclude" => (meaning <=> SetOf(list) \subseteq PubsIn(m, m.topic))
        /\ fn = "subscribers" => (meaning <=> SetOf(list) = SubsIn(m, m.topic))
        /\ fn = "nodes" => (meaning <=> SetOf(list) = NodesIn(m))
        /\ fn = "nodesinclude" => (meaning <=> SetOf(list) \subseteq NodesIn(m))
        /\ fn = "topics" => (meaning <=> SetOf(list) = TopicsIn(m))
        /\ fn = "topicsinclude" => (meaning <=> SetOf(list) \subseteq TopicsIn(m))
    BY DEF Meaning
  <2> HIDE DEF list, query, meaning
  <2>6. query <=> meaning
    BY <1>5, <2>2, <2>3, <2>4, <2>5
  <2> QED
    BY <2>6 DEF query, meaning
<1>6. CASE fn \in Listing2
  <2>1. Indexed(fn) = 1 /\ list = StrVals(args, 2) /\ args # <<>>
    <3>1. Indexed(fn) = 1
      BY <1>6 DEF Indexed
    <3> QED
      BY <1>2, <3>1 DEF ListArg
  <2>2. /\ matchAll(list, PublishersOf(m, of)) <=> SetOf(list) = PubsIn(m, of)
        /\ matchAll(list, SubscribersOf(m, of)) <=> SetOf(list) = SubsIn(m, of)
        /\ matchSubset(PublishersOf(m, of), list) <=> SetOf(list) \subseteq PubsIn(m, of)
        /\ matchSubset(SubscribersOf(m, of), list) <=> SetOf(list) \subseteq SubsIn(m, of)
        /\ RosNode(m, of) # Nil =>
              /\ matchAll(list, RosNode(m, of).services) <=> SetOf(list) = ServicesIn(m, of)
              /\ matchSubset(RosNode(m, of).services, list) <=> SetOf(list) \subseteq ServicesIn(m, of)
    BY <1>2, <2>1, ListMeans
  <2>3. fn \in {"services", "servicesinclude"} => RosNode(m, of) # Nil
    BY MsgShape DEF Panics, NoNode, AboutNode
  <2>4. /\ fn = "services" => (query <=> matchAll(list, RosNode(m, of).services))
        /\ fn = "servicesinclude" => (query <=> matchSubset(RosNode(m, of).services, list))
        /\ fn = "topicpublishers" => (query <=> matchAll(list, PublishersOf(m, of)))
        /\ fn = "topicpublishersinclude" => (query <=> matchSubset(PublishersOf(m, of), list))
        /\ fn = "topicsubscribers" => (query <=> matchAll(list, SubscribersOf(m, of)))
        /\ fn = "topicsubscribersinclude" => (query <=> matchSubset(SubscribersOf(m, of), list))
    BY <2>1 DEF GraphQuery, AboutMsg
  <2>5. /\ fn = "services" => (meaning <=> SetOf(list) = ServicesIn(m, of))
        /\ fn = "servicesinclude" => (meaning <=> SetOf(list) \subseteq ServicesIn(m, of))
        /\ fn = "topicpublishers" => (meaning <=> SetOf(list) = PubsIn(m, of))
        /\ fn = "topicpublishersinclude" => (meaning <=> SetOf(list) \subseteq PubsIn(m, of))
        /\ fn = "topicsubscribers" => (meaning <=> SetOf(list) = SubsIn(m, of))
        /\ fn = "topicsubscribersinclude" => (meaning <=> SetOf(list) \subseteq SubsIn(m, of))
    BY <2>1 DEF Meaning
  <2> HIDE DEF list, of, query, meaning
  <2>6. query <=> meaning
    BY <1>6, <2>2, <2>3, <2>4, <2>5
  <2> QED
    BY <2>6 DEF query, meaning
<1>7. CASE fn = "topicin"
  <2>1. Indexed(fn) = 0 /\ list = StrVals(args, 1) /\ args # <<>>
    BY <1>7 DEF Indexed, ListArg, Fold
  <2>2. list \in Seq(STRING)
    BY <1>2, <2>1, ListMeans
  <2>3. m.topic \in NameSet(list) <=> m.topic \in SetOf(list)
    BY <2>2, SetOfIs DEF SetOf, PlainMsg
  <2> QED
    BY <1>7, <2>1, <2>3 DEF MsgQuery, AboutMsg, Meaning
<1>8. CASE fn \in AboutType
  <2>1. ~NoParam(fn, m)
    BY MsgShape DEF Panics
  <2>2. \A s \in NameSet(StrVals(args, 1)) : s \notin {"UnknownRostype", "UnknownRosSubtype"}
    BY DEF PlainCall
  <2>3. CASE fn = "msgtypein"
    <3>1. Indexed(fn) = 0 /\ list = StrVals(args, 1) /\ args # <<>>
      BY <2>3 DEF Indexed, ListArg, Fold
    <3>2. list \in Seq(STRING)
      BY <1>2, <3>1, ListMeans
    <3>3. query <=> RosType(m, m.topic) \in NameSet(list)
      BY <2>3, <3>1 DEF MsgQuery, AboutMsg
    <3>4. meaning <=> \E p \in TypesIn(m, m.topic) : p[1] \in SetOf(list)
      BY <2>3, <3>1 DEF Meaning
    <3>5. \A s : s # NoName => (s \in NameSet(list) <=> s \in SetOf(list))
      BY <3>2, SetOfIs DEF SetOf
    <3> HIDE DEF list, query, meaning
    <3>6. query <=> meaning
      BY <1>8, <2>1, <2>2, <3>1, <3>2, <3>3, <3>4, <3>5, SetOfIs, TypeIs
    <3> QED
      BY <3>6 DEF query, meaning
  <2>4. CASE fn = "msgsubtype"
    <3>1. Indexed(fn) = 2
      BY <2>4 DEF Indexed
    <3>2. /\ StrVals(args, 1)[1] = args[1].StrVal /\ StrVals(args, 1)[2] = args[2].StrVal
          /\ {args[1].StrVal, args[2].StrVal} \subseteq NameSet(StrVals(args, 1))
      <4>1. \A i \in {1, 2} : /\ i \in DOMAIN StrVals(args, 1)
                              /\ StrVals(args, 1)[i] = args[i].StrVal
        BY <1>2, <3>1 DEF StrVals
      <4> QED
        BY <4>1 DEF NameSet
    <3>3. query <=> /\ RosType(m, m.topic) = args[1].StrVal
                    /\ RosSubtype(m, m.topic) = args[2].StrVal
      BY <2>4, <3>2 DEF MsgQuery, AboutMsg
    <3>4. meaning <=> \E p \in TypesIn(m, m.topic) :
                          Len(p) >= 3 /\ p[1] = args[1].StrVal /\ p[3] = args[2].StrVal
      BY <2>4 DEF Meaning
    <3>5. /\ args[1].StrVal # "UnknownRostype"
          /\ args[2].StrVal # "UnknownRosSubtype"
      BY <2>2, <3>2
    <3> HIDE DEF query, meaning
    <3>6. query <=> meaning
      <4>1. CASE /\ TypesIn(m, m.topic) = {}
                 /\ RosType(m, m.topic) = "UnknownRostype"
        BY <3>3, <3>4, <3>5, <4>1
      <4>2. ASSUME NEW p \in Seq(STRING), TypesIn(m, m.topic) = {p}, RosType(m, m.topic) = p[1],
                   RosSubtype(m, m.topic) = IF Len(p) < 3 THEN "UnknownRosSubtype" ELSE p[3]
            PROVE  query <=> meaning
        BY <3>3, <3>4, <3>5, <4>2
      <4> QED
        BY <1>8, <2>1, <4>1, <4>2, TypeIs
    <3> QED
      BY <3>6 DEF query, meaning
  <2> QED
    BY <1>8, <2>3, <2>4 DEF AboutType
<1> QED
  BY <1>1, <1>3, <1>4, <1>5, <1>6, <1>7, <1>8 DEF AboutType

\* What the compiler folds to true means so in any message.
LEMMA FoldMeans ==
    ASSUME NEW c \in Calls, NEW m, Fold(c.fn, c.args), c.fn # "subscribersinclude"
    PROVE  Meaning(c.fn, c.args, m)
<1>1. c.args = <<>>
  BY DEF Fold
<1>2. CASE c.fn \in {"publishersinclude", "nodesinclude", "topicsinclude"}
  <2>1. Indexed(c.fn) = 0
    BY <1>2 DEF Indexed
  <2>2. ListArg(c.fn, c.args) = <<>>
    BY <1>1, <2>1 DEF ListArg, StrVals
  <2>3. SetOf(<<>>) = {}
    <3>1. <<>> \in Seq(STRING) /\ isEmpty(<<>>)
      BY DEF isEmpty
    <3> QED
      BY <3>1, SetOfIs
  <2> QED
    BY <1>2, <2>2, <2>3 DEF Meaning
<1>3. CASE c.fn \in {"msgtypein", "topicin", "servicesinclude", "topicpublishersinclude",
                     "topicsubscribersinclude"}
  BY <1>1, <1>3 DEF Meaning
<1> QED
  BY <1>2, <1>3 DEF Fold

LEMMA InvInit == Init => Inv
BY DEF Init, Inv, Ran

LEMMA InvNext == Inv /\ [Next]_vars => Inv'
<1> SUFFICES ASSUME Inv, [Next]_vars PROVE Inv'
  OBVIOUS
<1>1. CASE Compile
  BY <1>1 DEF Compile, Inv, Ran
<1>2. CASE Update
  BY <1>2 DEF Update, Inv, Ran
<1>3. CASE Interp
  <2>1. answer' = "panic" => section = Picked /\ ~folded /\ Panics(call.fn, call.args, CurrentMsg)
    <3>1. answer # "panic"
      BY <1>3 DEF Interp, Inv
    <3> QED
      BY <1>3, <3>1, OutcomeIs DEF Interp
  <2>2. pc' \in {"idle", "dead"} /\ (pc' = "dead" <=> answer' = "panic") /\ Ran
    BY <1>3 DEF Interp, Ran
  <2>3. UNCHANGED <<call, section, folded, CurrentMsg, Picked>>
    BY <1>3 DEF Interp, Picked
  <2>4. answer' # "none" =>
            IF folded THEN answer' = "true" ELSE answer' \in Outcomes(call.fn, call.args, CurrentMsg)
    <3>1. answer = "none"
      BY <1>3 DEF Interp, Inv
    <3> QED
      BY <1>3, <3>1 DEF Interp
  <2> QED
    BY <2>1, <2>2, <2>3, <2>4 DEF Inv, Ran
<1>4. CASE UNCHANGED vars
  BY <1>4 DEF vars, Inv, Ran, Picked
<1> QED
  BY <1>1, <1>2, <1>3, <1>4 DEF Next

LEMMA InvPanics == Inv => PanicsAreKnown
<1> SUFFICES ASSUME Inv, answer = "panic" PROVE PanicsAreKnown
  BY DEF PanicsAreKnown
<1> DEFINE fn == call.fn
           args == call.args
           m == CurrentMsg
<1>1. fn \in Fns /\ Len(args) \in Nat /\ DOMAIN args = 1..Len(args)
  BY QueriesAssumption DEF Inv
<1>2. /\ TypeCheck(fn, TypesOf(args), section) /\ ~Fold(fn, args)
      /\ section = Picked /\ Panics(fn, args, m)
  BY DEF Inv, Ran
<1>3. ArityOk(fn, Len(args))
  <2>1. Len(TypesOf(args)) = Len(args)
    BY <1>1 DEF TypesOf
  <2> QED
    BY <1>2, <2>1 DEF TypeCheck
<1>4. CASE NoIndex(fn, args)
  <2>1. Len(args) < Indexed(fn)
    BY <1>4 DEF NoIndex
  <2>2. \/ fn \in {"service", "servicecount"}
        \/ fn \in {"services", "servicesinclude"} /\ Len(args) = 0
    BY <1>1, <1>3, <2>1, ArityIndex
  <2>3. Len(args) = 0 => args = <<>>
    BY QueriesAssumption DEF Inv
  <2> QED
    BY <1>2, <2>2, <2>3 DEF Fold, PanicsAreKnown
<1>5. CASE NoMsg(fn, args, m)
  BY <1>2, <1>5 DEF NoMsg, Picked, PanicsAreKnown
<1>6. CASE m # Nil /\ NoNode(fn, args, m)
  <2>1. m \in Msgs
    BY <1>6 DEF Inv
  <2>2. DOMAIN m.nodes \subseteq Nat /\ \A i \in DOMAIN m.nodes : m.nodes[i] # Nil
    BY <2>1, MsgShape DEF NodeOk
  <2>3. First(m.nodes, args[1].StrVal) = Nil
    BY <1>6 DEF NoNode, RosNode
  <2>4. \A i \in DOMAIN m.nodes : m.nodes[i].name # args[1].StrVal
    BY <2>2, <2>3, FirstIsOne
  <2> QED
    BY <1>6, <2>4 DEF NoNode, AboutNode, PanicsAreKnown
<1>7. CASE m # Nil /\ NoParam(fn, m)
  <2>1. m \in Msgs
    BY <1>7 DEF Inv
  <2>2. DOMAIN m.topics \subseteq Nat /\ \A i \in DOMAIN m.topics : m.topics[i] # Nil
    BY <2>1, MsgShape DEF TopicOk
  <2>3. First(m.topics, m.topic) # Nil /\ First(m.topics, m.topic).params = <<>>
    BY <1>7 DEF NoParam, rostopic
  <2>4. \E i \in DOMAIN m.topics : m.topics[i].name = m.topic /\ m.topics[i].params = <<>>
    BY <2>2, <2>3, FirstIsOne
  <2> QED
    BY <1>7, <2>4 DEF NoParam, PanicsAreKnown
<1> QED
  BY <1>2, <1>4, <1>5, <1>6, <1>7 DEF Panics

LEMMA InvAnswers == Inv => AnswersAsMeant
<1> SUFFICES ASSUME Inv, answer \in {"true", "false"},
                    call.fn \notin Opaque \cup {"subscribersinclude"}, CurrentMsg # Nil,
                    PlainMsg(CurrentMsg), PlainCall(call.fn, call.args),
                    Indexed(call.fn) > 1 => \A s \in ListsOf(CurrentMsg) : Countable(s)
             PROVE  answer = IF Meaning(call.fn, call.args, CurrentMsg) THEN "true" ELSE "false"
  BY DEF AnswersAsMeant
<1> DEFINE fn == call.fn
           args == call.args
           m == CurrentMsg
<1>1. /\ call \in Calls /\ m \in Msgs /\ fn \in Fns /\ Len(args) \in Nat /\ DOMAIN args = 1..Len(args)
      /\ TypeCheck(fn, TypesOf(args), section) /\ folded = Fold(fn, args)
  BY QueriesAssumption DEF Inv, Ran
<1>2. CASE Fold(fn, args)
  <2>1. Meaning(fn, args, m)
    BY <1>1, <1>2, FoldMeans
  <2>2. answer = "true"
    BY <1>1, <1>2 DEF Inv
  <2> QED
    BY <2>1, <2>2
<1>3. CASE ~Fold(fn, args)
  <2>1. answer \in Outcomes(fn, args, m)
    BY <1>1, <1>3 DEF Inv
  <2>2. ~Panics(fn, args, m)
    BY <2>1, OutcomeIs
  <2>3. fn \notin {"service", "servicecount"}
    <3>1. ArityOk(fn, Len(args))
      <4>1. Len(TypesOf(args)) = Len(args)
        BY <1>1 DEF TypesOf
      <4> QED
        BY <1>1, <4>1 DEF TypeCheck
    <3> QED
      BY <1>1, <2>2, <3>1, ServiceShort DEF Panics, NoIndex
  <2> DEFINE query == IF fn \in AboutMsg THEN MsgQuery(fn, args, m) ELSE GraphQuery(fn, args, m)
  <2>4. answer = IF query THEN "true" ELSE "false"
    BY <2>1, OutcomeIs
  <2>5. query <=> Meaning(fn, args, m)
    BY <1>1, <1>3, <2>2, <2>3, QueryMeans
  <2> QED
    BY <2>4, <2>5
<1> QED
  BY <1>2, <1>3

\* Whatever the calls and the messages, an expression that the compiler accepts
\* ends the process only as PanicsAreKnown lists, and otherwise answers what it
\* means of the sets of names in the message.
THEOREM QueriesSafe == Spec => [](PanicsAreKnown /\ AnswersAsMeant)
<1>1. Init => Inv
  BY InvInit
<1>2. Inv /\ [Next]_vars => Inv'
  BY InvNext
<1>3. Inv => PanicsAreKnown /\ AnswersAsMeant
  BY InvPanics, InvAnswers
<1> QED
  BY <1>1, <1>2, <1>3, PTL DEF Spec
=============================================================================
