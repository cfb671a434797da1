------------------------------- MODULE Queries -------------------------------
(***************************************************************************)
(* A rule that asks about the message or the graph of ROS, from the          *)
(* compiler (module Types; the folding of tree/const.go) to its evaluation    *)
(* in the section of each message and poll (tree/interp.go, extern/expr.go,   *)
(* extern/context.go, extern/msg.go).                                        *)
(*                                                                          *)
(* The expression of the rule is one call of a builtin with literals.  The    *)
(* arguments are as in the code: a symbol has a string and an integer, of     *)
(* which the type says the one that counts.  The other answer of a function   *)
(* is "panic": nothing recovers from it in an iteration of the event loop.    *)
(***************************************************************************)
EXTENDS Types, FiniteSets

CONSTANTS Calls,      \* the expressions: [fn, args]
          Msgs,       \* the messages that the monitor may send
          Nil

\* A topic has its parameters, each in fields, and two lists; a node has one.
TopicOk(t) ==
    /\ t # Nil /\ t.name \in STRING
    /\ t.params = Nil \/ t.params \in Seq(Seq(STRING))
    /\ t.publishers \in Seq(STRING) /\ t.subscribers \in Seq(STRING)
NodeOk(n) == n # Nil /\ n.name \in STRING /\ n.services \in Seq(STRING)

ASSUME QueriesAssumption ==
    /\ \A c \in Calls : c.fn \in Fns /\ c.args \in Seq([type : {"string", "int"},
                                                         StrVal : STRING, IntVal : Int])
    /\ Nil \notin Msgs
    /\ \A m \in Msgs :
           /\ DOMAIN m.topics = 1..Len(m.topics) /\ Len(m.topics) \in Nat
           /\ DOMAIN m.nodes = 1..Len(m.nodes) /\ Len(m.nodes) \in Nat
           /\ \A i \in DOMAIN m.topics : TopicOk(m.topics[i])
           /\ \A i \in DOMAIN m.nodes : NodeOk(m.nodes[i])

VARIABLES call,       \* the expression of the rule
          section,    \* the name of the section it is in
          pc,         \* "compile", "refused"; "idle", "run", "dead": between and in iterations
          folded,     \* the compiler has put true in its place
          CurrentMsg, \* of the context
          answer      \* of the rule in this iteration, "none" if it is not evaluated

vars == <<call, section, pc, folded, CurrentMsg, answer>>

NameSet(s) == {s[i] : i \in DOMAIN s}
NoName == ""   \* a list of it alone is what the decoder makes of an empty one
-----------------------------------------------------------------------------
(* The context of the message: a sequence of topics and one of nodes.        *)

Named(s, name) == {i \in DOMAIN s : s[i].name = name}

\* The first of that name, if there is one.
First(s, name) ==
    IF Named(s, name) = {} THEN Nil
    ELSE s[CHOOSE i \in Named(s, name) : \A j \in Named(s, name) : i <= j]

rostopic(m, topic) == First(m.topics, topic)
RosNode(m, node) == First(m.nodes, node)

Names(s) == [i \in DOMAIN s |-> s[i].name]

PublishersOf(m, topic) ==
    LET t == rostopic(m, topic) IN IF t = Nil THEN <<>> ELSE t.publishers
SubscribersOf(m, topic) ==
    LET t == rostopic(m, topic) IN IF t = Nil THEN <<>> ELSE t.subscribers

\* The first parameter of a topic, in fields: its type, and two more with a
\* subtype.  params is the sequence of parameters, Nil if there is none.
RosType(m, topic) ==
    LET t == rostopic(m, topic)
    IN  IF t = Nil \/ t.params = Nil THEN "UnknownRostype" ELSE t.params[1][1]
RosSubtype(m, topic) ==
    LET t == rostopic(m, topic)
    IN  CASE t = Nil \/ t.params = Nil -> "UnknownRosSubtype"
          [] Len(t.params[1]) < 3      -> "UnknownRosSubtype"
          [] OTHER                     -> t.params[1][3]
-----------------------------------------------------------------------------
(* The queries.                                                             *)

isEmpty(s) == Len(s) = 0 \/ (Len(s) = 1 /\ s[1] = NoName)
matchSubset(s, subset) == isEmpty(subset) \/ NameSet(subset) \subseteq NameSet(s)
matchAll(s, t) == matchSubset(s, t) /\ matchSubset(t, s)

Within(s, lo, hi) == lo.IntVal <= Len(s) /\ Len(s) <= hi.IntVal

StrVals(args, from) == [i \in 1..(Len(args) + 1 - from) |-> args[from + i - 1].StrVal]

\* How many arguments the function takes by their index.
Indexed(fn) ==
    CASE fn \in {"msgtypein", "publishers", "publishersinclude", "subscribers",
                 "subscribersinclude", "topicin", "nodes", "nodesinclude",
                 "topics", "topicsinclude"} -> 0
      [] fn \in {"servicecount", "topicpublishercount", "topicsubscribercount"} -> 3
      [] fn \in {"msgsubtype", "publishercount", "subscribercount", "nodecount",
                 "service", "topiccount"} -> 2
      [] OTHER -> 1

AboutNode == {"service", "servicecount", "services", "servicesinclude"}
AboutType == {"msgsubtype", "msgtypein"}
External == {"signal", "idsalert"}

NoIndex(fn, args) == Len(args) < Indexed(fn)
NoMsg(fn, args, m) == m = Nil /\ fn \notin External /\ ~(fn = "topicin" /\ args = <<>>)
NoNode(fn, args, m) == fn \in AboutNode /\ RosNode(m, args[1].StrVal) = Nil

NoParamAtAll(fn, m) ==   \* mutant: nor is there one if the topic is unknown
    fn \in AboutType /\ LET t == rostopic(m, m.topic) IN t = Nil \/ t.params = <<>>

NoParam(fn, m) ==
    fn \in AboutType /\ LET t == rostopic(m, m.topic) IN t # Nil /\ t.params = <<>>

\* An index out of range or a nil pointer, in the order they are met.
Panics(fn, args, m) ==
    \/ NoIndex(fn, args)
    \/ NoMsg(fn, args, m)
    \/ m # Nil /\ (NoNode(fn, args, m) \/ NoParam(fn, m))

\* What is outside decides: the plugin, the rules of yara, the regular
\* expression, the signals and the logs.
Opaque == {"payload", "plugin", "topicmatches"} \cup External
OpaqueAnswers(fn, m) ==
    CASE fn = "payload" /\ ~m.decodes -> {TRUE}
      [] fn = "plugin" /\ ~m.decodes  -> {FALSE}
      [] OTHER                        -> BOOLEAN

Subscribersinclude(s, contextsubs) == matchSubset(s, contextsubs)
PublishersincludeSwapped(s, contextpubs) ==   \* mutant: as subscribersinclude is
    matchSubset(s, contextpubs)
Publishersinclude(s, contextpubs) == matchSubset(contextpubs, s)

MsgQuery(fn, args, m) ==
    LET strs == StrVals(args, 1)
        pubs == PublishersOf(m, m.topic)
        subs == SubscribersOf(m, m.topic)
    IN  CASE fn = "msgsubtype"         -> /\ RosType(m, m.topic) = strs[1]
                                          /\ RosSubtype(m, m.topic) = strs[2]
          [] fn = "msgtypein"          -> args = <<>> \/ RosType(m, m.topic) \in NameSet(strs)
          [] fn = "publishercount"     -> Within(pubs, args[1], args[2])
          [] fn = "publishers"         -> matchAll(strs, pubs)
          [] fn = "publishersinclude"  -> Publishersinclude(strs, pubs)
          [] fn = "subscribercount"    -> Within(subs, args[1], args[2])
          [] fn = "subscribers"        -> matchAll(strs, subs)
          [] fn = "subscribersinclude" -> Subscribersinclude(strs, subs)
          [] fn = "topicin"            -> m.topic \in NameSet(strs)

GraphQuery(fn, args, m) ==
    LET strs == StrVals(args, 1)
        rest == StrVals(args, 2)
        services == RosNode(m, args[1].StrVal).services
        pubs == PublishersOf(m, args[1].StrVal)
        subs == SubscribersOf(m, args[1].StrVal)
    IN  CASE fn = "nodecount"               -> Within(m.nodes, args[1], args[2])
          [] fn = "nodes"                   -> matchAll(strs, Names(m.nodes))
          [] fn = "nodesinclude"            -> matchSubset(Names(m.nodes), strs)
          [] fn = "service"                 -> args[2].StrVal \in NameSet(services)
          [] fn = "servicecount"            -> Within(services, args[2], args[3])
          [] fn = "services"                -> matchAll(rest, services)
          [] fn = "servicesinclude"         -> matchSubset(services, rest)
          [] fn = "topiccount"              -> Within(m.topics, args[1], args[2])
          [] fn = "topics"                  -> matchAll(strs, Names(m.topics))
          [] fn = "topicsinclude"           -> matchSubset(Names(m.topics), strs)
          [] fn = "topicpublishercount"     -> Within(pubs, args[2], args[3])
          [] fn = "topicpublishers"         -> matchAll(rest, pubs)
          [] fn = "topicpublishersinclude"  -> matchSubset(pubs, rest)
          [] fn = "topicsubscribercount"    -> Within(subs, args[2], args[3])
          [] fn = "topicsubscribers"        -> matchAll(rest, subs)
          [] fn = "topicsubscribersinclude" -> matchSubset(subs, rest)

AboutMsg == {"msgsubtype", "msgtypein", "publishercount", "publishers",
             "publishersinclude", "subscribercount", "subscribers",
             "subscribersinclude", "topicin"}

Outcomes(fn, args, m) ==
    IF Panics(fn, args, m) THEN {"panic"}
    ELSE {IF b THEN "true" ELSE "false" :
             b \in CASE fn \in Opaque   -> OpaqueAnswers(fn, m)
                    [] fn \in AboutMsg -> {MsgQuery(fn, args, m)}
                    [] OTHER           -> {GraphQuery(fn, args, m)}}
-----------------------------------------------------------------------------
(* Compilation and iterations.                                              *)

Init ==
    /\ call \in Calls /\ section \in Sections
    /\ pc = "compile" /\ folded = FALSE
    /\ CurrentMsg = Nil /\ answer = "none"

TypesOf(args) == [i \in DOMAIN args |-> Universal(args[i].type)]

\* A set that includes nothing, or something in no set: folded to true.
Fold(fn, args) ==
    /\ args = <<>>
    /\ fn \in {"msgtypein", "publishersinclude", "subscribersinclude", "topicin",
               "nodesinclude", "servicesinclude", "topicsinclude",
               "topicpublishersinclude", "topicsubscribersinclude"}

\* Those of a file or of a pattern are refused too if it cannot be used.
Checked == {"payload", "plugin", "topicmatches"}

Compile ==
    /\ pc = "compile"
    /\ \/ /\ TypeCheck(call.fn, TypesOf(call.args), section)
          /\ pc' = "idle" /\ folded' = Fold(call.fn, call.args)
       \/ /\ TypeCheck(call.fn, TypesOf(call.args), section) => call.fn \in Checked
          /\ pc' = "refused" /\ UNCHANGED folded
    /\ UNCHANGED <<call, section, CurrentMsg, answer>>

\* The dispatcher starts an iteration, with a message or, in a poll, with none.
Update ==
    /\ pc = "idle"
    /\ CurrentMsg' \in Msgs \cup {Nil}
    /\ pc' = "run" /\ answer' = "none"
    /\ UNCHANGED <<call, section, folded>>

MsgType(m) == CASE m.event = "graph"   -> "Graph"
                [] m.event = "message" -> "Msg"
                [] OTHER               -> "Unknown"

\* The section whose rules are run.
Picked == IF CurrentMsg = Nil THEN "External" ELSE MsgType(CurrentMsg)

Interp ==
    /\ pc = "run"
    /\ IF section # Picked THEN UNCHANGED answer
       ELSE IF folded THEN answer' = "true"
       ELSE answer' \in Outcomes(call.fn, call.args, CurrentMsg)
    /\ pc' = IF answer' = "panic" THEN "dead" ELSE "idle"
    /\ UNCHANGED <<call, section, folded, CurrentMsg>>

Next == Compile \/ Update \/ Interp
Spec == Init /\ [][Next]_vars
-----------------------------------------------------------------------------
(* Properties.                                                              *)

\* An expression that the compiler accepts ends the process only for one of
\* these: service and servicecount, declared with an argument less than they
\* take; services with no node; a node that is not there; a topic whose list of
\* types is empty; and, in a poll, any that asks about a message or its graph.
\* Every other fault in an argument has been refused or folded.
PanicsAreKnown ==
    answer = "panic" =>
        \/ call.fn \in {"service", "servicecount"}
        \/ call.fn = "services" /\ call.args = <<>>
        \/ section = "External" /\ call.fn \notin External
        \/ /\ call.fn \in {"services", "servicesinclude"}
           /\ \A i \in DOMAIN CurrentMsg.nodes :
                  CurrentMsg.nodes[i].name # call.args[1].StrVal
        \/ /\ call.fn \in AboutType
           /\ \E i \in DOMAIN CurrentMsg.topics :
                  CurrentMsg.topics[i].name = CurrentMsg.topic /\ CurrentMsg.topics[i].params = <<>>

\* What a query means, of the sets of names in the graph and in the call.
SetOf(s) == IF s = <<NoName>> THEN {} ELSE NameSet(s)
PubsIn(m, topic) == UNION {SetOf(t.publishers) : t \in {u \in NameSet(m.topics) : u.name = topic}}
SubsIn(m, topic) == UNION {SetOf(t.subscribers) : t \in {u \in NameSet(m.topics) : u.name = topic}}
ServicesIn(m, node) == UNION {SetOf(n.services) : n \in {u \in NameSet(m.nodes) : u.name = node}}
TypesIn(m, topic) ==
    {t.params[1] : t \in {u \in NameSet(m.topics) : u.name = topic /\ u.params \notin {Nil, <<>>}}}
NodesIn(m) == NameSet(Names(m.nodes))
TopicsIn(m) == NameSet(Names(m.topics))

\* The names that a call lists, after the arguments taken by their index.
ListArg(fn, args) == StrVals(args, Indexed(fn) + 1)

Counts(set, lo, hi) == Cardinality(set) \in lo.IntVal..hi.IntVal

Meaning(fn, args, m) ==
    LET said == SetOf(ListArg(fn, args))
        of == args[1].StrVal
    IN  CASE fn = "msgsubtype"              -> \E p \in TypesIn(m, m.topic) :
                                                   Len(p) >= 3 /\ <<p[1], p[3]>> = <<of, args[2].StrVal>>
          [] fn = "msgtypein"               -> args = <<>> \/ \E p \in TypesIn(m, m.topic) : p[1] \in said
          [] fn = "publishercount"          -> Counts(PubsIn(m, m.topic), args[1], args[2])
          [] fn = "publishers"              -> said = PubsIn(m, m.topic)
          [] fn = "publishersinclude"       -> said \subseteq PubsIn(m, m.topic)
          [] fn = "subscribercount"         -> Counts(SubsIn(m, m.topic), args[1], args[2])
          [] fn = "subscribers"             -> said = SubsIn(m, m.topic)
          [] fn = "subscribersinclude"      -> said \subseteq SubsIn(m, m.topic)
          [] fn = "topicin"                 -> args = <<>> \/ m.topic \in said
          [] fn = "nodecount"               -> Counts(NodesIn(m), args[1], args[2])
          [] fn = "nodes"                   -> said = NodesIn(m)
          [] fn = "nodesinclude"            -> said \subseteq NodesIn(m)
          [] fn = "services"                -> said = ServicesIn(m, of)
          [] fn = "servicesinclude"         -> args = <<>> \/ said \subseteq ServicesIn(m, of)
          [] fn = "topiccount"              -> Counts(TopicsIn(m), args[1], args[2])
          [] fn = "topics"                  -> said = TopicsIn(m)
          [] fn = "topicsinclude"           -> said \subseteq TopicsIn(m)
          [] fn = "topicpublishercount"     -> Counts(PubsIn(m, of), args[2], args[3])
          [] fn = "topicpublishers"         -> said = PubsIn(m, of)
          [] fn = "topicpublishersinclude"  -> args = <<>> \/ said \subseteq PubsIn(m, of)
          [] fn = "topicsubscribercount"    -> Counts(SubsIn(m, of), args[2], args[3])
          [] fn = "topicsubscribers"        -> said = SubsIn(m, of)
          [] fn = "topicsubscribersinclude" -> args = <<>> \/ said \subseteq SubsIn(m, of)

\* What the answers rely on.  The graph has one topic and one node of a name,
\* and no name is empty; a list is not of empty names alone, unless it is the
\* one that stands for none; and no type is asked for by the name of the unknown.
OneOfAName(s) == \A i, j \in DOMAIN s : s[i].name = s[j].name => i = j
TellsNames(s) == NameSet(s) = {NoName} => s = <<NoName>>
ListsOf(m) ==
    {t.publishers : t \in NameSet(m.topics)} \cup {t.subscribers : t \in NameSet(m.topics)}
    \cup {n.services : n \in NameSet(m.nodes)}

PlainMsg(m) ==
    /\ OneOfAName(m.topics) /\ OneOfAName(m.nodes)
    /\ NoName \notin {m.topic} \cup TopicsIn(m) \cup NodesIn(m) \cup {p[1] : p \in TypesIn(m, m.topic)}
    /\ \A s \in ListsOf(m) : TellsNames(s)
PlainCall(fn, args) ==
    /\ TellsNames(ListArg(fn, args))
    /\ {"UnknownRostype", "UnknownRosSubtype"} \cap NameSet(StrVals(args, 1)) = {}

\* A list whose length is the number of its names: a list may repeat one, and
\* the one that stands for none has one.
Countable(s) == s # <<NoName>> /\ \A i, j \in DOMAIN s : s[i] = s[j] => i = j

\* A query answers what it means, of sets, whatever the order of the names and
\* however many times a list has them, also when it has been folded; but for
\* subscribersinclude, which asks the opposite (whether all subscribers are
\* named), and for counts, of what is not Countable.
AnswersAsMeant ==
    /\ answer \in {"true", "false"}
    /\ call.fn \notin Opaque \cup {"subscribersinclude"}
    /\ CurrentMsg # Nil
    /\ PlainMsg(CurrentMsg) /\ PlainCall(call.fn, call.args)
    /\ Indexed(call.fn) > 1 => \A s \in ListsOf(CurrentMsg) : Countable(s)
    => answer = IF Meaning(call.fn, call.args, CurrentMsg) THEN "true" ELSE "false"
=============================================================================
