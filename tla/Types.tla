------------------------------- MODULE Types -------------------------------
(***************************************************************************)
(* The types of the rule language (types/type.go), the builtin expressions  *)
(* with their types (the table of tree/builtins.go) and what the compiler    *)
(* checks of a call of one in a section of rules (tree/type.go).             *)
(*                                                                          *)
(* A type is a pair: that of the value, and the kind of message it needs.    *)
(***************************************************************************)
EXTENDS Integers, Sequences

TypeVals == {"undef", "univ", "int", "float", "bool", "string"}
TypeExprs == {"eundef", "eexpr", "eexternal", "emsg", "egraph", "emsggraph"}
Types == TypeVals \X TypeExprs

IsTypeValCompat(v, w) == v = w \/ {v, w} \cap {"undef", "univ"} # {}

IsTypeExprCompatSpecial(e, f) == e = "emsggraph" /\ f \in {"emsg", "egraph"}

IsTypeExprCompat(e, f) ==
    \/ e = f
    \/ {e, f} \cap {"eundef", "eexpr"} # {}
    \/ IsTypeExprCompatSpecial(e, f)
    \/ IsTypeExprCompatSpecial(f, e)

IsTypeCompat(t, u) == IsTypeValCompat(t[1], u[1]) /\ IsTypeExprCompat(t[2], u[2])

IsTypeUndef(t) == t[1] = "undef" \/ t[2] = "eundef"
-----------------------------------------------------------------------------
(* The builtins.  All are of a type that suits any section.                 *)

Universal(tval) == <<tval, "eexpr">>

Fixed(argTypes) == [args |-> argTypes, variadic |-> FALSE]
Variadic(argTypes) == [args |-> argTypes, variadic |-> TRUE]

MsgStr == <<"string", "emsg">>
MsgInt == <<"int", "emsg">>
GraphStr == <<"string", "egraph">>
GraphInt == <<"int", "egraph">>
ExternalStr == <<"string", "eexternal">>

Builtins ==
    [msgsubtype              |-> Fixed(<<MsgStr, MsgStr>>),
     msgtypein               |-> Variadic(<<MsgStr>>),
     payload                 |-> Fixed(<<MsgStr>>),
     plugin                  |-> Fixed(<<MsgStr>>),
     publishercount          |-> Fixed(<<MsgInt, MsgInt>>),
     publishers              |-> Variadic(<<MsgStr>>),
     publishersinclude       |-> Variadic(<<MsgStr>>),
     subscribercount         |-> Fixed(<<MsgInt, MsgInt>>),
     subscribers             |-> Variadic(<<MsgStr>>),
     subscribersinclude      |-> Variadic(<<MsgStr>>),
     topicin                 |-> Variadic(<<MsgStr>>),
     topicmatches            |-> Fixed(<<MsgStr>>),
     nodecount               |-> Fixed(<<GraphInt, GraphInt>>),
     nodes                   |-> Variadic(<<GraphStr>>),
     nodesinclude            |-> Variadic(<<GraphStr>>),
     service                 |-> Fixed(<<GraphStr>>),
     servicecount            |-> Fixed(<<GraphInt, GraphInt>>),
     services                |-> Variadic(<<GraphStr>>),
     servicesinclude         |-> Variadic(<<GraphStr>>),
     topiccount              |-> Fixed(<<GraphInt, GraphInt>>),
     topicpublishercount     |-> Fixed(<<GraphStr, GraphInt, GraphInt>>),
     topicpublishers         |-> Variadic(<<GraphStr, GraphStr>>),
     topicpublishersinclude  |-> Variadic(<<GraphStr, GraphStr>>),
     topics                  |-> Variadic(<<GraphStr>>),
     topicsinclude           |-> Variadic(<<GraphStr>>),
     topicsubscribercount    |-> Fixed(<<GraphStr, GraphInt, GraphInt>>),
     topicsubscribers        |-> Fixed(<<GraphStr, GraphStr>>),
     topicsubscribersinclude |-> Variadic(<<GraphStr, GraphStr>>),
     signal                  |-> Fixed(<<ExternalStr>>),
     idsalert                |-> Fixed(<<ExternalStr>>)]

Fns == DOMAIN Builtins
RetType == Universal("bool")
-----------------------------------------------------------------------------
(* A call has the name of a builtin and the types of its arguments.          *)

Sections == {"Msg", "Graph", "MsgGraph", "External", "Message", "Other"}

\* "Message" is given a type, but is not a name of one: an error all the same.
TypeExprFromName(name) ==
    CASE name = "Msg"                    -> "emsg"
      [] name = "Graph"                  -> "egraph"
      [] name \in {"MsgGraph", "Message"} -> "emsggraph"
      [] name = "External"               -> "eexternal"
      [] OTHER                           -> "eundef"

IsSection(name) == name \in {"Msg", "Graph", "MsgGraph", "External"}

ArityOk(fn, n) ==
    IF Builtins[fn].variadic THEN n >= Len(Builtins[fn].args) - 1
                             ELSE n = Len(Builtins[fn].args)

\* The last type of a variadic function is that of all arguments from there on.
ArgType(fn, i) ==
    IF i > Len(Builtins[fn].args) THEN Builtins[fn].args[Len(Builtins[fn].args)]
                                  ELSE Builtins[fn].args[i]

ArgFits(fn, types, i) == IsTypeCompat(types[i], ArgType(fn, i))

\* What annotation leaves in the argument, and in the call.
AnnotatedArg(fn, types, i) ==
    IF ArgFits(fn, types, i) THEN types[i] ELSE <<types[i][1], "eundef">>

Annotate(fn, types) ==
    IF /\ ArityOk(fn, Len(types))
       /\ \A i \in DOMAIN types : ArgFits(fn, types, i)
    THEN RetType ELSE <<RetType[1], "eundef">>

\* In a section, the call is accepted.
TypeCheck(fn, types, name) ==
    LET t == <<"univ", TypeExprFromName(name)>>
    IN  /\ IsSection(name)
        /\ ArityOk(fn, Len(types))
        /\ \A i \in DOMAIN types :
               LET arg == AnnotatedArg(fn, types, i)
               IN  ~IsTypeUndef(arg) /\ IsTypeCompat(t, arg)
        /\ LET call == Annotate(fn, types)
           IN  ~IsTypeUndef(call) /\ IsTypeCompat(t, call)
=============================================================================
