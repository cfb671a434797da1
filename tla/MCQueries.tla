----------------------------- MODULE MCQueries -----------------------------
(***************************************************************************)
(* Every builtin with up to two arguments of either type (three for counts), *)
(* and messages with no, one or two topics and nodes.                        *)
(***************************************************************************)
EXTENDS Queries

Str(s) == [type |-> "string", StrVal |-> s, IntVal |-> 0]
IntLit(n) == [type |-> "int", StrVal |-> "", IntVal |-> n]
Lits == {Str(s) : s \in {"", "a", "b"}} \cup {IntLit(n) : n \in 0..2}

MCCalls ==
    [fn : Fns, args : UNION {[1..n -> Lits] : n \in 0..2}]
    \cup [fn : {f \in Fns : Indexed(f) = 3},
          args : {<<Str(s), IntLit(m), IntLit(n)>> : s \in {"a", "b"}, m \in 0..2, n \in 0..2}]
    \cup [fn : {"service", "services", "topicsubscribersinclude"},
          args : {<<Str("a"), Str("b"), Str("a")>>}]

Lists == {<<>>, <<"">>, <<"a">>, <<"b", "a">>, <<"b", "a", "b">>}
Params == {Nil, <<>>, <<<<"a">>>>, <<<<"a", "msg", "b">>>>}
Topic(name, params, pubs, subs) ==
    [name |-> name, params |-> params, publishers |-> pubs, subscribers |-> subs]

OneTopic ==
    {[topics |-> <<Topic("a", p, l, k)>>, nodes |-> <<>>] : p \in Params, l \in Lists, k \in Lists}
Small ==
    {[topics |-> t, nodes |-> n] :
        t \in {<<>>, <<Topic("b", <<<<"b", "msg", "a">>>>, <<"b">>, <<"a">>),
                       Topic("a", Nil, <<"a", "b">>, <<"b">>)>>},
        n \in {<<>>, <<[name |-> "a", services |-> <<>>]>>,
               <<[name |-> "b", services |-> <<"a">>], [name |-> "a", services |-> <<"b", "a">>]>>}}
Empty == [topics |-> <<>>, nodes |-> <<>>]

Message(e, t, d, g) ==
    [event |-> e, topic |-> t, decodes |-> d, topics |-> g.topics, nodes |-> g.nodes]

MCMsgs ==
    {Message("message", "a", TRUE, g) : g \in OneTopic}
    \cup {Message(e, t, TRUE, g) : e \in {"graph", "message"}, t \in {"a", "b"}, g \in Small}
    \cup {Message(e, "a", FALSE, Empty) : e \in {"graph", "message", "other"}}
=============================================================================
