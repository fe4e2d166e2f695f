----------------------------- MODULE MCLowering ------------------------------
(***************************************************************************)
(* Instances of Lowering: every import graph of three modules with sound   *)
(* and unsound texts and no declarations, and one graph (`a` imports `b`   *)
(* and `c`, below a composition or not) with the declarations of four      *)
(* families: names that repeat, slots that are set, relations that are     *)
(* named from other modules, and names that other records take.            *)
(***************************************************************************)
EXTENDS Lowering

CONSTANTS a, b, c, composed

MCModules == {a, b, c}
Lists == {<<>>} \cup {<<x>> : x \in MCModules} \cup {<<x, y>> : x, y \in MCModules}
ShortLists == {<<>>} \cup {<<x>> : x \in MCModules \cup {Unresolved}}

Nothing == [m \in MCModules \cup {composed} |-> <<>>]
Listing(root, lists, others, texts) ==
    [root : {root}, a : lists, b : lists, c : lists, program : others, text : texts,
     declares : {Nothing}]

Sound == {[m \in MCModules |-> "atomic"]}
AnyText == [MCModules -> Texts]

ImportGraphs ==
    Listing(a, Lists, {<<>>}, Sound) \cup Listing(a, ShortLists, {<<>>}, AnyText)
    \cup Listing(composed, Lists, {<<x, y>> : x, y \in MCModules}, Sound)
    \cup Listing(composed, ShortLists, {<<a>>, <<b, a>>, <<Unresolved>>}, AnyText)

-----------------------------------------------------------------------------
(* Declarations. `a` imports `b` and `c`; a composition may stand above it.*)
Parameter(n, vs) == [kind |-> "parameter", name |-> n, table |-> FALSE,
                     index |-> None, unit |-> None, versions |-> vs]
Table(n, vs) == [Parameter(n, vs) EXCEPT !.table = TRUE, !.index = "size"]
InUnit(d, u) == [d EXCEPT !.unit = u]
Rule(n, e, body) == [kind |-> "rule", name |-> n, entity |-> e, unit |-> None, body |-> body]
Data(n, k) == [kind |-> "relation", name |-> n, arity |-> k] @@ Underived
Filtering(n, from, pred, e, member) ==
    [kind |-> "relation", name |-> n, arity |-> 2, sources |-> <<from>>,
     predicate |-> pred, entity |-> e, alias |-> member]
Sets(n, target, value) == [kind |-> "sets", name |-> n, target |-> target, value |-> value]
Cites(n) == [kind |-> "cites", name |-> n]
Ref(form, n, reads) == [form |-> form, relation |-> n, reads |-> reads]

From(x, y, v) == [from |-> x, to |-> y, value |-> v]
Histories ==
    {{From(1, Open, 5)}, {From(1, 2, 5)}, {From(2, 3, 5)}, {From(2, 3, 7)},
     {From(3, Open, 7)}, {From(1, 2, 5), From(3, Open, 7)},
     {From(1, Open, 5), From(3, Open, 7)}, {From(3, 2, 5)},
     {From(1, 2, 5), From(2, Open, 7)}}

Closure(top, x, y, z, w) ==
    [root |-> top, a |-> <<b, c>>, b |-> <<>>, c |-> <<>>, program |-> <<a>>,
     text |-> [m \in MCModules |-> "atomic"],
     declares |-> [m \in MCModules \cup {composed} |->
                     IF m = a THEN x ELSE IF m = b THEN y ELSE IF m = c THEN z ELSE w]]

(* One parameter in two modules, scalars and tables, units, a reserved     *)
(* name, a name of two kinds.                                              *)
Repeating ==
    {Closure(a, <<p>>, <<q>>, <<>>, <<>>) :
        p \in {Parameter("p", v) : v \in Histories} \cup {Table("p", {From(1, 2, 5)})}
                \cup {InUnit(Parameter("p", {From(1, 2, 5)}), "usd"),
                      Parameter("anchor", {From(1, 2, 5)}), Rule("p", "Person", <<>>)},
        q \in {Parameter("p", v) : v \in Histories} \cup {Table("p", {From(2, Open, 5)})}}

(* Two records that set slots of `b`, in every order and of every end.     *)
Slots == {<<b, "p">>, <<b, "q">>}
Values == {<<a, "r">>, <<b, "p">>, <<c, "none">>}
Delegating ==
    {Closure(a, <<Sets(s, t, v), InUnit(Parameter("r", {From(2, Open, 9)}), u)>>,
           <<InUnit(Parameter("p", {From(1, Open, 5)}), "usd"),
             Parameter("q", {From(1, 2, 7)}), Sets("s2", t2, v2)>>, <<>>, <<>>) :
        s \in {"s1", "p", "r"}, t \in Slots \cup {<<c, "gone">>}, v \in Values,
        t2 \in Slots, v2 \in Values, u \in {None, "usd", "gbp"}}

(* A relation declared by any of the modules, named in every form by rules *)
(* and predicates of others, and formulas set from one module to another.  *)
Relating ==
    {Closure(top,
           (IF "a" \in where THEN <<Data("r", 2)>> ELSE <<>>)
               \o <<Rule("f", "Family", body), Sets("s", t, v)>>,
           (IF "b" \in where THEN <<Data("r", k)>> ELSE <<>>)
               \o <<Rule("h", "Family", <<Ref("aggregate", <<"r">>, {})>>)>>,
           (IF "c" \in where THEN <<Data("r", 2)>> ELSE <<>>)
               \o <<Rule("g", "Person", <<>>),
                    Filtering("d", <<"r">>, <<Ref(form, <<"r">>, {})>>, "Family", "m")>>,
           <<Data("r", 2), Rule("k", "Household", <<Ref("aggregate", <<"r">>, {"g"})>>)>>) :
        top \in {a, composed}, where \in SUBSET {"a", "b", "c"}, k \in {2, 3},
        body \in {<<Ref("aggregate", <<"r">>, {})>>, <<Ref("aggregate", <<"r">>, {"g"})>>,
                  <<Ref("only", <<"r">>, {})>>,
                  <<Ref("aggregate", <<"m">>, {}), Ref("aggregate", <<c, "r">>, {})>>},
        form \in {"atom", "member"},
        t \in {<<b, "h">>, <<a, "f">>}, v \in {<<b, "h">>, <<a, "f">>, <<c, "g">>}}

(* Names that other records or rules take.                                 *)
Taking ==
    {Closure(top, <<Data("r", 2), x>>,
           <<Data("r", 2), Rule("h", "Person", <<Ref("aggregate", <<"r">>, {})>>)>>,
           <<y>>, <<>>) :
        top \in {a, composed},
        x \in {Cites("h"), Rule("h", "Person", <<>>), Rule("f", "Person", <<>>)},
        y \in {Cites("h"), Sets("s", <<b, "h">>, <<a, "f">>), Parameter("h", {From(1, 2, 5)})}}

MCSources == ImportGraphs \cup Repeating \cup Delegating \cup Relating \cup Taking
MCRoot(s) == s.root
MCText(s, m) == s.text[m]
MCImports(s, m) ==
    CASE m = a -> s.a [] m = b -> s.b [] m = c -> s.c [] m = composed -> s.program
MCDeclares(s, m) == s.declares[m]
MCDays == 1..4
=============================================================================
