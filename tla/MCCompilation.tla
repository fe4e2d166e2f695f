---------------------------- MODULE MCCompilation ----------------------------
(***************************************************************************)
(* Small programs for Compilation: two or three rules, a data relation,    *)
(* and derived relations over it and over one another, that agree or       *)
(* disagree in kinds and directions, and that read one another in circles. *)
(***************************************************************************)
EXTENDS Compilation, SequencesExt

MCRules == {1, 2, 3}
MCRelations == {1, 2, 3}
Missing == 9                   \* names nothing
H == "Household"
P == "Person"
U == "Unit"                    \* filtered
None == "none"
Scalar == "Scalar"
MCEntityKinds == {H, P, U, "Family", Scalar}

(* Nodes. Node i of a family's program is the i-th of its list.            *)
Plain(op) ==
    [op |-> op, relation |-> 0, current |-> 1, related |-> 0, value |-> 0, body |-> <<>>,
     input_of |-> None, terms |-> <<>>, slot |-> 0]
RuleNode(x) == [Plain("rule") EXCEPT !.value = x]
Aggregate(r, x, body) == [Plain("aggregate") EXCEPT !.relation = r, !.value = x, !.body = body]
OnlyOf(r, entity) == [Plain("only") EXCEPT !.relation = r, !.input_of = entity]
MemberOf(r) == [Plain("member") EXCEPT !.relation = r]
Unbound(body) == [Plain("unbound") EXCEPT !.body = body]
Atom(r, terms) == [Plain("atom") EXCEPT !.relation = r, !.terms = terms]
Exists(r, terms, slot, body) ==
    [Plain("exists") EXCEPT !.relation = r, !.terms = terms, !.slot = slot, !.body = body]
Same(s, t) == [Plain("same") EXCEPT !.terms = <<s, t>>]
ReadOf(t, x) == [Plain("read") EXCEPT !.terms = <<t>>, !.value = x]
Reversed(n) == [n EXCEPT !.current = 0, !.related = 1]

RuleOf(entity, base, versions) == [entity |-> entity, base |-> base, versions |-> versions]
Data(kinds) ==
    [arity |-> 2, kinds |-> kinds, derived |-> FALSE, entity |-> None]
Filter(source, slots, own, entity, predicate) ==
    [arity |-> 2, kinds |-> Unknown, derived |-> TRUE, source |-> source, path |-> <<>>,
     current |-> slots[1], related |-> slots[2], own |-> own, entity |-> entity,
     predicate |-> predicate, defaulted |-> FALSE]
Along(steps, slots, own, predicate) ==
    [Filter(0, slots, own, None, predicate) EXCEPT !.path = steps]
Step(r, from, to) == [relation |-> r, from |-> from, to |-> to]

ProgramOf(rules, relations, nodes) == [rules |-> rules, relations |-> relations, nodes |-> nodes]

Legacy == <<1, 0>>
Other == <<0, 1>>
HP == <<H, P>>
PH == <<P, H>>

(* Chains of sources, settled anywhere or never, with cycles and gaps; the *)
(* rule of a versioned formula reads one end, its base another.            *)
Sourced ==
    {ProgramOf(<<RuleOf(H, <<1>>, v), RuleOf(P, <<>>, <<>>), RuleOf(H, <<>>, <<>>)>>,
             <<a, b, c>>,
             <<Aggregate(3, 0, <<>>), Aggregate(2, 2, <<>>)>>) :
       v \in {<<>>, <<2>>},
       a \in {Data(PH), Data(Unknown)} \cup {Filter(s, Legacy, Unknown, None, <<>>) : s \in {2, Missing}},
       b \in {Filter(s, d, o, None, <<>>) : s \in {1, 3}, d \in {Legacy, Other}, o \in {Unknown, PH, <<H>>}},
       c \in {Filter(2, Legacy, Unknown, U, <<>>), Filter(1, Other, HP, None, <<>>),
              Along(<<Step(1, 1, 0), Step(2, 0, 1)>>, Legacy, <<H, H>>, <<>>)}}

(* Filtered entities, filters of filters and filters that disagree, and    *)
(* what their rules may aggregate over.                                    *)
Filtered ==
    {ProgramOf(<<RuleOf(e, <<1>>, <<>>), RuleOf(f, <<>>, <<>>), RuleOf(P, <<3>>, <<>>)>>,
             <<Data(k), Filter(1, d, Unknown, g, <<>>), Filter(1, Legacy, o, h, <<>>)>>,
             <<Aggregate(r, 2, <<2>>), RuleNode(3), Aggregate(q, 0, <<>>)>>) :
       e \in {H, U, Scalar}, f \in {P, U}, k \in {HP, PH, <<P, P>>, <<U, P>>},
       d \in {Legacy, Other}, g \in {U, "Family"}, o \in {Unknown, <<P, U>>, <<P, "Family">>},
       h \in {U, None}, r \in {1, 2}, q \in {1}}

(* What a predicate reads, and on which of its two ids.                    *)
Predicates ==
    {ProgramOf(<<RuleOf(H, <<1>>, <<>>), RuleOf(e, <<2>>, <<>>), RuleOf(f, <<>>, <<>>)>>,
             <<Data(k), Filter(s, d, o, None, <<3>>), Filter(1, Legacy, u, None, <<4>>)>>,
             <<a, Aggregate(3, 3, <<>>), n, m, RuleNode(2)>>) :
       e \in {H, P}, f \in {P}, k \in {HP, PH, <<P, P>>},
       s \in {1, 3}, d \in {Legacy, Other}, o \in {Unknown, PH}, u \in {Unknown},
       a \in {Reversed(Aggregate(2, 3, <<5>>))},
       n \in {RuleNode(2), MemberOf(1), Reversed(MemberOf(3)), Aggregate(1, 2, <<>>), Unbound(<<4>>)},
       m \in {RuleNode(3), MemberOf(1)}}

(* Terms: on every relation, bound by nested exists, in and out of scope.  *)
Terms ==
    {ProgramOf(<<RuleOf(H, b, <<>>), RuleOf(P, <<>>, <<>>), RuleOf(H, <<>>, <<>>)>>,
             <<Data(k), Filter(1, Legacy, o, None, <<2>>), Filter(1, d, u, None, <<>>)>>,
             <<Aggregate(2, 2, c), n, m>>) :
       b \in {<<1>>}, c \in {<<>>, <<3>>}, k \in {PH, <<P, P>>},
       o \in {Unknown, PH}, d \in {Legacy}, u \in {Unknown, PH},
       n \in {Atom(1, <<Candidate, Anchor>>), Atom(3, <<Candidate, Anchor>>),
              Atom(1, <<Anchor>>), Exists(1, <<0, Anchor>>, 0, <<3>>),
              Exists(3, <<0, Anchor>>, 0, <<3>>), Exists(1, <<Candidate, 0>>, 1, <<3>>), Unbound(<<3>>)},
       m \in {Same(Anchor, Candidate), Same(0, Candidate), ReadOf(Anchor, 2), ReadOf(Candidate, 2),
              ReadOf(0, 3), Atom(3, <<0, Anchor>>), Exists(1, <<1, 0>>, 1, <<>>)}}

(* Rules that read one another across entities, from aggregations, terms   *)
(* and predicates of derived relations.                                    *)
Flowing ==
    {ProgramOf(<<RuleOf(H, b, <<>>), RuleOf(e, <<2>>, <<>>), RuleOf(f, <<>>, <<7>>)>>,
             <<Data(PH), Filter(1, d, o, u, <<n>>), Filter(2, d, Unknown, None, <<4>>)>>,
             <<RuleNode(2), RuleNode(3), Aggregate(2, 2, <<5>>), ReadOf(t, 2), RuleNode(2),
               Exists(1, <<Candidate, 0>>, 1, <<8>>), Unbound(<<>>), ReadOf(0, 3),
               Aggregate(3, 0, <<>>)>>) :
       b \in {<<1>>, <<3>>, <<1, 9>>}, e \in {H, P, U, Scalar}, f \in {P, U, Scalar},
       d \in {Legacy, Other}, o \in {Unknown, PH}, u \in {U, None}, n \in {2, 4, 5, 6},
       t \in {Anchor, Candidate}}

(* Declarations lowering refuses.                                          *)
Refused ==
    {ProgramOf(<<RuleOf(H, <<1>>, <<>>), RuleOf(P, <<>>, <<>>), RuleOf(H, <<>>, <<>>)>>,
             <<Data(k), [Filter(1, Legacy, Unknown, None, <<2>>) EXCEPT !.defaulted = t], Data(Unknown)>>,
             <<OnlyOf(r, e), MemberOf(q)>>) :
       k \in {HP, PH, <<H, H>>, <<P, P>>, <<P, H, P>>}, t \in BOOLEAN, r \in {1, 2}, q \in {1, 3},
       e \in {P, H, None}}

MCPrograms == {Sourced, Filtered, Predicates, Terms, Flowing, Refused}

-----------------------------------------------------------------------------
(* Cycles: among rules, among relations, and routed through both. All use  *)
(* the nodes of one palette.                                               *)
ReadNodes(r) == <<Aggregate(r, 0, <<>>), OnlyOf(r, P), MemberOf(r), Atom(r, <<Candidate, Anchor>>)>>
Palette == <<RuleNode(1), RuleNode(2), RuleNode(3), RuleNode(Missing)>> \o ReadNodes(1) \o ReadNodes(2)
ReadsOver(r) == {<<4 * r + i>> : i \in 1..4}
Counts(r) == <<4 * r + 1>>
Atoms(r) == <<4 * r + 4>>
Inputs == <<>>

(* f1, f2, f3: the rules' formulas; d1, d2: relations 1 and 2.             *)
Ordered(f1, f2, f3, d1, d2) ==
    ProgramOf(<<RuleOf(H, f1, <<>>), RuleOf(H, f2, <<>>), RuleOf(H, <<>>, f3)>>,
              <<d1, d2, Data(PH)>>, Palette)
Over(r, predicate) == Filter(r, Legacy, PH, None, predicate)
Path(steps, predicate) == Along([i \in 1..Len(steps) |-> Step(steps[i], 1, 0)], Legacy, PH, predicate)

Lists(S) == {SetToSeq(T) : T \in SUBSET S}

RuleGraphs ==
    {Ordered(f1, f2, f3, Data(PH), Data(PH)) :
       f1 \in Lists({1, 2, 3}), f2 \in Lists({1, 2, 3}), f3 \in Lists({1, 2, 4})}

Routed ==
    {Ordered(f1, f2, Inputs, d1, Over(3, p)) :
       f1 \in {Inputs, <<2>>, <<3>>} \cup ReadsOver(1) \cup ReadsOver(2),
       f2 \in {Inputs, <<1>>, Counts(1), Atoms(2)},
       d1 \in UNION {{Over(2, q), Over(3, q), Path(<<2>>, q), Path(<<3>>, q)} :
                        q \in {Inputs, <<2>>, <<4 * 2 + 2>>, Atoms(2)}},
       p \in {Inputs, <<1>>, <<1, 3>>}}

RelationGraphs ==
    {Ordered(f1, <<3>>, f3, d1, d2) :
       f1 \in {Inputs, Counts(1)}, f3 \in {Inputs, <<4>>},
       d1 \in UNION {{Over(r, q) : r \in {1, 2, 3, Missing}} \cup
                     {Path(s, q) : s \in {<<2>>, <<3, 1>>, <<2, 3>>, <<3, Missing>>}} :
                        q \in {Inputs} \cup ReadsOver(2)},
       d2 \in UNION {{Over(1, q), Over(3, q), Path(<<3, 2>>, q)} : q \in {Inputs} \cup ReadsOver(1)}}

MCWritten == {Sourced, Predicates, RuleGraphs, Routed, RelationGraphs}
=============================================================================
