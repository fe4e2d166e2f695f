-------------------------- MODULE MCUnitDerivation --------------------------
(***************************************************************************)
(* Small constitutions for TLC, each built to reach one hard case, with    *)
(* the requests that bring the case about.                                 *)
(***************************************************************************)
EXTENDS Aggregation

B(name) == <<"bool", name>>
T(family, one, other) == <<"relation", family, <<one, other>>>>
Fact(fact) == <<"fact", fact>>
Lit(value) == <<"lit", value>>
All(guards) == <<"all", guards>>
AnyOf(guards) == <<"any", guards>>
Not(guard) == <<"not", <<guard>>>>
Named(id) == <<"derived", id>>

\* Pairs of persons in the order the keys of their facts have.
Ties4 == [i \in 1..16 |-> <<((i - 1) \div 4) + 1, ((i - 1) % 4) + 1>>]
FactsAbout(family) == [i \in 1..16 |-> <<"relation", family, Ties4[i]>>]

MCFactOrder ==
    <<B("a"), B("b"), B("c"), B("s"), <<"legal", "c1", "e1">>, <<"legal", "c2", "e1">>>>
        \o FactsAbout("child") \o FactsAbout("home") \o FactsAbout("meals")
        \o FactsAbout("partner")

-----------------------------------------------------------------------------
(* Rules and plans. *)

Edge(id, kind, left, right, when) ==
    [id |-> id, kind |-> kind, left |-> left, right |-> right, when |-> when,
     defeaters |-> <<>>]
Base(id, left, right, when) == Edge(id, "base", left, right, when)
Combination(id, left, right, when) == Edge(id, "combination", left, right, when)
Defeated(edge, when) == [edge EXCEPT !.defeaters = <<[id |-> "d1", when |-> when]>>]

Cut(id, members, when) ==
    [id |-> id, members |-> members, when |-> when, election |-> {},
     precedence |-> <<>>, precedes |-> <<>>]
On(edge, decision) == [edge |-> edge, decision |-> decision]
Election(fact, missing) == [fact |-> fact, actor |-> "household", missing |-> missing]

Attachment(id, members, anchor, when) ==
    [id |-> id, members |-> members, anchor |-> anchor, when |-> when,
     actor |-> "household", election |-> {}]
Bar(id, members, when) == [id |-> id, members |-> members, when |-> when]
Status(id, person, when) == [id |-> id, person |-> person, when |-> when]
Derived(id, stratum, expr) == [id |-> id, stratum |-> stratum, expr |-> expr]

EmptyPlan ==
    [derived |-> <<>>, edges |-> <<>>, cuts |-> <<>>, attachments |-> <<>>,
     bars |-> <<>>, statuses |-> <<>>, chainPolicy |-> TRUE]

a == Fact(B("a"))
b == Fact(B("b"))
c == Fact(B("c"))
s == Fact(B("s"))
Meals(one, other) == Fact(T("meals", one, other))

\* A base chain 1-2-3 without a policy: discretion, unless 1 and 3 meet too.
Chain ==
    [EmptyPlan EXCEPT !.chainPolicy = FALSE,
        !.edges = <<Base("e1", 1, 2, a), Base("e2", 1, 3, Meals(1, 3)),
                    Base("e3", 2, 3, Lit(TRUE))>>,
        !.statuses = <<Status("s1", 4, Meals(3, 4))>>]

\* An elected cut of person 1 against an edge the law leaves open.
Elective ==
    [EmptyPlan EXCEPT
        !.edges = <<Combination("e1", 1, 2, Lit(TRUE)), Base("e2", 2, 3, Meals(2, 3))>>,
        !.cuts = <<[Cut("c1", {1}, a) EXCEPT !.election = {Election("a", "unknown")},
                        !.precedence = <<On("e1", "unresolved")>>]>>,
        !.statuses = <<Status("s1", 3, s)>>]

Overlapping ==
    [EmptyPlan EXCEPT
        !.edges = <<Base("e1", 3, 4, Lit(TRUE))>>,
        !.cuts = <<Cut("c1", {1, 2}, a), Cut("c2", {2, 3}, b)>>]

\* c1 over c2 over c3, where c1 and c3 overlap only through the order.
Chained ==
    [EmptyPlan EXCEPT
        !.edges = <<Base("e1", 1, 2, Lit(TRUE)), Base("e2", 3, 4, Lit(TRUE))>>,
        !.cuts = <<[Cut("c1", {1, 2}, a) EXCEPT !.precedes = <<"c2">>],
                   [Cut("c2", {4}, b) EXCEPT !.precedes = <<"c3">>],
                   Cut("c3", {2, 3}, c)>>]

\* Two cuts of the same persons: one blocked by the edge, one overriding it.
Coalescing(order) ==
    [EmptyPlan EXCEPT
        !.edges = <<Defeated(Combination("e1", 2, 3, Lit(TRUE)), s)>>,
        !.cuts = <<[Cut("c1", {1, 2}, a) EXCEPT !.precedence = <<On("e1", "overrides")>>,
                        !.precedes = order],
                   [Cut("c2", {1, 2}, b) EXCEPT !.precedence = <<On("e1", "blocked")>>]>>]

\* Two persons move, one out of a cut; a bar holds for those who do not move.
Attaching(second) ==
    [EmptyPlan EXCEPT
        !.edges = <<Base("e1", 3, 4, Meals(3, 4))>>,
        !.cuts = <<Cut("c1", {1, 2}, Lit(TRUE))>>,
        !.attachments = <<[Attachment("t1", {1}, 4, a) EXCEPT
                              !.election = {Election("a", "true")}],
                          Attachment("t2", {2}, second, b)>>,
        !.bars = <<Bar("b1", {1, 2}, s)>>]

\* Guards through derived facts; a constraint may forbid both.
Layered ==
    [EmptyPlan EXCEPT
        !.derived = <<Derived("d1", "person", AnyOf(<<a, Named("d2")>>)),
                      Derived("d2", "candidate", All(<<b, Not(s)>>)),
                      Derived("d3", "unit", Named("d1"))>>,
        !.edges = <<Combination("e1", 1, 2, Named("d1")), Base("e2", 3, 4, Named("d2"))>>,
        !.statuses = <<Status("s1", 1, s)>>]

Refusable ==
    {[Layered EXCEPT !.edges[1].when = Named("d3")],
     [Layered EXCEPT !.edges[1].when = Named("d4")],
     [Layered EXCEPT !.derived[2].expr = Named("d1")],
     [Layered EXCEPT !.edges[2].left = 4],
     [Coalescing(<<>>) EXCEPT !.cuts[2].precedence = <<>>],
     [Coalescing(<<"c2">>) EXCEPT !.cuts[2].precedes = <<"c1">>],
     [Coalescing(<<"c2">>) EXCEPT !.cuts[2].id = "c1"],
     [Elective EXCEPT !.cuts[1].when = b],
     [Attaching(3) EXCEPT !.attachments[2].election = {Election("a", "false")}],
     Coalescing(<<>>), Attaching(1)}

Sound ==
    {Chain, Elective, Overlapping, Chained, Coalescing(<<"c2">>), Attaching(3), Layered}

MCPlans == Sound \cup Refusable

-----------------------------------------------------------------------------
(* Requests. *)

Seen(value, evidence) == [value |-> value, evidence |-> evidence]
Bool(name, observations) ==
    [name |-> name, observations |-> observations, unknown |-> FALSE]
Tie(one, other, value) == [tuple |-> <<one, other>>, value |-> value, evidence |-> "x"]
Family(complete, facts) ==
    [name |-> "meals", scope |-> "here", complete |-> complete, facts |-> facts]

NoShadow == [bound |-> FALSE, records |-> {}, ledger |-> [p \in Projections |-> "missing"]]
Record(projection, unit, person) ==
    [projection |-> projection, unit |-> unit, person |-> person]
Shadow(pairs, expectation) ==
    [bound |-> TRUE,
     records |-> {Record(p, pair[1], pair[2]) : p \in Projections, pair \in pairs},
     ledger |-> [p \in Projections |-> expectation]]

Plain ==
    [enabled |-> TRUE, segmentComplete |-> TRUE, roster |-> <<1, 2, 3, 4>>,
     rosterComplete |-> TRUE, scope |-> "here", families |-> <<>>, bools |-> <<>>,
     constraints |-> <<>>, supplied |-> <<>>, base |-> {}, shadow |-> NoShadow,
     unitRules |-> {"size", "double", "withAny"}, personRules |-> {"housed", "memberships"}]

Housed == {<<"household", "h", p>> : p \in {1, 2, 3}}

\* What every plan is asked with.
Common ==
    {[Plain EXCEPT !.base = Housed],
     [Plain EXCEPT !.families = <<Family(TRUE, <<Tie(2, 3, TRUE)>>)>>,
                   !.bools = <<Bool("a", <<Seen(TRUE, "x"), Seen(FALSE, "y")>>)>>,
                   !.base = Housed],
     [Plain EXCEPT !.families = <<Family(FALSE, <<Tie(1, 3, TRUE)>>)>>,
                   !.bools = <<Bool("a", <<Seen(TRUE, "x")>>), Bool("b", <<Seen(TRUE, "x")>>)>>,
                   !.shadow = Shadow({<<"u", 1>>, <<"u", 2>>, <<"v", 3>>, <<"w", 4>>}, "equal")],
     [Plain EXCEPT !.families = <<[Family(TRUE, <<>>) EXCEPT !.scope = "there"]>>,
                   !.bools = <<Bool("b", <<Seen(FALSE, "x")>>),
                               [Bool("a", <<>>) EXCEPT !.unknown = TRUE],
                               Bool("s", <<Seen(FALSE, "x"), Seen(FALSE, "y")>>)>>]}

\* What one plan is enough to be asked with.
Particular ==
    {[Plain EXCEPT !.constraints = <<Not(All(<<a, b>>)), AnyOf(<<s, b>>)>>],
     [Plain EXCEPT !.constraints = <<Not(All(<<a, b>>))>>,
                   !.bools = <<Bool("a", <<Seen(TRUE, "x")>>), Bool("b", <<Seen(TRUE, "x")>>)>>],
     [Plain EXCEPT !.enabled = FALSE],
     [Plain EXCEPT !.segmentComplete = FALSE],
     [Plain EXCEPT !.roster = <<1, 2, 3, 4, 4>>],
     [Plain EXCEPT !.roster = <<1, 2, 3>>],
     [Plain EXCEPT !.rosterComplete = FALSE],
     [Plain EXCEPT !.bools = <<[Bool("a", <<Seen(TRUE, "x")>>) EXCEPT !.unknown = TRUE]>>],
     [Plain EXCEPT !.constraints = <<AnyOf(<<c, Meals(1, 3), Meals(2, 3)>>)>>],
     [Plain EXCEPT !.bools = <<Bool("a", <<Seen(TRUE, "x")>>)>>,
                   !.supplied = <<[type |-> "person", id |-> 1], [type |-> "trust", id |-> 1]>>],
     [Plain EXCEPT !.base = {<<"constituent", {1, 2}, 1>>}],
     [Plain EXCEPT !.bools = <<Bool("a", <<Seen(FALSE, "x")>>), Bool("b", <<Seen(TRUE, "x")>>),
                               Bool("s", <<Seen(FALSE, "x")>>)>>,
                   !.shadow = Shadow({<<"u", 1>>, <<"u", 2>>, <<"v", 3>>, <<"v", 4>>}, "equal")],
     [Plain EXCEPT !.bools = <<Bool("a", <<Seen(TRUE, "x")>>), Bool("b", <<Seen(FALSE, "x")>>)>>,
                   !.shadow = [Shadow({<<"u", 2>>, <<"v", 3>>, <<"w", 4>>}, "equal")
                                  EXCEPT !.records = @ \cup {Record("constituent", "u", 1)}]],
     [Plain EXCEPT !.shadow = [Shadow({<<"u", 1>>}, "out")
                                  EXCEPT !.ledger["constituent"] = "missing"]],
     [Plain EXCEPT !.shadow = Shadow({<<"u", 1>>}, "out")]}

MCRequestsFor(p) ==
    IF p \in Refusable THEN {Plain}
    ELSE Common \cup (IF p = Layered THEN Particular ELSE {})

-----------------------------------------------------------------------------
(* The second phase. *)

MCViews ==
    [present |-> [source |-> "household", slot |-> 1,
                  guard |-> <<"derived", "memberships">>],
     joined |-> [source |-> "participating", slot |-> 1,
                 guard |-> <<"count", "constituent", 2, <<>>>>]]

MCRules ==
    [size |-> <<"count", "participating", 1, <<>>>>,
     members |-> <<"count", "constituent", 1, <<>>>>,
     double |-> <<"sum", <<<<"derived", "size">>, <<"derived", "members">>>>>>,
     withAny |-> <<"count", "joined", 1, <<>>>>,
     memberships |-> <<"count", "participating", 2, <<>>>>,
     housed |-> <<"count", "constituent", 2, <<"double">>>>]

-----------------------------------------------------------------------------
(* Family aggregation. *)

Input(name, scope, kind, key) ==
    [name |-> name, scope |-> scope, kind |-> kind, key |-> key, bound |-> kind = "gross"]
Band(output, low, high) == [output |-> output, low |-> low, high |-> high]
Predicate(output, kind, count, youngest, minimum) ==
    [output |-> output, kind |-> kind, count |-> count, youngest |-> youngest,
     minimum |-> minimum]
Shape(output, kind) ==
    [output |-> output, kind |-> kind, count |-> "all", present |-> 5, absent |-> 2]

MCScheme ==
    [inputs |-> <<Input("pay", "adult", "additive", "none"),
                  Input("gross", "child", "gross", "credit"),
                  Input("share", "child", "care", "none"),
                  Input("principal", "child", "fact", "none"),
                  Input("dependent", "child", "fact", "none"),
                  Input("school", "child", "fact", "none"),
                  Input("period", "child", "fact", "none"),
                  Input("credit", "family", "adjustment", "credit"),
                  Input("income", "family", "amount", "none"),
                  Input("threshold", "family", "amount", "none"),
                  Input("rate", "family", "rate", "none")>>,
     relations |-> <<[name |-> "partner", directed |-> FALSE, left |-> "partner",
                      right |-> "partner"],
                     [name |-> "child", directed |-> TRUE, left |-> "caregiver",
                      right |-> "child"],
                     [name |-> "home", directed |-> FALSE, left |-> "partner",
                      right |-> "partner"]>>,
     partner |-> "partner", child |-> "child",
     principal |-> "principal", fraction |-> "share",
     conditions |-> <<"dependent", "school", "period">>,
     sums |-> <<[output |-> "pays", input |-> "pay", selector |-> "adults"]>>,
     counts |-> <<Band("all", {}, {}), Band("young", {}, {17})>>,
     minima |-> <<[output |-> "youngest", empty |-> 99]>>,
     predicates |-> <<Predicate("any", "at least", "all", "none", 1),
                      Predicate("grown", "youngest at least", "none", "youngest", 10),
                      Predicate("sole", "sole parent", "all", "none", 0),
                      Predicate("soleGrown", "sole parent at least", "all", "youngest", 10)>>,
     shapes |-> <<Shape("eldest", "eldest"), Shape("others", "subsequent"),
                  Shape("allowance", "fixed")>>,
     agreements |-> <<[output |-> "shared", input |-> "share", eligibleIf |-> {"school"},
                       empty |-> 0]>>,
     projections |-> <<[output |-> "childShare", input |-> "share"]>>,
     broadcasts |-> <<[output |-> "familyIncome", input |-> "income"]>>,
     reductions |-> <<[output |-> "reduced", gross |-> "grossed", key |-> "credit",
                       input |-> "gross", adjustment |-> "credit", care |-> "share",
                       low |-> {}, high |-> {17},
                       continuous |-> {[output |-> "abated", income |-> "income",
                                        threshold |-> "threshold", rate |-> "rate"]}]>>]

SchemesRefused ==
    {[MCScheme EXCEPT !.sums[1].selector = "all members"],
     [MCScheme EXCEPT !.sums[1].output = "all"],
     [MCScheme EXCEPT !.predicates[4].youngest = "young"],
     [MCScheme EXCEPT !.relations[2].directed = FALSE],
     [MCScheme EXCEPT !.reductions = Append(@,
         [@[1] EXCEPT !.output = "again", !.gross = "twice", !.continuous = {}])],
     [MCScheme EXCEPT !.reductions[1].adjustment = "income"],
     [MCScheme EXCEPT !.inputs[2].bound = FALSE],
     [MCScheme EXCEPT !.conditions[2] = "share"]}

Is(value) == [kind |-> "known", seen |-> {Seen(value, "x")}]
Open == [kind |-> "unknown", seen |-> {}]
Heard(kind, values) == [kind |-> kind, seen |-> {Seen(v, "x") : v \in values}
                                                \cup {Seen(v, "y") : v \in values}]

Adult(id, pay) ==
    [id |-> id, role |-> "adult", age |-> <<>>, scalars |-> [pay |-> pay], facts |-> <<>>,
     computations |-> <<>>]
Child(id, age) ==
    [id |-> id, role |-> "child", age |-> <<age>>, scalars |-> [share |-> Is(2)],
     facts |-> [principal |-> Is(TRUE), dependent |-> Is(TRUE), school |-> Is(TRUE),
                period |-> Is(TRUE)],
     computations |-> [gross |-> {8}]]

Related(name, facts) == [name |-> name, scope |-> "here", complete |-> TRUE, facts |-> facts]
Pair(one, other, knowledge) == [tuple |-> <<one, other>>, knowledge |-> knowledge]
Anchor(person, holder) ==
    [anchor |-> person, holder |-> holder,
     scalars |-> [credit |-> Is(4), income |-> Is(10), threshold |-> Is(6), rate |-> Is(1)]]

Two == <<Pair(1, 3, Is(TRUE)), Pair(1, 4, Is(TRUE))>>

MCCall ==
    [enabled |-> TRUE, scope |-> "here", rosterComplete |-> TRUE, segmentComplete |-> TRUE,
     persons |-> <<Adult(1, Is(10)), Adult(2, Is(6)), Child(3, Is(3)), Child(4, Is(18))>>,
     relations |-> <<Related("child", Two), Related("partner", <<Pair(2, 1, Is(TRUE))>>),
                     Related("home", <<>>)>>,
     familyInputs |-> <<Anchor(1, Is(1))>>]

Apart ==
    [MCCall EXCEPT !.relations = <<Related("child", <<Pair(1, 3, Is(TRUE)), Pair(2, 4, Is(TRUE))>>),
                                   Related("partner", <<>>), Related("home", <<>>)>>,
                   !.familyInputs = <<Anchor(1, Is(1)), Anchor(4, Open)>>]

Couple ==
    [MCCall EXCEPT !.persons = <<Adult(1, Is(10)), Adult(2, Open)>>,
                   !.relations = <<Related("child", <<>>), Related("partner", <<>>),
                                   Related("home", <<Pair(1, 2, Is(TRUE))>>)>>]

Calls ==
    {MCCall, Apart, Couple,
     [MCCall EXCEPT !.persons[4].age = <<Open>>],
     [MCCall EXCEPT !.persons[4].age = <<>>, !.persons[4].facts.principal = Is(FALSE)],
     [MCCall EXCEPT !.persons[4].facts.principal = Open, !.persons[3].age = <<Open>>],
     [MCCall EXCEPT !.persons[4].facts.school = Open, !.persons[4].facts.period = Is(FALSE)],
     [MCCall EXCEPT !.persons[4].facts.dependent = Open, !.persons[4].age = <<Open>>,
                    !.persons[4].scalars.share = Heard("conflict", {1, 2})],
     [MCCall EXCEPT !.persons[4].facts = [principal |-> Is(TRUE)]],
     [MCCall EXCEPT !.persons[3].scalars.share = Is(1), !.persons[4].age = <<Is(17)>>],
     [MCCall EXCEPT !.persons[3].facts.school = Open,
                    !.persons[4].scalars.share = Heard("observations", {1})],
     [MCCall EXCEPT !.persons[4].facts.principal = Heard("conflict", {TRUE}),
                    !.persons[4].age = <<Is(17)>>],
     [MCCall EXCEPT !.persons[2].scalars.pay = Heard("observations", {6, 10}),
                    !.familyInputs[1].scalars.credit = Open],
     [MCCall EXCEPT !.familyInputs[1].scalars = [credit |-> Is(20), income |-> Is(4),
                                                 threshold |-> Is(6), rate |-> Is(2)]],
     [MCCall EXCEPT !.familyInputs[1].scalars = [credit |-> Is(0), income |-> Open]],
     [MCCall EXCEPT !.familyInputs = <<>>],
     [MCCall EXCEPT !.familyInputs[1].holder = Open],
     [Apart EXCEPT !.familyInputs[2].holder = Is(2), !.persons[3].age = <<Is(17)>>],
     \* open before or during the derivation
     [MCCall EXCEPT !.relations[2].facts[1].knowledge = Open],
     [MCCall EXCEPT !.relations[2].facts[1].knowledge = Heard("observations", {TRUE})],
     [MCCall EXCEPT !.relations[2].facts = <<Pair(1, 2, Is(TRUE)), Pair(1, 2, Is(FALSE))>>],
     [Couple EXCEPT !.segmentComplete = FALSE],
     [Couple EXCEPT !.rosterComplete = FALSE],
     [Couple EXCEPT !.relations[2].complete = FALSE],
     [Couple EXCEPT !.relations[3].scope = "there"],
     [Couple EXCEPT !.relations = Tail(@)],
     \* refused
     [Couple EXCEPT !.enabled = FALSE],
     [MCCall EXCEPT !.persons[3].scalars = [share |-> Is(2), gross |-> Is(8)]],
     [MCCall EXCEPT !.persons[3].scalars.share = Is(3)],
     [MCCall EXCEPT !.persons[3].computations.gross = {}],
     [Apart EXCEPT !.familyInputs[2].holder = Is(1)],
     [MCCall EXCEPT !.familyInputs = <<Anchor(1, Is(1)), Anchor(3, Is(1))>>],
     [MCCall EXCEPT !.familyInputs[1].holder = Is(3)],
     [MCCall EXCEPT !.relations[1].facts[1].tuple = <<3, 1>>],
     [MCCall EXCEPT !.relations[3].name = "child"],
     [Couple EXCEPT !.persons[2].id = 1],
     [MCCall EXCEPT !.persons[1].facts = [school |-> Is(TRUE)]]}

MCAggregations ==
    {[plan |-> MCScheme, request |-> call] : call \in Calls}
        \cup {[plan |-> scheme, request |-> MCCall] : scheme \in SchemesRefused}

=============================================================================
