--------------------------- MODULE MCDenseCompile ---------------------------
(***************************************************************************)
(* Small programs for DenseCompile, and what unbounded recursion without   *)
(* shared bodies would make of them: the faults a program has when every   *)
(* inlined body is written out at each of its reads, the order in which    *)
(* plain recursion registers rules, inputs, parameters, relations and      *)
(* bodies, and how often the compiled program reads each body.             *)
(***************************************************************************)
EXTENDS DenseCompile, SequencesExt

(* Formulas.                                                               *)
Value(args) == [op |-> "value", args |-> args, name |-> Unnamed]
Leaf == Value(<<>>)
In(n) == [op |-> "input", args |-> <<>>, name |-> n]
Param(n) == [op |-> "parameter", args |-> <<Leaf>>, name |-> n]
Of(r) == [op |-> "rule", args |-> <<>>, name |-> r]
Match(c, t, s) == [op |-> "match", args |-> <<c, t, s>>, name |-> Unnamed]
Refused == [op |-> "refused", args |-> <<>>, name |-> Unnamed]
Fold(n, slots, args) == [op |-> "fold", args |-> args, name |-> n, slots |-> slots]
Member(n, slots) == [op |-> "member", args |-> <<>>, name |-> n, slots |-> slots]

RuleOf(e, v, b) == [entity |-> e, versions |-> v, body |-> b]
Base == [source |-> Unnamed]
Filter(s, d, pred) ==
    [source |-> s, slots |-> d, current |-> "Household", related |-> "Person",
     by_path |-> FALSE, predicate |-> pred]

Program(rs, rels) == [rules |-> rs, relations |-> rels,
                      parameters |-> [p \in {"p", "old"} |-> p = "p"]]

(* Rules that read one another in their own columns: chains deeper than    *)
(* any threshold, shared rules, cycles, versions and foreign entities.     *)
Plain ==
    {Program([a |-> RuleOf("Household", va, ba), b |-> RuleOf("Household", vb, bb),
              c |-> RuleOf("Household", "none", bc), s |-> RuleOf(Scalar, "open", bs),
              m |-> RuleOf("Person", "none", Leaf)],
             [base |-> Base]) :
       va \in {"none", "open", "closed"}, vb \in {"none", "later"},
       ba \in {Of("b"), Value(<<In("x"), Of("b"), Value(<<Of("c")>>)>>),
               Match(Of("c"), Value(<<Of("b")>>), In("y"))},
       bb \in {Leaf, Value(<<Of("c"), Of("s")>>), Value(<<Param("p"), Of("a")>>)},
       bc \in {In("x"), Value(<<In("y"), Value(<<Of("s")>>)>>), Refused, Of("unknown")},
       bs \in {Leaf, Param("p"), Param("old"), Of("m"), Of("c")}}

(* Aggregations: derived relations over one another and over a base,       *)
(* predicates that read current and related rules and test membership,     *)
(* bodies shared by several rules and by columns a deferral interrupts.    *)
Relational ==
    {Program([a |-> RuleOf("Household", "none", ba), b |-> RuleOf("Household", "none", bb),
              c |-> RuleOf("Household", "none", bc), s |-> RuleOf(Scalar, "none", In("z")),
              m |-> RuleOf("Person", "none", bm), n |-> RuleOf("Person", vn, bn)],
             [base |-> Base, near |-> Filter("base", "forward", pn),
              far |-> Filter("near", "forward", pf)]) :
       ba \in {Value(<<Fold("far", "forward", <<Of("m"), Of("n")>>), Of("b")>>),
               Value(<<Fold("base", "forward", <<Of("m"), Of("m")>>), Value(<<Of("b")>>)>>)},
       bb \in {Fold("near", "forward", <<Of("n")>>),
               Value(<<Fold("far", "reverse", <<Of("n")>>), Fold("base", "forward", <<Of("m")>>)>>)},
       bc \in {In("y"), Of("s"), Fold("base", "forward", <<>>)},
       bm \in {Of("n"), Value(<<Of("n"), Value(<<Of("n")>>)>>)},
       bn \in {Leaf, Value(<<In("w"), Of("s")>>), Of("m")},
       vn \in {"none", "closed"},
       pn \in {Of("m"), Value(<<Of("c"), Member("base", "forward")>>)},
       pf \in {Value(<<Of("c"), Of("n")>>), Member("base", "reverse"), Of("s"),
               Value(<<Of("c"), Member("near", "forward")>>)}}

(* Chains of sources that run in a circle or through a path.               *)
Circular ==
    {Program([a |-> RuleOf("Household", "none", ba), b |-> RuleOf("Household", "none", bb)],
             [near |-> [Filter(sn, "forward", pn) EXCEPT !.by_path = bp],
              far |-> Filter(sf, "reverse", Leaf)]) :
       ba \in {Fold("near", "forward", <<>>), Value(<<Of("b"), Fold("far", "forward", <<>>)>>)},
       bb \in {Leaf, Fold("near", "reverse", <<>>)},
       pn \in {Leaf, Of("a"), Of("b"), Member("base", "forward")},
       sn \in {"base", "far"}, sf \in {"near", "base"}, bp \in BOOLEAN}

(* Derivations over one another, over undeclared relations, in circles:    *)
(* one predicate asks about each of them, and the index is built in every  *)
(* order the hash map may list them.                                       *)
Forests ==
    {Program([a |-> RuleOf("Household", "none", Fold("far", "forward", <<>>))],
             [far |-> Filter(sf, df, Member(q, "forward")), near |-> Filter(sn, dn, Leaf),
              wide |-> Filter(sw, "forward", Leaf)]) :
       sf \in {"near", "wide", "base"}, sn \in {"far", "near", "wide", "base", "ghost"},
       sw \in {"far", "near", "wide", "base", "ghost"},
       df \in {"forward", "reverse"}, dn \in {"forward", "reverse"},
       q \in {"near", "base"}}

MCPrograms == Forests \cup Plain \cup Relational \cup Circular

Asking(e, outs, calc, all) == [entity |-> e, outputs |-> outs, calculation |-> calc, all |-> all]
MCRequests ==
    {Asking(Unnamed, <<"a">>, FALSE, FALSE), Asking("Household", <<"b", "a", "b">>, TRUE, FALSE),
     Asking("Household", <<>>, FALSE, TRUE)}

EveryRequest ==
    {Asking(e, outs, FALSE, FALSE) : e \in {Unnamed, "Household", "Person"},
       outs \in {<<>>, <<"a", "m">>, <<"s">>, <<"m">>, <<"nothing">>}}
    \cup {Asking(Unnamed, <<>>, FALSE, TRUE), Asking("Nobody", <<>>, FALSE, TRUE)}

MCAllRequests == MCRequests \cup EveryRequest

(* The requests that are refused before compiling need only one program.   *)
MCInit ==
    \/ Init /\ request \in MCRequests /\ (request.all => threshold = 2)
    \/ /\ Init /\ request \in EveryRequest /\ threshold = 1
       /\ program = CHOOSE p \in Plain : p.rules.a.body = Of("b") /\ p.rules.b.body = Leaf
                                         /\ p.rules.a.versions = "open" /\ p.rules.s.body = Leaf

MCSpec == MCInit /\ [][Next]_vars /\ WF_vars(Next)

-----------------------------------------------------------------------------
(* Plain recursion. A place is the context, the scope, the rules on the    *)
(* path and the level; a context's relation is known by its link.          *)

(* Each chain of sources walked link by link.                              *)
SourceOf(sc, l) ==
    LET up[n \in 0..Cardinality(DOMAIN program.relations), name \in DOMAIN program.relations] ==
            /\ n > 0 /\ IsDerived(name) /\ ~Derivation(name).by_path
            /\ \/ SourceLink(Link(name, "forward")) = l
               \/ SourceLink(Link(name, "forward")).name \in DOMAIN program.relations
                  /\ up[n - 1, SourceLink(Link(name, "forward")).name]
    IN  up[Cardinality(DOMAIN program.relations), sc]

(* Once built, the membership index holds a relation for every candidate   *)
(* of a derived relation exactly if it is a source somewhere up its chain  *)
(* and is read there with the slots asked about, in whatever order the     *)
(* relations were listed (`CandidateAncestry`).                            *)
IndexExact == Ancestry!IndexExact

RECURSIVE Faults(_, _, _, _, _)
Faults(ctx, sc, trail, lvl, e) ==
    LET at == IF ctx.mode = "rule" THEN 0 ELSE lvl + 1
        related(l) == [mode |-> "related", link |-> l, entity |-> Unnamed]
        links == IF e.op = "fold" /\ IsDerived(e.name)
                 THEN LET up[n \in 0..3, l \in Links] ==
                              IF n = 0 \/ ~IsDerived(SourceLink(l).name) THEN <<l>>
                              ELSE <<l>> \o up[n - 1, SourceLink(l)]
                      IN  up[3, Link(e.name, e.slots)]
                 ELSE <<>>
        linked == {links[i] : i \in 1..Len(links)}
        circle == Cardinality({l.name : l \in linked}) < Len(links)
        r == e.name
        entity == RuleAt(r).entity
        \* what the expression does itself: a set of faults, and what it reads
        own ==
          CASE e.op = "refused" -> {"unsupported"}
            [] e.op = "parameter" ->
                 IF r \notin DOMAIN program.parameters THEN {"unsupported"}
                 ELSE IF request.calculation /\ ~program.parameters[r] THEN {"version"} ELSE {}
            [] e.op = "member" ->
                 IF ctx.mode # "related" THEN {"unsupported"}
                 ELSE IF sc # Unnamed /\ ~SourceOf(sc, Link(e.name, e.slots))
                 THEN {"unsupported"} ELSE {}
            [] e.op = "fold" ->
                 IF ctx.mode # "rule" THEN {"unsupported"}
                 ELSE (IF \E l \in linked : Derivation(l.name).by_path THEN {"unsupported"} ELSE {})
                      \cup (IF circle THEN {"cycle"} ELSE {})
            [] e.op = "rule" ->
                 IF r \notin Rules THEN {"unsupported"}
                 ELSE IF r \in trail THEN {"cycle"}
                 ELSE IF ctx.mode = "rule"
                 THEN (IF entity \notin {root, Scalar} THEN {"entity"} ELSE {})
                      \cup (IF ~Selectable(r) THEN {"version"} ELSE {})
                 ELSE (IF ~Inlinable(r) THEN {"version"} ELSE {})
                      \cup (IF \/ ctx.mode = "current" /\ entity \notin {ctx.entity, root, Scalar}
                               \/ /\ ctx.mode = "related" /\ sc # Unnamed
                                  /\ entity \notin {Derivation(sc).current, Derivation(sc).related,
                                                    Scalar}
                            THEN {"entity"} ELSE {})
            [] OTHER -> {}
        current == ctx.mode = "current" \/ (sc # Unnamed /\ Derivation(sc).current = entity)
        \* [ctx, scope, trail, e] of everything compiled below it
        inner ==
          IF own # {} THEN {}
          ELSE CASE e.op = "rule" /\ ctx.mode = "rule" ->
                      {<<ctx, Unnamed, trail \cup {r}, RuleAt(r).body>>}
                 [] e.op = "rule" /\ ctx.mode # "rule" ->
                      {<<IF current THEN [ctx EXCEPT !.mode = "current", !.entity = entity] ELSE ctx,
                         IF current THEN sc ELSE Unnamed, trail \cup {r}, RuleAt(r).body>>}
                 [] e.op = "fold" ->
                      {<<related(l), l.name, trail, Derivation(l.name).predicate>> : l \in linked}
                      \cup {<<related(Link(e.name, e.slots)), Unnamed, trail, e.args[i]>> :
                              i \in 1..Len(e.args)}
                 [] OTHER -> {<<ctx, sc, trail, e.args[i]>> : i \in 1..Len(e.args)}
    IN  IF ctx.mode # "rule" /\ lvl >= MaxInline THEN {"deep"}
        ELSE own \cup UNION {Faults(x[1], x[2], x[3], at, x[4]) : x \in inner}

RequestFaults ==
    UNION {IF Selectable(r) THEN
               Faults([mode |-> "rule", link |-> Unnamed, entity |-> Unnamed], Unnamed, {r}, 0,
                      RuleAt(r).body)
           ELSE {"version"} : r \in Elements(request.outputs)}

(* The dense compiler accepts a program exactly if plain recursion over    *)
(* written-out bodies finds nothing to refuse in it: deferral, shared      *)
(* bodies and the heights remembered for them hide no cycle and no nesting *)
(* past the limit, and a refusal is for a fault the program has            *)
(* (`compile_tasks`, `inline_body`).                                       *)
RefusalsExact ==
    (root # Unnamed /\ ~request.all /\ verdict # "none") =>
        /\ verdict = "compiled" =>
             RequestFaults = {} /\ (request.calculation => compiled.relations = <<>>)
        /\ verdict \in {"unsupported", "version", "entity", "cycle", "deep"} =>
             \/ verdict \in RequestFaults
             \/ verdict = "unsupported" /\ request.calculation /\ compiled.relations # <<>>

(* The order in which plain recursion registers things.                    *)
RECURSIVE Recursed(_, _, _, _)
Recursed(log, ctx, sc, e) ==
    LET r == e.name
        entity == RuleAt(r).entity
        linkAt(lg, l) == CHOOSE i \in 1..Len(lg.links) : lg.links[i] = l
        known(lg, l) == \E i \in 1..Len(lg.links) : lg.links[i] = l
        up[n \in 0..3, l \in Links] ==
            IF n = 0 \/ ~IsDerived(SourceLink(l).name) THEN <<l>>
            ELSE Append(up[n - 1, SourceLink(l)], l)
        chain == IF IsDerived(e.name) THEN up[3, Link(e.name, e.slots)]
                 ELSE <<Link(e.name, e.slots)>>
        current == ctx.mode = "current" \/ (sc # Unnamed /\ Derivation(sc).current = entity)
        site == IF current THEN [mode |-> "current", relation |-> 0, rule |-> r]
                ELSE [mode |-> "related", relation |-> ctx.relation, rule |-> r]
        \* the things to compile, one after the other: [todo, ctx, scope, e]
        todo ==
          CASE e.op = "rule" /\ ctx.mode = "rule" ->
                 IF r \in Elements(log.rules) THEN <<>>
                 ELSE <<<<"expr", InRule(r), Unnamed, RuleAt(r).body>>, <<"rule", r>>>>
            [] e.op = "rule" /\ ctx.mode # "rule" ->
                 IF site \in Elements(log.bodies) THEN <<>>
                 ELSE <<<<"expr", IF current THEN InCurrent(r, entity) ELSE ctx,
                          IF current THEN sc ELSE Unnamed, RuleAt(r).body>>, <<"body", site>>>>
            [] e.op = "fold" -> [i \in 1..Len(chain) |-> <<"link", chain[i]>>]
                                \o [i \in 1..Len(e.args) |-> <<"operand", e.args[i]>>]
            [] OTHER -> [i \in 1..Len(Operands(e)) |-> <<"expr", ctx, sc, Operands(e)[i]>>]
        start ==
          CASE e.op = "input" -> [log EXCEPT !.inputs = Registered(@, <<ctx.relation, r>>)]
            [] e.op = "parameter" -> [log EXCEPT !.parameters = Registered(@, r)]
            [] OTHER -> log
        do(lg, x) ==
          CASE x[1] = "rule" -> [lg EXCEPT !.rules = Append(@, x[2])]
            [] x[1] = "body" -> [lg EXCEPT !.bodies = Append(@, x[2])]
            [] x[1] = "link" /\ (known(lg, x[2]) \/ ~IsDerived(x[2].name)) ->
                 [lg EXCEPT !.links = Registered(@, x[2])]
            [] OTHER ->
                 LET lg2 == IF x[1] = "link" THEN [lg EXCEPT !.links = Append(@, x[2])] ELSE lg
                     inside == CASE x[1] = "link" -> InRelated(Len(lg2.links), Unnamed)
                                 [] x[1] = "operand" ->
                                      InRelated(linkAt(lg, Link(e.name, e.slots)), Unnamed)
                                 [] OTHER -> x[2]
                 IN  Recursed(lg2, inside,
                              CASE x[1] = "link" -> x[2].name [] x[1] = "operand" -> Unnamed
                                [] OTHER -> x[3],
                              CASE x[1] = "link" -> Derivation(x[2].name).predicate
                                [] x[1] = "operand" -> x[2] [] OTHER -> x[4])
    IN  FoldLeft(do, start, todo)

Registry ==
    FoldLeft(LAMBDA lg, r : Recursed(lg, InRule(r), Unnamed, Of(r)),
             [rules |-> <<>>, inputs |-> <<>>, parameters |-> <<>>, links |-> <<>>, bodies |-> <<>>],
             Distinct(request.outputs))

(* Every relation of a program that compiled is keyed to the tuples of the *)
(* base at the end of its chain of sources, and, if derived, has its       *)
(* predicate set and its source registered before it (`relation`).         *)
RelationsReachBase ==
    verdict = "compiled" =>
        \A i \in 1..Len(compiled.relations) :
            LET rel == compiled.relations[i]
                down[n \in 0..3, l \in Links \cup {Link(rel.name, rel.slots)}] ==
                    IF n = 0 \/ ~IsDerived(l.name) THEN l ELSE down[n - 1, SourceLink(l)]
            IN  /\ rel.base = down[3, Link(rel.name, rel.slots)]
                /\ IsDerived(rel.name) =>
                     /\ rel.filtered
                     /\ rel.parent < i
                     /\ rel.parent = 0 <=> ~IsDerived(Derivation(rel.name).source)

(* A program that compiles has its rules, inputs, parameters, relations    *)
(* and bodies registered once each, in the order plain recursion meets     *)
(* them, whichever rules were deferred on the way, and each relation keyed *)
(* to the base at the end of its chain (`compile_derived`, `relation`).    *)
RegisteredAsRecursed ==
    (verdict = "compiled" /\ ~request.all) =>
        /\ compiled.rules = Registry.rules
        /\ compiled.inputs = Registry.inputs
        /\ compiled.parameters = Registry.parameters
        /\ [i \in 1..Len(compiled.relations) |->
              Link(compiled.relations[i].name, compiled.relations[i].slots)] = Registry.links
        /\ [b \in 1..Len(compiled.bodies) |-> compiled.bodies[b].site] = Registry.bodies
        /\ RelationsReachBase

-----------------------------------------------------------------------------
(* The sites an expression of the compiled program reads, one by one,      *)
(* without entering the bodies.                                            *)
RECURSIVE SitesRead(_, _, _)
SitesRead(ctx, sc, e) ==
    LET r == e.name
        current == ctx.mode = "current"
                   \/ (sc # Unnamed /\ compiled.relations[ctx.relation].current = RuleAt(r).entity)
        inside == IF e.op = "fold" THEN InRelated(RelationIndex(r, e.slots), Unnamed) ELSE ctx
    IN  IF e.op = "rule"
        THEN IF ctx.mode = "rule" THEN <<>>
             ELSE <<IF current THEN [mode |-> "current", relation |-> 0, rule |-> r]
                    ELSE [mode |-> "related", relation |-> ctx.relation, rule |-> r]>>
        ELSE FoldLeft(LAMBDA s, o : s \o SitesRead(inside, IF e.op = "fold" THEN Unnamed ELSE sc, o),
                      <<>>, Operands(e))

AllReads ==
    LET joined(n, f(_)) == FoldLeft(LAMBDA s, i : s \o f(i), <<>>, [i \in 1..n |-> i])
        inRule(i) == SitesRead(InRule(compiled.rules[i]), Unnamed, RuleAt(compiled.rules[i]).body)
        inBody(b) ==
            LET site == compiled.bodies[b].site
            IN  SitesRead([mode |-> site.mode, relation |-> site.relation], Unnamed,
                          RuleAt(site.rule).body)
        inFilter(i) ==
            IF IsDerived(compiled.relations[i].name)
            THEN SitesRead(InRelated(i, Unnamed), compiled.relations[i].name,
                           Derivation(compiled.relations[i].name).predicate)
            ELSE <<>>
    IN  joined(Len(compiled.rules), inRule) \o joined(Len(compiled.bodies), inBody)
        \o joined(Len(compiled.relations), inFilter)

(* In a program that compiled, a shared body's count is how often the      *)
(* compiled rules, bodies and predicates read it, however often a deferral *)
(* made the compiler start again: a body read once is evaluated in place,  *)
(* a body read twice is cached (`inline_reads`).                           *)
ReferencesExact ==
    verdict = "compiled" =>
        LET all == AllReads
        IN  \A b \in 1..Len(compiled.bodies) :
               compiled.bodies[b].references =
                   Cardinality({i \in 1..Len(all) : all[i] = compiled.bodies[b].site})

=============================================================================
