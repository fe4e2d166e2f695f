------------------------------ MODULE Interface ------------------------------
(***************************************************************************)
(* The interface a compiled artifact publishes (src/src/interface.rs): the *)
(* entity kinds whose ids each input slot can be read on, the slots each   *)
(* relation is looked up by, and the kinds there are. It is derived from   *)
(* the accepted program alone; no evaluator reads it.                      *)
(*                                                                         *)
(* Every node stands for an expression that also reads an input slot of    *)
(* its own: an aggregation's is the value it takes from the members, a     *)
(* term's is read on the term's id, another's on the id the node is        *)
(* evaluated on. Types, defaults and domains of slots are left out.        *)
(***************************************************************************)
EXTENDS RelationReads

VARIABLE interface    \* [inputs, lookup_slots, entities], or Underived

Underived == <<>>

(* The ids an expression is evaluated on: those its rule is evaluated on,  *)
(* or of one kind.                                                         *)
OfRule(x) == [rule |-> x, kind |-> NoKind]
OfKind(k) == [rule |-> 0, kind |-> k]

Site(n, flow) == [what |-> "site", name |-> n, flow |-> flow]
Reference(x, flow) == [what |-> "reference", name |-> x, flow |-> flow]
Lookup(r, slot) == [what |-> "lookup", name |-> r, slot |-> slot]

(* Within a predicate: the relation, and the kinds of the variables bound, *)
(* innermost last.                                                         *)
Unrouted == [relation |-> 0, variables |-> <<>>]
RoutedBy(r) == [relation |-> r, variables |-> <<>>]
SlotKind(r, slot) == At(Kinds(r), slot)
TermFlow(routing, term) ==
    LET r == routing.relation
        bound == routing.variables
    IN  OfKind(CASE term = Anchor -> SlotKind(r, Schema(r).current)
                 [] term = Candidate -> SlotKind(r, Schema(r).related)
                 [] term \in 0..(Len(bound) - 1) -> bound[Len(bound) - term]
                 [] OTHER -> NoKind)
ReadFlow(e, term) == IF e.routing.relation = 0 THEN e.flow ELSE TermFlow(e.routing, term)

(* A rule named in a predicate runs on the current id when its entity is   *)
(* the kind the derivation declares there.                                 *)
ReferenceFlow(x, flow, routing) ==
    LET r == routing.relation
    IN  IF r # 0 /\ RoutesToCurrent(r, Entity(x))
        THEN OfKind(SlotKind(r, Schema(r).current)) ELSE flow

References(x, flow) == IF x \in Rules THEN {Reference(x, flow)} ELSE {}

(* A derived relation is looked up by its current slot, a data relation by *)
(* every slot that is bound.                                               *)
TermLookups(n, bound) ==
    IF IsDerived(n.relation) THEN {Lookup(n.relation, Schema(n.relation).current)}
    ELSE {Lookup(n.relation, i - 1) : i \in bound}

(* An expression with what the collector passes down to it.                *)
Expression(i, flow, routing) == [node |-> i, flow |-> flow, routing |-> routing]
Body(e, flow, routing) ==
    {Expression(j, flow, routing) : j \in Elements(program.nodes[e.node].body)}

RelatedFlow(n) == OfKind(SlotKind(n.relation, TraversedSlots(n)[2]))

Inside(e) ==
    LET n == program.nodes[e.node]
    IN  CASE n.op \in {"aggregate", "only"} -> Body(e, RelatedFlow(n), Unrouted)
          [] n.op = "unbound" -> Body(e, e.flow, e.routing)
          [] n.op = "exists" ->
                Body(e, e.flow,
                     [e.routing EXCEPT !.variables = Append(@, SlotKind(n.relation, n.slot))])
          [] OTHER -> {}

Collects(e) ==
    LET n == program.nodes[e.node]
        read == ReadFlow(e, n.terms[1])
    IN  CASE n.op \in {"aggregate", "only"} ->
                {Lookup(n.relation, n.current), Site(e.node, RelatedFlow(n))}
                    \cup References(n.value, RelatedFlow(n))
          [] n.op = "rule" ->
                {Site(e.node, e.flow)} \cup
                IF n.value \in Rules
                THEN {Reference(n.value, ReferenceFlow(n.value, e.flow, e.routing))} ELSE {}
          [] n.op = "read" -> {Site(e.node, read)} \cup References(n.value, read)
          [] n.op = "member" -> {Lookup(n.relation, n.current)}
          [] n.op = "atom" -> TermLookups(n, DOMAIN n.terms)
          [] n.op = "exists" -> TermLookups(n, DOMAIN n.terms \ {n.slot + 1})
          [] n.op = "unbound" -> {Site(e.node, e.flow)}
          [] OTHER -> {}

Expressions(body, flow, routing) ==
    LET within[d \in 0..Len(program.nodes)] ==
            IF d = 0 THEN {Expression(i, flow, routing) : i \in Elements(body)}
            ELSE UNION {Inside(e) : e \in within[d - 1]}
    IN  UNION {within[d] : d \in 0..Len(program.nodes)}

(* Rules first, every version of them, then derived relations: what they   *)
(* are made from and their predicates.                                     *)
OfSources(r) ==
    IF Schema(r).path = <<>> /\ Schema(r).source \notin Relations THEN {}
    ELSE IF Schema(r).path = <<>> THEN {Lookup(Schema(r).source, Schema(r).current)}
    ELSE {LET step == Schema(r).path[i]
          IN  Lookup(step.relation, IF IsDerived(step.relation)
                                    THEN Schema(step.relation).current ELSE step.from)
             : i \in 1..Len(Schema(r).path)}

Collectors ==
    (UNION {Expressions(Formulas(x), OfRule(x), Unrouted) : x \in Rules}) \cup
    UNION {Expressions(Schema(r).predicate, OfKind(SlotKind(r, Schema(r).related)), RoutedBy(r))
           : r \in Derived}

Collection == (UNION {OfSources(r) : r \in Derived}) \cup UNION {Collects(e) : e \in Collectors}

(* `rule_kinds`: the least sets that hold each rule's own scope and the    *)
(* kinds of every reference to it. A kind reaches a rule through rules that *)
(* differ, so it takes no more rounds than there are rules.                *)
Flows(kinds, flow) ==
    IF flow.rule # 0 THEN kinds[flow.rule] ELSE {flow.kind} \ {NoKind}

OneRound == 1                                           \* mutant: not iterated
Rounds == Cardinality(Rules)
RuleKinds(found) ==
    LET referring(x) == {f \in found : f.what = "reference" /\ f.name = x}
        after[n \in 0..Rounds] ==
            IF n = 0 THEN [x \in Rules |-> {Scope(x)}]
            ELSE [x \in Rules |->
                     after[n - 1][x] \cup
                     UNION {Flows(after[n - 1], f.flow) : f \in referring(x)}]
    IN  after[Rounds]

(* Every kind a program evaluates on.                                      *)
EntityRoster(inputs) ==
    {Entity(x) : x \in Rules} \cup (UNION {Elements(slot_kinds[r]) : r \in Relations})
        \cup Entities
        \cup ({SCALAR_ENTITY} \cap UNION {inputs[n] : n \in DOMAIN inputs})

Announced ==
    LET found == Collection
        kinds == RuleKinds(found)
        sites == {f \in found : f.what = "site"}
        inputs == [n \in {f.name : f \in sites} |->
                      UNION {Flows(kinds, f.flow) : f \in {s \in sites : s.name = n}}]
    IN  [inputs |-> inputs,
         lookup_slots |-> [r \in Relations |->
             {f.slot : f \in {l \in found : l.what = "lookup" /\ l.name = r}}],
         entities |-> EntityRoster(inputs)]

DeriveInterface ==
    /\ phase = "accepted" /\ interface = Underived
    /\ interface' = Announced
    /\ UNCHANGED <<typing_vars, here>>

-----------------------------------------------------------------------------
(* The kind of the id on which a node's input is read.                     *)
ReadOn(n) ==
    CASE n.op \in {"aggregate", "only"} -> Gives(n.relation, TraversedSlots(n)[2])
      [] n.op = "read" -> TermId(n.terms[1])
      [] OTHER -> here.id

(* Whatever an accepted program evaluates, its interface has announced:    *)
(* every kind of id an input is read on, every slot a relation is looked   *)
(* up by, and no kind that is missing from its roster                      *)
(* (docs/artifact-format.md:261-286, "it is a superset of the kinds an     *)
(* evaluation actually reads the slot on").                                *)
InterfaceCovers ==
    interface # Underived =>
        /\ here.what = "body" =>
               \A i \in 1..Len(here.body) :
                   LET n == here.body[i]
                   IN  program.nodes[n].op \in {"aggregate", "only", "rule", "unbound", "read"} =>
                           ReadOn(program.nodes[n]) \in interface.inputs[n]
        /\ here.what = "lookup" => here.slots[1] \in interface.lookup_slots[here.relation]
        /\ UNION {interface.inputs[n] : n \in DOMAIN interface.inputs} \subseteq interface.entities
=============================================================================
