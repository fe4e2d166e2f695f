--------------------------- MODULE Constitutions ---------------------------
(***************************************************************************)
(* Constitution plans of the optional unit derivation                      *)
(* (src/unit_derivation/types.rs, compile.rs): what a plan declares, how   *)
(* its guards read facts, and what compile() refuses.                      *)
(*                                                                         *)
(* A fact is a tuple that starts with its kind: <<"bool", name>>,          *)
(* <<"relation", family, persons>>, or <<"legal", cut, edge>> for a        *)
(* precedence question the law leaves open.  A guard is a tuple too:       *)
(* <<"lit", value>>, <<"fact", fact>>, <<"derived", id>>, and              *)
(* <<"all", guards>>, <<"any", guards>>, <<"not", guards>> over a          *)
(* sequence of guards (one for "not").  Sequences of rules stand in the    *)
(* order of their ids, the order of the code's BTreeMaps.                  *)
(***************************************************************************)
EXTENDS Integers, FiniteSets, Sequences, SequencesExt

Each(rules) == {rules[i] : i \in DOMAIN rules}

Distinct(rules, key(_)) ==
    \A i, j \in DOMAIN rules : key(rules[i]) = key(rules[j]) => i = j

NamedPersons(fact) ==
    IF fact[1] = "relation" THEN Each(fact[3]) ELSE {}

Crosses(edge, members) == (edge.left \in members) # (edge.right \in members)

Endpoints(edge) == {edge.left, edge.right}

-----------------------------------------------------------------------------
(* Guards. *)

DerivedNamed(plan, id) == CHOOSE rule \in Each(plan.derived) : rule.id = id

RECURSIVE FactRefs(_, _)
FactRefs(plan, guard) ==
    CASE guard[1] = "lit"     -> {}
      [] guard[1] = "fact"    -> {guard[2]}
      [] guard[1] = "derived" -> FactRefs(plan, DerivedNamed(plan, guard[2]).expr)
      [] OTHER -> UNION {FactRefs(plan, item) : item \in Each(guard[2])}

RECURSIVE Holds(_, _, _)
Holds(plan, guard, world) ==
    CASE guard[1] = "lit"     -> guard[2]
      [] guard[1] = "fact"    -> world[guard[2]]
      [] guard[1] = "derived" -> Holds(plan, DerivedNamed(plan, guard[2]).expr, world)
      [] guard[1] = "all" -> \A item \in Each(guard[2]) : Holds(plan, item, world)
      [] guard[1] = "any" -> \E item \in Each(guard[2]) : Holds(plan, item, world)
      [] guard[1] = "not" -> ~Holds(plan, guard[2][1], world)

RECURSIVE GuardStands(_, _, _)
GuardStands(plan, guard, visiting) ==
    CASE guard[1] \in {"lit", "fact"} -> TRUE
      [] guard[1] = "derived" ->
           \E rule \in Each(plan.derived) :
               /\ rule.id = guard[2]
               /\ rule.id \notin visiting
               /\ rule.stratum # "unit"
               /\ GuardStands(plan, rule.expr, visiting \cup {rule.id})
      [] OTHER -> \A item \in Each(guard[2]) : GuardStands(plan, item, visiting)

EdgeGuards(edge) == {edge.when} \cup {defeater.when : defeater \in Each(edge.defeaters)}

MergingRules(plan) == Each(plan.cuts) \cup Each(plan.attachments)

GuardedRules(plan) == MergingRules(plan) \cup Each(plan.bars) \cup Each(plan.statuses)

Guards(plan) ==
    UNION {EdgeGuards(edge) : edge \in Each(plan.edges)}
        \cup {rule.when : rule \in GuardedRules(plan)}

Uses(plan, guards, fact) == \E guard \in guards : fact \in FactRefs(plan, guard)

-----------------------------------------------------------------------------
(* The order declared between cuts. *)

CutNamed(plan, id) == CHOOSE cut \in Each(plan.cuts) : cut.id = id

RECURSIVE Downward(_, _)
Downward(plan, ids) ==
    LET wider == ids \cup UNION {Each(CutNamed(plan, id).precedes) : id \in ids}
    IN IF wider = ids THEN ids ELSE Downward(plan, wider)

OrderReaches(plan, from, target) ==
    target \in Downward(plan, Each(CutNamed(plan, from).precedes))

CutSetPrecedes(plan, higher, lower) ==
    \E from \in higher, target \in lower : OrderReaches(plan, from, target)

DecisionOn(cut, edge) ==
    (CHOOSE item \in Each(cut.precedence) : item.edge = edge.id).decision

Combining(plan) == {edge \in Each(plan.edges) : edge.kind = "combination"}

-----------------------------------------------------------------------------
(* The checks of compile(), in its order. *)

RulesDistinct(plan) ==
    LET Id(rule) == rule.id
    IN /\ Distinct(plan.derived, Id)
       /\ Distinct(plan.edges, Id)
       /\ \A edge \in Each(plan.edges) :
              edge.left # edge.right /\ Distinct(edge.defeaters, Id)
       /\ Distinct(plan.cuts, Id)
       /\ \A cut \in Each(plan.cuts) :
              LET Edge(item) == item.edge
                  Lower(id) == id
              IN /\ cut.members # {}
                 /\ Distinct(cut.precedence, Edge)
                 /\ Distinct(cut.precedes, Lower)
       /\ Distinct(plan.attachments, Id)
       /\ \A rule \in Each(plan.attachments) :
              /\ rule.members # {}
              /\ rule.anchor \notin rule.members
              /\ \A election \in rule.election : election.actor = rule.actor
       /\ Distinct(plan.bars, Id)
       /\ \A bar \in Each(plan.bars) : bar.members # {}
       /\ Distinct(plan.statuses, Id)

GuardsStand(plan) ==
    /\ \A guard \in Guards(plan) : GuardStands(plan, guard, {})
    /\ \A rule \in Each(plan.derived) : GuardStands(plan, rule.expr, {rule.id})

ElectionsOf(plan) == UNION {rule.election : rule \in MergingRules(plan)}

ElectionsAgree(plan) ==
    /\ \A rule \in MergingRules(plan) : \A election \in rule.election :
           <<"bool", election.fact>> \in FactRefs(plan, rule.when)
    /\ \A one, other \in ElectionsOf(plan) : one.fact = other.fact => one = other

PrecedenceSettled(plan) ==
    /\ \A cut \in Each(plan.cuts) :
           /\ \A edge \in Combining(plan) : Crosses(edge, cut.members) =>
                  \E item \in Each(cut.precedence) : item.edge = edge.id
           /\ \A item \in Each(cut.precedence) :
                  \E edge \in Combining(plan) : edge.id = item.edge
           /\ \A lower \in Each(cut.precedes) :
                  \E other \in Each(plan.cuts) : other.id = lower
    /\ \A cut \in Each(plan.cuts) : ~OrderReaches(plan, cut.id, cut.id)
    /\ \A left, right \in Each(plan.cuts) : \A edge \in Combining(plan) :
           \/ left.members # right.members
           \/ ~Crosses(edge, left.members)
           \/ DecisionOn(left, edge) = DecisionOn(right, edge)
           \/ OrderReaches(plan, left.id, right.id)
           \/ OrderReaches(plan, right.id, left.id)

\* Mutant: attachments are taken in the order of their ids.
OrderedAttachments(plan) ==
    \A i, j \in DOMAIN plan.attachments : i < j =>
        plan.attachments[i].members \cap plan.attachments[j].members = {}

AttachmentsConfluent(plan) ==
    \A i, j \in DOMAIN plan.attachments : i < j =>
        LET left == plan.attachments[i]
            right == plan.attachments[j]
        IN /\ left.members \cap right.members = {}
           /\ right.anchor \notin left.members
           /\ left.anchor \notin right.members

Compiles(plan) ==
    /\ RulesDistinct(plan)
    /\ GuardsStand(plan)
    /\ ElectionsAgree(plan)
    /\ PrecedenceSettled(plan)
    /\ AttachmentsConfluent(plan)

=============================================================================
