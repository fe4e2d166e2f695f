---------------------------- MODULE RelationReads ----------------------------
(***************************************************************************)
(* What an accepted program's formulas read (src/src/engine.rs), with each *)
(* id known by its entity kind only: a walk that follows one read after    *)
(* another, from a rule queried on an id of its entity. The typing check   *)
(* promises that the ids and the slots it meets are of one kind.           *)
(*                                                                         *)
(* A rule that another rule's formula reads by its plain name runs on that *)
(* rule's id. No check compares the two entities, so a rule may run on an  *)
(* id of another kind: a relation it looks up gives nothing, and the walk  *)
(* goes on from it by plain reads only.                                    *)
(***************************************************************************)
EXTENDS RelationTyping

VARIABLE here      \* where the evaluation is, or Nowhere

Nowhere == [what |-> "nowhere"]

(* Evaluating `body` on an id; within a predicate, the relation, the kind  *)
(* of the current id and those of the bound variables, innermost last.     *)
(* `rule` is the rule the body belongs to, or 0.                           *)
Evaluating(body, id, relation, current, variables, rule) ==
    [what |-> "body", body |-> body, id |-> id, relation |-> relation,
     current |-> current, variables |-> variables, rule |-> rule]
RunRule(x, id) == Evaluating(program.rules[x].base \o program.rules[x].versions,
                             id, 0, NoKind, <<>>, x)

(* Looking up an id in a slot of a relation.                               *)
LookUp(r, slots, id) == [what |-> "lookup", relation |-> r, slots |-> slots, id |-> id]

(* Two ids, or an id and a slot, that must be of one kind.                 *)
Meet(left, right) == [what |-> "meet", left |-> left, right |-> right]

-----------------------------------------------------------------------------
(* The kind of the ids a relation gives at a slot: a derived relation's    *)
(* members are those of its source, or of the last step of its path.       *)
(* Sources form no cycle, so a data relation is found.                     *)
Place(r, slot) == [relation |-> r, slot |-> slot]
SourcePlace(m) ==
    CASE ~IsDerived(m.relation) -> m
      [] IsDerived(m.relation) /\ Schema(m.relation).path = <<>> ->
            Place(Schema(m.relation).source, Schema(m.relation).related)
      [] OTHER -> LET last == Schema(m.relation).path[Len(Schema(m.relation).path)]
                  IN  Place(last.relation, last.to)

Gives(r, slot) ==
    LET from[n \in 0..Cardinality(Relations)] ==
            IF n = 0 THEN Place(r, slot) ELSE SourcePlace(from[n - 1])
        found == from[Cardinality(Relations)]
    IN  At(Schema(found.relation).kinds, found.slot)

(* `RelationEvalContext::entity_id_for`, or the id evaluated on.           *)
RoutedId(entity) ==
    IF here.relation = 0 THEN here.id
    ELSE IF RoutesToCurrent(here.relation, entity) THEN here.current
    ELSE here.id

TermId(term) ==
    CASE term = Anchor -> here.current
      [] term = Candidate -> here.id
      [] OTHER -> here.variables[Len(here.variables) - term]

InPredicate == here.relation # 0
Into(body) == [here EXCEPT !.body = body]

RuleRead(x, id) ==
    IF Entity(x) = SCALAR_ENTITY THEN {RunRule(x, id)}
    ELSE {RunRule(x, id), Meet(id, IdKind(Entity(x)))}

(* A plain read from a rule's own formula: see above.                      *)
PlainRead(x) ==
    IF here.rule = 0 THEN RuleRead(x, RoutedId(Entity(x))) ELSE {RunRule(x, here.id)}

Strayed == here.rule # 0 /\ IdKind(Entity(here.rule)) # here.id

AggregateReads(n) ==
    LET slots == TraversedSlots(n)
        related == Gives(n.relation, slots[2])
    IN  {LookUp(n.relation, slots, here.id),
         Evaluating(n.body, related, 0, NoKind, <<>>, 0)} \cup
        IF n.value \in Rules THEN RuleRead(n.value, related) ELSE {}

MemberReads(n) ==
    {LookUp(n.relation, <<n.current, n.related>>, here.current),
     Meet(here.id, Gives(n.relation, n.related))}

(* A derived relation is looked up by its current id, and an atom's        *)
(* related id sought among its members; the tuples of a data relation are  *)
(* compared with all the ids given.                                        *)
AtomReads(n, free) ==
    LET given == {i \in 1..Len(n.terms) : i - 1 # free}
        slots == Own(n.relation)
    IN  IF ~IsDerived(n.relation)
        THEN {Meet(TermId(n.terms[i]), At(Schema(n.relation).kinds, i - 1)) : i \in given}
        ELSE IF InRange(n.terms, slots)
        THEN {LookUp(n.relation, slots, TermId(n.terms[slots[1] + 1]))} \cup
             {Meet(TermId(n.terms[i]), Gives(n.relation, slots[2])) : i \in given \cap {slots[2] + 1}}
        ELSE {}

ExistsReads(n) ==
    AtomReads(n, n.slot) \cup
    {[Into(n.body) EXCEPT !.variables = Append(@, Gives(n.relation, n.slot))]}

ReadsOf(n) ==
    CASE n.op = "rule" /\ n.value \in Rules -> PlainRead(n.value)
      [] n.op \in {"aggregate", "only"} /\ ~Strayed -> AggregateReads(n)
      [] n.op = "unbound" /\ ~InPredicate -> {Into(n.body)}
      [] n.op = "member" /\ InPredicate -> MemberReads(n)
      [] n.op = "atom" /\ InPredicate -> AtomReads(n, -1)
      [] n.op = "exists" /\ InPredicate -> ExistsReads(n)
      [] n.op = "same" /\ InPredicate -> {Meet(TermId(n.terms[1]), TermId(n.terms[2]))}
      [] n.op = "read" /\ InPredicate /\ n.value \in Rules -> RuleRead(n.value, TermId(n.terms[1]))
      [] OTHER -> {}

(* Looking up a derived relation looks up its source, step by step, and    *)
(* evaluates its predicate on each member found.                           *)
Predicate(r, current) ==
    LET related == Gives(r, Schema(r).related)
    IN  Evaluating(Schema(r).predicate, related, r, current, <<>>, 0)

PathLookUps(r, current) ==
    LET path == Schema(r).path
    IN  {LookUp(path[i].relation, <<path[i].from, path[i].to>>,
                IF i = 1 THEN current ELSE Gives(path[i - 1].relation, path[i - 1].to))
         : i \in 1..Len(path)}

LookUpReads ==
    LET r == here.relation
    IN  IF ~IsDerived(r) THEN {Meet(here.id, At(Schema(r).kinds, here.slots[1]))}
        ELSE {Predicate(r, here.id)} \cup
             IF Schema(r).path = <<>> THEN {LookUp(Schema(r).source, Own(r), here.id)}
             ELSE PathLookUps(r, here.id)

(* The kind of the id a rule is queried on; of an entity-free rule's       *)
(* nothing is known.                                                       *)
Scope(x) == IF Entity(x) = SCALAR_ENTITY THEN SCALAR_ENTITY ELSE IdKind(Entity(x))

Query ==
    /\ phase = "accepted" /\ here = Nowhere
    /\ \E x \in Rules : here' = RunRule(x, Scope(x))
    /\ UNCHANGED typing_vars

Read ==
    /\ here.what = "body"
    /\ \E i \in 1..Len(here.body) : here' \in ReadsOf(program.nodes[here.body[i]])
    /\ UNCHANGED typing_vars

Traverse ==
    /\ here.what = "lookup"
    /\ here' \in LookUpReads
    /\ UNCHANGED typing_vars

Evaluate == Query \/ Read \/ Traverse

-----------------------------------------------------------------------------
(* An accepted program never looks an id up in a slot that holds ids of    *)
(* another kind, never compares ids of two kinds, and never runs a rule    *)
(* that it routes to an id (as an aggregated value, in a clause, in a      *)
(* predicate or through a term) on an id of a kind the rule's entity does  *)
(* not have: the lookup would silently find nothing.                       *)
KindsMeet == here.what = "meet" => here.left = here.right

(* The kinds of a relation, on its own: the ones the first relation on its *)
(* chain of sources declares.                                              *)
Declares(r) ==
    /\ r \in Relations
    /\ \/ IsDerived(r) /\ Schema(r).own # Unknown
       \/ Schema(r).kinds # Unknown
Chains(r) ==
    UNION {{c \in [1..n -> Relations] :
              /\ c[1] = r /\ Declares(c[n])
              /\ \A i \in 1..(n - 1) : /\ ~Declares(c[i]) /\ IsDerived(c[i])
                                       /\ Schema(c[i]).path = <<>> /\ Schema(c[i]).source = c[i + 1]}
           : n \in 1..Cardinality(Relations)}
KindsAlone(r) ==
    IF Chains(r) = {} THEN Unknown
    ELSE LET c == CHOOSE c \in Chains(r) : TRUE IN WrittenKinds(c[Len(c)])

(* Whatever order the chains are followed in and whatever they share, each *)
(* relation gets the kinds its own chain leads to and each filtered entity *)
(* the last kind on its own; and stamping, which rewrites declarations,    *)
(* leaves every relation the kinds direction was read from.                *)
KindsExact ==
    /\ phase = "directing" => \A r \in Relations : effective[r] = KindsAlone(r)
    /\ phase \in {"accepted", "ill-typed", "executed"} /\ here = Nowhere =>
        /\ \A r \in Relations : slot_kinds[r] = KindsAlone(r)
        /\ effective # <<>> => slot_kinds = effective
        /\ \A e \in DOMAIN filtered :
               /\ InnermostLink(filtered[e]).ends
               /\ \E n \in 1..Cardinality(Entities) : \E c \in [1..n -> DOMAIN Agreed(slot_kinds)] :
                      /\ c[1] = e /\ Agreed(slot_kinds)[c[n]] = filtered[e]
                      /\ \A i \in 1..(n - 1) : Agreed(slot_kinds)[c[i]] = c[i + 1]

(* Where declared kinds give an aggregation a direction, lowering and the  *)
(* check agree on it: the check blames the slots of a lowered aggregation  *)
(* only if neither slot holds the kind of its id. (Lowering follows a      *)
(* filtered entity one link, the check to the end.)                        *)
DirectionAgrees ==
    (phase = "walking" /\ purpose = "typing" /\ effective # <<>> /\ Meets("aggregate")) =>
        LET r == Node.relation
            entity == Visited.entity
        IN  /\ ~Diverges(r, <<Node.current, Node.related>>)
            /\ (Typed(r) /\ entity # NoKind /\ IdKind(entity) = SourceKind(entity) /\ TypedSlots(r) # Unknown
                  /\ ~Fits(entity, At(Kinds(r), Node.current))) =>
                    \A kind \in Elements(Kinds(r)) : ~Fits(entity, kind)

(* The relations named anywhere in a formula.                              *)
NamedIn(body) ==
    LET named[i \in DOMAIN program.nodes] ==
            LET n == program.nodes[i]
            IN  (IF n.op \in {"aggregate", "only", "member", "atom", "exists"} THEN {n.relation} ELSE {})
                \cup UNION {named[j] : j \in Elements(n.body)}
    IN  UNION {named[i] : i \in Elements(body)}

Leads(S) == S \cup UNION {Elements(Sources(r)) \cup NamedIn(Schema(r).predicate) : r \in S \cap Derived}
ReachedFrom(S) ==
    LET after[n \in 0..(Cardinality(Relations) + 1)] == IF n = 0 THEN S ELSE Leads(after[n - 1])
    IN  after[Cardinality(Relations) + 1]

(* The relations the walk collects are the ones evaluation can come to     *)
(* read, through sources, paths and predicates, whatever they share: an    *)
(* artifact's evidence for the migration, and what must be typed.          *)
ExecutedExact ==
    /\ phase \in {"accepted", "ill-typed", "executed"} =>
           used = ReachedFrom(UNION {NamedIn(Executed(x, purpose)) : x \in Rules})
    /\ here.what = "lookup" => here.relation \in used
=============================================================================
