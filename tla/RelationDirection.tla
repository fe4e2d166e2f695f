-------------------------- MODULE RelationDirection --------------------------
(***************************************************************************)
(* Lowering's last pass (src/src/relation_direction.rs, `resolve`): every  *)
(* aggregation and membership test leaves lowering with the slots its      *)
(* source wrote or the legacy ones, and gets those the declared kinds say. *)
(* A derivation that declares no kinds is then stamped with its source's.  *)
(*                                                                         *)
(* The nodes met are kept on an agenda, each with what the recursion that  *)
(* reaches it passes along: the kind of the id it is evaluated on and,     *)
(* within a predicate, the kinds of the two ids it relates.                *)
(***************************************************************************)
EXTENDS RelationKinds

VARIABLES agenda,        \* nodes to visit: [node, entity, member, citing]
          effective,     \* the kinds of every relation before the pass
          atom_targets,  \* relations named by an atom or an exists
          role_owners,   \* derived relations whose predicates use terms
          error          \* what lowering refuses, if anything

direction == <<agenda, effective, atom_targets, role_owners, error>>

NoMember == [bound |-> FALSE]
Bound(current, related) == [bound |-> TRUE, current |-> current, related |-> related]

Visit(body, entity, member, citing) ==
    [i \in 1..Len(body) |-> [node |-> body[i], entity |-> entity, member |-> member,
                             citing |-> citing]]

(* The current and related kinds a predicate is evaluated with.            *)
SourceOnly(kinds, r) == <<>>     \* mutant: a derivation's predicate is not walked
PredicateVisit(kinds, r) ==
    LET current == At(kinds[r], Schema(r).current)
        related == At(kinds[r], Schema(r).related)
    IN  Visit(Schema(r).predicate, related, Bound(current, related), r)

InOrder(S) ==
    [i \in 1..Cardinality(S) |-> CHOOSE x \in S : Cardinality({y \in S : y <= x}) = i]
Joined(lists) ==
    LET upto[i \in 0..Len(lists)] == IF i = 0 THEN <<>> ELSE upto[i - 1] \o lists[i]
    IN  upto[Len(lists)]
Across(S, list(_)) == Joined([i \in 1..Cardinality(S) |-> list(InOrder(S)[i])])

(* A rule's formulas: the base semantics, then those of its versions.      *)
Formulas(x) == program.rules[x].base \o program.rules[x].versions
Entity(x) == program.rules[x].entity

Visited == Head(agenda)
Node == program.nodes[Visited.node]
Meets(op) == agenda # <<>> /\ Node.op = op
Push(visits) == agenda' = visits \o Tail(agenda)
Within(entity, member) == Visit(Node.body, entity, member, Visited.citing)

-----------------------------------------------------------------------------
(* `Relations::typed` and `filtered`: the latter one link deep.            *)
Typed(r) == r \in Relations \ Derived /\ Len(Schema(r).kinds) = 2
SourceKind(entity) ==
    IF entity \in DOMAIN Agreed(effective) THEN Agreed(effective)[entity] ELSE entity
SlotsOf(r, kind) == {s \in {0, 1} : At(Schema(r).kinds, s) = kind}

Refuse(what) ==
    /\ phase' = "refused"
    /\ error' = what
    /\ UNCHANGED <<program, chain, agenda, effective, atom_targets, role_owners>>

(* A derived relation left to the legacy slots must not relate ids of one  *)
(* kind: nothing would say which way.                                      *)
Unreadable ==
    \E r \in Derived :
        /\ Schema(r).defaulted
        /\ At(effective'[r], Schema(r).current) # NoKind
        /\ At(effective'[r], Schema(r).current) = At(effective'[r], Schema(r).related)

DeclareKinds ==
    /\ phase = "declared"
    /\ AllFollowed(Relations)
    /\ effective' = [r \in Relations |-> chain.resolved[r]]
    /\ agenda' = Across(Rules, LAMBDA x : Visit(Formulas(x), Entity(x), NoMember, 0)) \o
                 Across(Derived, LAMBDA r : PredicateVisit(effective', r))
    /\ chain' = NoWalk
    /\ IF Unreadable THEN phase' = "refused" /\ error' = "derived_slots"
       ELSE phase' = "directing" /\ UNCHANGED error
    /\ UNCHANGED <<program, atom_targets, role_owners>>

Directing == phase = "directing"
Onward == UNCHANGED <<phase, chain, effective, error>>

-----------------------------------------------------------------------------
(* Slots an aggregation gets: a derivation's own, whatever it wrote; over  *)
(* a binary data relation the one slot of the id's kind comes first.       *)
LegacySlots(r, entity) == <<1, 0>>       \* mutant: direction is never read
DirectedSlots(r, entity) ==
    CASE IsDerived(r) -> <<Schema(r).current, Schema(r).related>>
      [] Typed(r) /\ Cardinality(SlotsOf(r, SourceKind(entity))) = 1 ->
            LET s == CHOOSE s \in SlotsOf(r, SourceKind(entity)) : TRUE IN <<s, 1 - s>>
      [] OTHER -> <<Node.current, Node.related>>

(* The kind of the ids the aggregation's clause and value are read on.     *)
RelatedKind(r, slots) ==
    CASE IsDerived(r) -> At(effective[r], slots[2])
      [] Typed(r) -> At(Schema(r).kinds, slots[2])
      [] OTHER -> NoKind

Ambiguous ==
    Typed(Node.relation) /\ Cardinality(SlotsOf(Node.relation, SourceKind(Visited.entity))) = 2

(* `only_related` reads a Boolean input declared once, for the related     *)
(* entity; `input_of` is the entity of such a declaration.                 *)
Misdeclared(kind) ==
    Node.op = "only" /\ (Node.value # 0 \/ kind = NoKind \/ Node.input_of # kind)

Rewrite(slots) ==
    program' = [program EXCEPT !.nodes[Visited.node].current = slots[1],
                               !.nodes[Visited.node].related = slots[2]]

DirectAggregate ==
    /\ Directing /\ (Meets("aggregate") \/ Meets("only"))
    /\ ~Ambiguous
    /\ LET slots == DirectedSlots(Node.relation, Visited.entity)
           kind == RelatedKind(Node.relation, slots)
       IN  /\ ~Misdeclared(kind)
           /\ Rewrite(slots)
           /\ Push(Within(kind, NoMember))
    /\ UNCHANGED <<atom_targets, role_owners>> /\ Onward

RefuseAggregate ==
    /\ Directing /\ (Meets("aggregate") \/ Meets("only"))
    /\ \/ Ambiguous /\ Refuse("aggregate")
       \/ /\ ~Ambiguous
          /\ Misdeclared(RelatedKind(Node.relation, DirectedSlots(Node.relation, Visited.entity)))
          /\ Refuse("only_related_input")

(* A membership test within a predicate puts the current and the related   *)
(* id each in the slot of its kind.                                        *)
MemberSlots ==
    LET r == Node.relation
        m == Visited.member
    IN  CASE IsDerived(r) -> <<Schema(r).current, Schema(r).related>>
          [] /\ ~IsDerived(r) /\ Typed(r) /\ m.bound
             /\ m.current # NoKind /\ m.related # NoKind /\ m.current # m.related
             /\ Cardinality(SlotsOf(r, m.current)) = 1 /\ Cardinality(SlotsOf(r, m.related)) = 1 ->
                <<CHOOSE s \in SlotsOf(r, m.current) : TRUE, CHOOSE s \in SlotsOf(r, m.related) : TRUE>>
          [] OTHER -> <<Node.current, Node.related>>

SameKindTest ==
    /\ Typed(Node.relation) /\ Visited.member.bound
    /\ Visited.member.current # NoKind
    /\ Visited.member.current = Visited.member.related
    /\ Cardinality(SlotsOf(Node.relation, Visited.member.current)) = 2

DirectMember ==
    /\ Directing /\ Meets("member") /\ ~SameKindTest
    /\ Rewrite(MemberSlots)
    /\ Push(<<>>)
    /\ UNCHANGED <<atom_targets, role_owners>> /\ Onward

RefuseMember ==
    /\ Directing /\ Meets("member") /\ SameKindTest
    /\ Refuse("aggregate")

(* Atoms, exists and comparisons of terms need declared kinds: they mark   *)
(* their relations and the predicate that holds them.                      *)
DirectTerms ==
    /\ Directing /\ (Meets("atom") \/ Meets("exists") \/ Meets("same"))
    /\ atom_targets' = atom_targets \cup IF Node.op = "same" THEN {} ELSE {Node.relation}
    /\ role_owners' = role_owners \cup ({Visited.citing} \ {0})
    /\ Push(Within(Visited.entity, Visited.member))
    /\ UNCHANGED program /\ Onward

(* A match fallback's patterns and a reduction over periods ("unbound")    *)
(* keep the id and lose the binding of the predicate.                      *)
DirectOther ==
    /\ Directing /\ (Meets("rule") \/ Meets("unbound") \/ Meets("read"))
    /\ Push(Within(Visited.entity, NoMember))
    /\ UNCHANGED <<program, atom_targets, role_owners>> /\ Onward

-----------------------------------------------------------------------------
(* Stamping. A derivation between two kinds takes its source's kinds as    *)
(* its own, so that predicates read each rule on the id of its entity; but *)
(* not where an atom must find kinds that somebody declared.               *)
Stamped(r) ==
    /\ Schema(r).own = Unknown
    /\ ~(Schema(r).kinds = Unknown /\ r \in atom_targets \cup role_owners)
    /\ At(effective[r], Schema(r).current) # NoKind
    /\ At(effective[r], Schema(r).current) # At(effective[r], Schema(r).related)

StampSwapped(r) == <<effective[r][2], effective[r][1]>>   \* mutant: in traversal order
Stamp(r) == effective[r]

StampKinds ==
    /\ Directing /\ agenda = <<>>
    /\ program' = [program EXCEPT !.relations = [r \in Relations |->
            IF r \in Derived /\ Stamped(r)
            THEN [Schema(r) EXCEPT !.own = Stamp(r),
                                   !.kinds = IF @ = Unknown THEN Stamp(r) ELSE @]
            ELSE Schema(r)]]
    /\ phase' = "kinds"
    /\ UNCHANGED <<chain, direction>>

Direct ==
    \/ phase = "declared" /\ FollowChains(Relations, OwnKinds, Unknown)
       /\ UNCHANGED <<program, phase, direction>>
    \/ DeclareKinds \/ DirectAggregate \/ RefuseAggregate \/ DirectMember \/ RefuseMember
    \/ DirectTerms \/ DirectOther \/ StampKinds
=============================================================================
