---------------------------- MODULE RelationTyping ----------------------------
(***************************************************************************)
(* The typing check of relations (src/src/relation_typing.rs): the walk of *)
(* every executed formula and of the derived relations it reaches, which   *)
(* either collects the relations explain executes or, for the compiler,    *)
(* the faults of their slots, and the check of terms in predicates.        *)
(*                                                                         *)
(* A program comes from lowering, directed, or as it was written, in an    *)
(* artifact or a request.                                                  *)
(***************************************************************************)
EXTENDS RelationDirection

VARIABLES purpose,         \* "typing" or "execution"
          slot_kinds,      \* EffectiveSlotEntities
          filtered,        \* filtered entity -> kind of its ids
          used,            \* used_relations
          unchecked,       \* used relations whose derivation is not checked
          violations       \* [code, relation, citing]

checker == <<purpose, slot_kinds, filtered, used, unchecked, violations>>
typing_vars == <<program, phase, chain, agenda, effective, atom_targets, role_owners, error,
                 purpose, slot_kinds, filtered, used, unchecked, violations>>

(* A program written elsewhere, in an artifact or a request, is compiled   *)
(* as it stands.                                                           *)
TypingInit ==
    /\ \/ phase = "declared" /\ \E family \in Programs : program \in family
       \/ phase = "kinds" /\ \E family \in WrittenPrograms : program \in family
    /\ purpose = "none"
    /\ chain = NoWalk
    /\ agenda = <<>> /\ effective = <<>> /\ atom_targets = {} /\ role_owners = {}
    /\ error = "none"
    /\ slot_kinds = <<>> /\ filtered = <<>> /\ used = {} /\ unchecked = <<>> /\ violations = {}

-----------------------------------------------------------------------------
(* The tables: slot kinds, and the innermost kind of each filtered entity. *)
Declared(r) == r \in Relations
Kinds(r) == IF Declared(r) THEN slot_kinds[r] ELSE Unknown

(* Filtered entities that stand for the ids of another kind.               *)
Aliases ==
    IF purpose = "typing" THEN {e \in Entities : CurrentKinds(slot_kinds, e) \ {e} # {}} ELSE {}

ReadKinds ==
    /\ phase = "kinds" /\ AllFollowed(Relations)
    /\ slot_kinds' = [r \in Relations |-> chain.resolved[r]]
    /\ chain' = NoWalk
    /\ phase' = "innermost"
    /\ UNCHANGED <<program, direction, purpose, filtered, used, unchecked, violations>>

InnermostLink(kind) == FilterLink(Agreed(slot_kinds), kind)

(* Walk order: rules in name order; explain reads a versioned rule's       *)
(* versions only, the dense compiler its base semantics too.               *)
Executed(x, for) ==
    IF for = "typing" \/ program.rules[x].versions = <<>>
    THEN Formulas(x) ELSE program.rules[x].versions

(* `filtered_entity_conflicts`: filters that disagree on the ids of their  *)
(* entity.                                                                 *)
Conflicts ==
    {[code |-> "filtered_entity_kind_conflict", relation |-> 0, citing |-> e] :
        e \in {e \in Entities : Cardinality(CurrentKinds(slot_kinds, e)) > 1}}

StartChecking ==
    /\ phase = "innermost"
    /\ AllFollowed(DOMAIN Agreed(slot_kinds))
    /\ purpose' \in {"typing", "execution"}
    /\ filtered' = IF purpose' = "execution" THEN <<>>
                   ELSE [e \in {e \in DOMAIN Agreed(slot_kinds) : chain.resolved[e] # NoKind} |->
                            chain.resolved[e]]
    /\ violations' = IF purpose' = "typing" THEN Conflicts ELSE {}
    /\ agenda' = Across(Rules, LAMBDA x : Visit(Executed(x, purpose'), Entity(x), NoMember, x))
    /\ phase' = "walking"
    /\ UNCHANGED <<program, chain, effective, atom_targets, role_owners, error,
                   slot_kinds, used, unchecked>>

IdKind(entity) == IF entity \in DOMAIN filtered THEN filtered[entity] ELSE entity
Fits(entity, kind) == entity = kind \/ IdKind(entity) = kind

-----------------------------------------------------------------------------
(* What a use of a relation says of its own declaration (`typed_slots`).   *)
SlotFaults(r) ==
    CASE ~Declared(r) -> {"unknown_relation"}
      [] Declared(r) /\ Kinds(r) = Unknown -> {"untyped_relation"}
      [] Declared(r) /\ Len(Kinds(r)) \notin {0, Schema(r).arity} -> {"relation_slot_entity_count"}
      [] Declared(r) /\ Len(Kinds(r)) = Schema(r).arity /\ Elements(Kinds(r)) \cap Aliases # {} ->
            {"relation_slot_kind_is_filtered_entity"}
      [] OTHER -> {}

TypedSlots(r) == IF SlotFaults(r) = {} THEN Kinds(r) ELSE Unknown
InRange(kinds, slots) == slots[1] < Len(kinds) /\ slots[2] < Len(kinds)
Own(r) == <<Schema(r).current, Schema(r).related>>
Diverges(r, slots) == IsDerived(r) /\ slots # Own(r)

Fault(codes, r, citing) == {[code |-> c, relation |-> r, citing |-> citing] : c \in codes}
Code(c, holds) == IF holds THEN {c} ELSE {}

(* A relation is queued at its first use.                                  *)
Use(list, queue) ==
    /\ used' = used \cup Elements(list)
    /\ unchecked' = queue \o Joined([i \in 1..Len(list) |->
           IF list[i] \in used \cup {list[j] : j \in 1..(i - 1)} THEN <<>> ELSE <<list[i]>>])

Report(found) == violations' = violations \cup IF purpose = "typing" THEN found ELSE {}
Keep == UNCHANGED <<program, phase, chain, effective, atom_targets, role_owners, error,
                    purpose, slot_kinds, filtered>>

Walking == phase = "walking"

-----------------------------------------------------------------------------
(* Rules read on the related id of an aggregation: its value, and what its *)
(* clause reads outside any nested aggregation.                            *)
RulesRead(body) ==
    LET read[i \in DOMAIN program.nodes] ==
            LET n == program.nodes[i]
            IN  IF n.op = "rule" THEN {n.value}
                ELSE IF n.op \in {"unbound", "exists"} THEN UNION {read[j] : j \in Elements(n.body)}
                ELSE {}
    IN  UNION {read[i] : i \in Elements(body)}

RelatedRules(n) == RulesRead(n.body) \cup ({n.value} \ {0})

TraversedSlots(n) == IF IsDerived(n.relation) THEN Own(n.relation) ELSE <<n.current, n.related>>

AnyKind(n, entity, kinds) == FALSE         \* mutant: the id's kind is not compared
KeyedWrong(n, entity, kinds) ==
    /\ entity # NoKind
    /\ ~Fits(entity, At(kinds, TraversedSlots(n)[1]))

Strays(n, kinds) ==
    {x \in RelatedRules(n) \cap Rules :
        Entity(x) # SCALAR_ENTITY /\ ~Fits(Entity(x), At(kinds, TraversedSlots(n)[2]))}

AggregateCodes(n, entity) ==
    LET r == n.relation
        kinds == TypedSlots(r)
        slots == TraversedSlots(n)
        inside == kinds # Unknown /\ InRange(kinds, slots)
    IN  SlotFaults(r) \cup
        Code("derived_relation_slots_diverge", Diverges(r, <<n.current, n.related>>)) \cup
        Code("relation_slot_out_of_range", kinds # Unknown /\ ~InRange(kinds, slots)) \cup
        Code("relation_current_slot_entity_mismatch", inside /\ KeyedWrong(n, entity, kinds)) \cup
        Code("relation_related_slot_entity_mismatch", inside /\ Strays(n, kinds) # {}) \cup
        Code("only_related_shape",
             n.op = "only" /\ \/ n.current = n.related \/ n.current > 1 \/ n.related > 1
                              \/ n.value # 0 \/ (Declared(r) /\ Schema(r).arity # 2))

(* The clause runs on the related id, whose kind is known only when the    *)
(* declaration is in order.                                                *)
ClauseKind(n) ==
    LET kinds == TypedSlots(n.relation)
    IN  IF kinds # Unknown /\ InRange(kinds, TraversedSlots(n))
        THEN At(kinds, TraversedSlots(n)[2]) ELSE NoKind

CheckAggregate ==
    /\ Walking /\ (Meets("aggregate") \/ Meets("only"))
    /\ Use(<<Node.relation>>, unchecked)
    /\ Report(Fault(AggregateCodes(Node, Visited.entity), Node.relation, Visited.citing))
    /\ Push(Within(ClauseKind(Node), NoMember))
    /\ Keep

MemberCodes(n, member) ==
    LET r == n.relation
        kinds == TypedSlots(r)
        inside == kinds # Unknown /\ InRange(kinds, <<n.current, n.related>>)
    IN  SlotFaults(r) \cup
        Code("derived_relation_slots_diverge",
             kinds # Unknown /\ Diverges(r, <<n.current, n.related>>)) \cup
        Code("relation_slot_out_of_range",
             kinds # Unknown /\ ~InRange(kinds, <<n.current, n.related>>)) \cup
        Code("relation_membership_slot_entity_mismatch",
             inside /\ member.bound /\
                \/ member.current # NoKind /\ At(kinds, n.current) # member.current
                \/ member.related # NoKind /\ At(kinds, n.related) # member.related)

CheckMember ==
    /\ Walking /\ Meets("member")
    /\ Use(<<Node.relation>>, unchecked)
    /\ Report(Fault(MemberCodes(Node, Visited.member), Node.relation, Visited.citing))
    /\ Push(<<>>)
    /\ Keep

CheckTerms ==
    /\ Walking /\ (Meets("atom") \/ Meets("exists"))
    /\ Use(<<Node.relation>>, unchecked)
    /\ Push(Within(Visited.entity, Visited.member))
    /\ UNCHANGED violations /\ Keep

(* Rule reads are not compared with the kind of the id: on an id of their  *)
(* own kind they are checked as rules.                                     *)
CheckOther ==
    /\ Walking /\ (Meets("rule") \/ Meets("unbound") \/ Meets("read") \/ Meets("same"))
    /\ Push(Within(Visited.entity, NoMember))
    /\ UNCHANGED <<used, unchecked, violations>> /\ Keep

-----------------------------------------------------------------------------
(* Derived relations, one at a time from the queue. A filter must agree    *)
(* with its source in kinds and in direction; a path must lead from kind   *)
(* to kind along binary relations, forward through derived ones.           *)
SourceFaults(r) ==
    LET source == Schema(r).source
        kinds == TypedSlots(source)
    IN  Fault(SlotFaults(source), source, r) \cup
        Fault(Code("derived_relation_source_slot_conflict",
                   kinds # Unknown /\ \E d \in {Schema(r).own, Schema(r).kinds} : d \notin {Unknown, kinds}),
              r, r) \cup
        Fault(Code("derived_relation_slots_diverge", IsDerived(source) /\ Own(source) # Own(r)), r, r)

Binary(slots) == slots[1] < 2 /\ slots[2] < 2 /\ slots[1] # slots[2]

PathDeclared(r) ==
    /\ Schema(r).arity = 2 /\ Binary(Own(r)) /\ Len(Schema(r).own) = 2
    /\ Schema(r).kinds \in {Unknown, Schema(r).own}

(* The kind a path has reached before its i-th step, if that is known.     *)
Reached(r, i) ==
    IF i = 1 THEN At(Schema(r).own, Schema(r).current)
    ELSE At(TypedSlots(Schema(r).path[i - 1].relation), Schema(r).path[i - 1].to)

StepFaults(r, i) ==
    LET step == Schema(r).path[i]
        slots == <<step.from, step.to>>
        from == At(TypedSlots(step.relation), step.from)
    IN  Fault(SlotFaults(step.relation) \cup
              Code("relation_path_step_arity",
                   Declared(step.relation) /\ Schema(step.relation).arity # 2) \cup
              Code("relation_path_step_slots", ~Binary(slots)) \cup
              Code("inverse_derived_traversal_unsupported", Diverges(step.relation, slots)) \cup
              Code("relation_path_kind_mismatch",
                   from # NoKind /\ Reached(r, i) \notin {NoKind, from}),
              step.relation, r)

PathFaults(r) ==
    LET steps == Len(Schema(r).path)
        declared == At(Schema(r).own, Schema(r).related)
    IN  (UNION {StepFaults(r, i) : i \in 1..steps}) \cup
        Fault(Code("relation_path_requires_binary_declaration", ~PathDeclared(r)) \cup
              Code("relation_path_kind_mismatch",
                   declared # NoKind /\ Reached(r, steps + 1) \notin {NoKind, declared}), r, r)

(* A rule read by a predicate runs on the current id if its entity is the  *)
(* kind the derivation itself declares there, else on the related id.      *)
RoutesToCurrent(r, entity) == At(Schema(r).own, Schema(r).current) = entity

PredicateStrays(r) ==
    LET related == At(Kinds(r), Schema(r).related)
    IN  {x \in RulesRead(Schema(r).predicate) \cap Rules :
            /\ related # NoKind
            /\ Entity(x) # SCALAR_ENTITY
            /\ ~RoutesToCurrent(r, Entity(x))
            /\ At(Schema(r).own, Schema(r).related) # Entity(x)
            /\ ~Fits(Entity(x), related)}

Sources(r) ==
    IF Schema(r).path = <<>> THEN <<Schema(r).source>>
    ELSE [i \in 1..Len(Schema(r).path) |-> Schema(r).path[i].relation]

CheckDerived ==
    /\ Walking /\ agenda = <<>> /\ unchecked # <<>>
    /\ LET r == unchecked[Len(unchecked)]
           queue == SubSeq(unchecked, 1, Len(unchecked) - 1)
       IN  IF IsDerived(r)
           THEN /\ Use(Sources(r), queue)
                /\ Report((IF Schema(r).path = <<>> THEN SourceFaults(r) ELSE PathFaults(r)) \cup
                          Fault(Code("relation_predicate_entity_mismatch", PredicateStrays(r) # {}), r, r))
                /\ agenda' = PredicateVisit(slot_kinds, r)
           ELSE /\ unchecked' = queue
                /\ UNCHANGED <<used, violations, agenda>>
    /\ Keep

-----------------------------------------------------------------------------
(* Terms. Every rule and every derived relation is checked, used or not: a *)
(* term stands for an id only within a predicate and outside the clauses   *)
(* of its aggregations, and has the kind its derivation declares.          *)
(* [node, clause, bindings]: the relation of the innermost clause around   *)
(* it, and the generators that bind variables, outermost first.            *)
TermOps == {"read", "atom", "same", "exists"}

Around(n, use) ==
    [node |-> use.node,
     clause |-> IF n.op = "aggregate" /\ use.clause = 0 THEN n.relation ELSE use.clause,
     bindings |-> IF n.op = "exists"
                  THEN <<[relation |-> n.relation, slot |-> n.slot]>> \o use.bindings
                  ELSE use.bindings]

TermUses(body) ==
    LET uses[i \in DOMAIN program.nodes] ==
            LET n == program.nodes[i]
            IN  (IF n.op \in TermOps THEN {[node |-> n, clause |-> 0, bindings |-> <<>>]} ELSE {})
                \cup {Around(n, use) : use \in UNION {uses[j] : j \in Elements(n.body)}}
    IN  UNION {uses[i] : i \in Elements(body)}

WrittenKinds(r) ==
    IF ~Declared(r) THEN Unknown
    ELSE IF IsDerived(r) /\ Schema(r).own # Unknown THEN Schema(r).own ELSE Schema(r).kinds

InScope(term, bindings) == term \in {Anchor, Candidate} \/ term < Len(bindings)
TermKind(r, term, bindings) ==
    CASE term = Anchor -> At(Schema(r).own, Schema(r).current)
      [] term = Candidate -> At(Schema(r).own, Schema(r).related)
      [] term \in 0..(Len(bindings) - 1) ->
            LET b == bindings[Len(bindings) - term] IN At(WrittenKinds(b.relation), b.slot)
      [] OTHER -> NoKind

TermFaults(r, term, bindings) ==
    Fault(Code("relation_variable_out_of_scope", ~InScope(term, bindings)) \cup
          Code("relation_roles_need_slot_kinds",
               term \in {Anchor, Candidate} /\ TermKind(r, term, bindings) = NoKind), r, r)

AtomFaults(r, n, free, bindings) ==
    LET kinds == WrittenKinds(n.relation)
        checked == {i \in 1..Len(n.terms) : i - 1 # free}
    IN  IF ~Declared(n.relation) THEN Fault({"unknown_relation"}, n.relation, r)
        ELSE (UNION {TermFaults(r, n.terms[i], bindings) : i \in checked}) \cup
             Fault(Code("derived_relation_atom_arity_unsupported",
                        IsDerived(n.relation) /\ Schema(n.relation).arity # 2) \cup
                   Code("relation_atom_arity_mismatch", Len(n.terms) # Schema(n.relation).arity) \cup
                   (IF kinds = Unknown THEN {"relation_atom_needs_typed_relation"}
                    ELSE SlotFaults(n.relation)) \cup
                   Code("relation_atom_kind_mismatch",
                        \E i \in checked : /\ TermKind(r, n.terms[i], bindings) # NoKind
                                            /\ At(kinds, i - 1) \notin
                                                   {NoKind, TermKind(r, n.terms[i], bindings)}),
                   n.relation, r)

ExistsFaults(r, n, bindings) ==
    Fault(Code("relation_exists_variable_count",
               n.slot >= Len(n.terms) \/ At(n.terms, n.slot) # 0) \cup
          Code("inverse_derived_traversal_unsupported",
               IsDerived(n.relation) /\ n.slot # Schema(n.relation).related), n.relation, r) \cup
    Fault(Code("relation_roles_need_slot_kinds", Schema(r).own = Unknown), r, r) \cup
    AtomFaults(r, n, n.slot, bindings)

ReadFaults(r, n, bindings) ==
    LET kind == TermKind(r, n.terms[1], bindings)
    IN  TermFaults(r, n.terms[1], bindings) \cup
        Fault(Code("relation_role_entity_mismatch",
                   kind # NoKind /\ n.value \in Rules /\ ~Fits(Entity(n.value), kind)), r, r)

SameFaults(r, n, bindings) ==
    LET left == TermKind(r, n.terms[1], bindings)
        right == TermKind(r, n.terms[2], bindings)
    IN  TermFaults(r, n.terms[1], bindings) \cup TermFaults(r, n.terms[2], bindings) \cup
        Fault(Code("relation_term_kind_mismatch",
                   left # NoKind /\ right # NoKind /\ left # right), r, r)

UseFaults(r, use) ==
    LET n == use.node
    IN  CASE use.clause # 0 -> Fault({"relation_role_outside_scope"}, use.clause, r)
          [] use.clause = 0 /\ n.op = "atom" -> AtomFaults(r, n, -1, use.bindings)
          [] use.clause = 0 /\ n.op = "exists" -> ExistsFaults(r, n, use.bindings)
          [] use.clause = 0 /\ n.op = "same" -> SameFaults(r, n, use.bindings)
          [] OTHER -> ReadFaults(r, n, use.bindings)

TermViolations ==
    (UNION {UNION {Fault({"relation_role_outside_scope"}, use.clause, x) :
                      use \in TermUses(Formulas(x))} : x \in Rules}) \cup
    (UNION {UNION {UseFaults(r, use) : use \in TermUses(Schema(r).predicate)} : r \in Derived}) \cup
    UNION {PathFaults(r) : r \in {r \in Derived : Schema(r).path # <<>>}}

Checked == Walking /\ agenda = <<>> /\ unchecked = <<>>

CheckRoles ==
    /\ Checked /\ purpose = "typing"
    /\ violations' = violations \cup TermViolations
    /\ phase' = IF violations' = {} THEN "accepted" ELSE "ill-typed"
    /\ UNCHANGED <<program, chain, direction, purpose, slot_kinds, filtered, used, unchecked>>

(* `executed_relations` returns what the walk used.                        *)
ReturnUsed ==
    /\ Checked /\ purpose = "execution"
    /\ phase' = "executed"
    /\ UNCHANGED <<program, chain, direction, checker>>

(* The relations of a model are followed in name order.                    *)
NextByName ==
    LET left == Relations \ DOMAIN chain.resolved IN IF left = {} THEN {} ELSE {Least(left)}

Check ==
    \/ phase = "kinds" /\ FollowChains(NextByName, OwnKinds, Unknown)
       /\ UNCHANGED <<program, phase, direction, checker>>
    \/ phase = "innermost" /\ FollowChains(DOMAIN Agreed(slot_kinds), InnermostLink, NoKind)
       /\ UNCHANGED <<program, phase, direction, checker>>
    \/ ReadKinds \/ StartChecking
    \/ CheckAggregate \/ CheckMember \/ CheckTerms \/ CheckOther \/ CheckDerived
    \/ CheckRoles \/ ReturnUsed
=============================================================================
