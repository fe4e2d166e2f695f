---------------------------- MODULE Aggregation ----------------------------
(***************************************************************************)
(* Family aggregation (src/unit_derivation/aggregation.rs): a plan of      *)
(* sums, counts, predicates and reductions over families that a unit       *)
(* derivation finds from partner and child relations.  A request may leave *)
(* any input unknown or in conflict; a result is one value or the reasons  *)
(* it is open.                                                             *)
(*                                                                         *)
(* Amounts are integers and fractions are counted in units of 1/Whole; the *)
(* decimals' precision, citations and digests are left out.                *)
(***************************************************************************)
EXTENDS PhaseTwo

CONSTANTS Aggregations,  \* plans, each with a request
          Whole,         \* one, as a fraction
          Ages, Amounts  \* what an open input may turn out to be

VARIABLES asked,      \* <<>>, or the one aggregation asked for
          families    \* AggregationFamilyKnowledge

aggregationVars == <<asked, families>>

NoFamilies == [answered |-> FALSE, reasons |-> {}, families |-> {}]

Scheme == asked[1].plan      \* AggregationPlan
Call == asked[1].request     \* AggregationRequest

PersonOf(id) == CHOOSE person \in Each(Call.persons) : person.id = id
Ids == {person.id : person \in Each(Call.persons)}

-----------------------------------------------------------------------------
(* Knowledge. *)

Value(v) == [value |-> {v}, reasons |-> {}]
Indeterminate(reasons) == [value |-> {}, reasons |-> reasons]
IsSettled(result) == result.reasons = {}
The(result) == CHOOSE v \in result.value : TRUE

\* resolve_knowledge: observations may repeat one value, a conflict never settles.
Resolve(knowledge, label) ==
    LET values == {seen.value : seen \in knowledge.seen}
    IN CASE knowledge.kind = "known" \/
              (knowledge.kind = "observations" /\ Cardinality(values) = 1) ->
              [value |-> values, reasons |-> {}]
         [] knowledge.kind = "unknown" -> Indeterminate({label \o <<"unknown">>})
         [] OTHER -> Indeterminate({label \o <<"conflict">>})

InputOf(subject, inputs, name) ==
    IF name \in DOMAIN inputs THEN Resolve(inputs[name], subject \o <<name>>)
    ELSE Indeterminate({subject \o <<name, "missing">>})

-----------------------------------------------------------------------------
(* validate_aggregation_plan *)

Declared(scheme, name, scope, kind) ==
    \E input \in Each(scheme.inputs) :
        input.name = name /\ input.scope = scope /\ input.kind = kind

RelationDeclared(scheme, name, directed, left, right) ==
    \E relation \in Each(scheme.relations) :
        /\ relation.name = name
        /\ relation.directed = directed /\ relation.left = left /\ relation.right = right

Outputs(scheme) ==
    LET Named(rules) == [i \in DOMAIN rules |-> rules[i].output]
        Gross == [i \in DOMAIN scheme.reductions |-> scheme.reductions[i].gross]
        Continuous == FlattenSeq([i \in DOMAIN scheme.reductions |->
            SetToSeq({item.output : item \in scheme.reductions[i].continuous})])
    IN Named(scheme.sums) \o Named(scheme.counts) \o Named(scheme.minima)
         \o Named(scheme.predicates) \o Named(scheme.shapes) \o Named(scheme.agreements)
         \o Named(scheme.projections) \o Named(scheme.broadcasts)
         \o Named(scheme.reductions) \o Gross \o Continuous

OperandsOf(predicate) ==
    CASE predicate.kind \in {"at least", "sole parent"} -> {"count"}
      [] predicate.kind = "youngest at least" -> {"youngest"}
      [] OTHER -> {"count", "youngest"}

ReductionStands(scheme, reduction) ==
    /\ \E input \in Each(scheme.inputs) :
          /\ input.name = reduction.input /\ input.scope = "child"
          /\ input.kind = "gross" /\ input.key = reduction.key
    /\ \E input \in Each(scheme.inputs) :
          /\ input.name = reduction.adjustment /\ input.scope = "family"
          /\ input.kind = "adjustment" /\ input.key = reduction.key
    /\ reduction.care = scheme.fraction
    /\ \A item \in reduction.continuous :
          /\ Declared(scheme, item.income, "family", "amount")
          /\ Declared(scheme, item.threshold, "family", "amount")
          /\ Declared(scheme, item.rate, "family", "rate")

InputsStand(scheme) ==
    LET Name(item) == item.name
    IN /\ Distinct(scheme.inputs, Name)
       /\ \A input \in Each(scheme.inputs) : input.kind = "gross" <=> input.bound
       /\ \A name \in {scheme.principal} \cup Each(scheme.conditions) :
              Declared(scheme, name, "child", "fact")
       /\ Declared(scheme, scheme.fraction, "child", "care")
       /\ Distinct(scheme.relations, Name)
       /\ RelationDeclared(scheme, scheme.partner, FALSE, "partner", "partner")
       /\ RelationDeclared(scheme, scheme.child, TRUE, "caregiver", "child")

RulesStand(scheme) ==
    LET counts == {count.output : count \in Each(scheme.counts)}
        minima == {minimum.output : minimum \in Each(scheme.minima)}
    IN /\ \A sum \in Each(scheme.sums) :
              sum.selector = "adults" /\ Declared(scheme, sum.input, "adult", "additive")
       /\ \A predicate \in Each(scheme.predicates) :
              /\ "count" \in OperandsOf(predicate) => predicate.count \in counts
              /\ "youngest" \in OperandsOf(predicate) => predicate.youngest \in minima
       /\ \A shape \in Each(scheme.shapes) : shape.count \in counts
       /\ \A agreement \in Each(scheme.agreements) :
              /\ Declared(scheme, agreement.input, "child", "care")
              /\ \A name \in agreement.eligibleIf : Declared(scheme, name, "child", "fact")
       /\ \A projection \in Each(scheme.projections) : \E input \in Each(scheme.inputs) :
              input.name = projection.input /\ input.scope = "child" /\ input.kind # "fact"
       /\ \A broadcast \in Each(scheme.broadcasts) : \E input \in Each(scheme.inputs) :
              input.name = broadcast.input /\ input.scope = "family"

SchemeStands(scheme) ==
    LET Key(reduction) == reduction.key
        Same(name) == name
    IN /\ Distinct(scheme.reductions, Key)
       /\ InputsStand(scheme) /\ RulesStand(scheme)
       /\ Distinct(Outputs(scheme), Same)
       /\ \A reduction \in Each(scheme.reductions) : ReductionStands(scheme, reduction)

-----------------------------------------------------------------------------
(* validate_request *)

PersonStands(person) ==
    /\ \A name \in DOMAIN person.computations :
           person.role = "child" /\ Declared(Scheme, name, "child", "gross")
    /\ \A name \in DOMAIN person.facts :
           person.role = "child" /\ Declared(Scheme, name, "child", "fact")
    /\ \A name \in DOMAIN person.scalars : \E input \in Each(Scheme.inputs) :
           /\ input.name = name /\ input.kind # "fact"
           /\ input.scope = person.role

Holder(family) == Resolve(family.holder, <<"holder", family.anchor>>)

FamilyInputStands(family) ==
    /\ family.anchor \in Ids
    /\ IsSettled(Holder(family)) =>
           /\ The(Holder(family)) \in Ids
           /\ PersonOf(The(Holder(family))).role = "adult"
    /\ \A name \in DOMAIN family.scalars : \E input \in Each(Scheme.inputs) :
           input.name = name /\ input.scope = "family"

RelationStands(relation) ==
    /\ \E declared \in Each(Scheme.relations) : declared.name = relation.name
    /\ \A fact \in Each(relation.facts) :
           /\ fact.tuple[1] # fact.tuple[2] /\ Each(fact.tuple) \subseteq Ids
           /\ relation.name = Scheme.child =>
                  /\ PersonOf(fact.tuple[1]).role = "adult"
                  /\ PersonOf(fact.tuple[2]).role = "child"
           /\ relation.name = Scheme.partner =>
                  \A id \in Each(fact.tuple) : PersonOf(id).role = "adult"

CallStands ==
    LET Id(person) == person.id
        Anchor(family) == family.anchor
        Name(relation) == relation.name
    IN /\ Call.persons # <<>> /\ Distinct(Call.persons, Id)
       /\ \A person \in Each(Call.persons) : PersonStands(person)
       /\ Distinct(Call.familyInputs, Anchor)
       /\ \A family \in Each(Call.familyInputs) : FamilyInputStands(family)
       /\ Distinct(Call.relations, Name)
       /\ \A relation \in Each(Call.relations) : RelationStands(relation)

-----------------------------------------------------------------------------
(* From the request to a constitution. *)

FactResult(relation, fact) ==
    Resolve(fact.knowledge, <<"relation", relation.name, fact.tuple>>)

RelationFacts ==
    {<<relation, fact>> \in Each(Call.relations) \X
        UNION {Each(relation.facts) : relation \in Each(Call.relations)} :
            fact \in Each(relation.facts)}

OpenRelations == UNION {FactResult(pair[1], pair[2]).reasons : pair \in RelationFacts}

TrueTuples ==
    {<<pair[1].name, pair[2].tuple[1], pair[2].tuple[2]>> : pair \in
        {p \in RelationFacts : TRUE \in FactResult(p[1], p[2]).value}}

AnswerOpen(reasons) == [NoFamilies EXCEPT !.answered = TRUE, !.reasons = reasons]

\* Answered before any derivation: a relation fact or the segment is open.
AnswerUnderived ==
    /\ stage = "aggregate" /\ Call.enabled /\ SchemeStands(Scheme) /\ CallStands
    /\ OpenRelations # {} \/ ~Call.segmentComplete
    /\ families' = AnswerOpen(IF OpenRelations # {} THEN OpenRelations ELSE {<<"segment">>})
    /\ stage' = "answered"
    /\ UNCHANGED <<plan, request, bound, worlds, at, now, results, answer, earlier, learned>>
    /\ UNCHANGED <<phaseVars, asked>>

RefuseAggregation ==
    /\ stage = "aggregate" /\ ~(Call.enabled /\ SchemeStands(Scheme) /\ CallStands)
    /\ stage' = "refused"
    /\ UNCHANGED <<plan, request, bound, worlds, at, now, results, answer, earlier, learned>>
    /\ UNCHANGED <<phaseVars, aggregationVars>>

Roster == SetToSortSeq(Ids, LAMBDA one, other : one < other)

PairEdge(relation, pair) ==
    [id |-> <<relation.name, pair[1], pair[2]>>, kind |-> "combination",
     left |-> pair[1], right |-> pair[2], defeaters |-> <<>>,
     when |-> <<"any", <<<<"fact", <<"relation", relation.name, <<pair[1], pair[2]>>>>>>,
                         <<"fact", <<"relation", relation.name, <<pair[2], pair[1]>>>>>>>>>>]

Pairs == SetToSeq({pair \in Ids \X Ids : pair[1] < pair[2]})

FamilyConstitution ==
    [derived |-> <<>>, cuts |-> <<>>, attachments |-> <<>>, bars |-> <<>>,
     statuses |-> <<>>, chainPolicy |-> FALSE,
     edges |-> FlattenSeq([r \in DOMAIN Scheme.relations |->
        [i \in DOMAIN Pairs |-> PairEdge(Scheme.relations[r], Pairs[i])]])]

\* relation_observations, of facts that are all settled by now.
ObservationsOf(fact) ==
    SetToSeq({[tuple |-> fact.tuple, value |-> seen.value, evidence |-> seen.evidence] :
                 seen \in fact.knowledge.seen})

FamilyOf(declared) ==
    LET supplied == {relation \in Each(Call.relations) : relation.name = declared.name}
        relation == CHOOSE r \in supplied : TRUE
    IN IF supplied = {}
       THEN [name |-> declared.name, scope |-> Call.scope, complete |-> FALSE, facts |-> <<>>]
       ELSE [name |-> declared.name, scope |-> relation.scope,
             complete |-> relation.complete,
             facts |-> FlattenSeq([i \in DOMAIN relation.facts |-> ObservationsOf(relation.facts[i])])]

BindConstitution ==
    /\ stage = "aggregate" /\ Call.enabled /\ SchemeStands(Scheme) /\ CallStands
    /\ OpenRelations = {} /\ Call.segmentComplete
    /\ plan' = FamilyConstitution
    /\ request' =
         [enabled |-> TRUE, segmentComplete |-> TRUE, roster |-> Roster,
          rosterComplete |-> Call.rosterComplete, scope |-> Call.scope,
          families |-> [r \in DOMAIN Scheme.relations |-> FamilyOf(Scheme.relations[r])],
          bools |-> <<>>, constraints |-> <<>>,
          supplied |-> [i \in DOMAIN Roster |-> [type |-> "person", id |-> Roster[i]]],
          base |-> TrueTuples, unitRules |-> {}, personRules |-> {},
          shadow |-> [bound |-> FALSE, records |-> {},
                      ledger |-> [p \in Projections |-> "missing"]]]
    /\ stage' = "plan"
    /\ UNCHANGED <<bound, worlds, at, now, results, answer, earlier, learned>>
    /\ UNCHANGED <<phaseVars, aggregationVars>>

-----------------------------------------------------------------------------
(* bind_aggregation_dataset *)

Aggregating == asked # <<>> /\ stage = "done"

\* A family whose membership is open has no dataset.
AnswerUnsettled ==
    /\ Aggregating /\ ~families.answered /\ DOMAIN answer.open # {}
    /\ LET reasons == UNION {answer.open[p].facts : p \in DOMAIN answer.open}
       IN families' = AnswerOpen(IF reasons = {} THEN {"indeterminate-family-membership"}
                                 ELSE reasons)
    /\ UNCHANGED <<vars, phaseVars, asked>>

UnitOf(person) == CHOOSE unit \in answer.units : person \in unit

Computes(person, name) ==
    name \in DOMAIN person.computations \ DOMAIN person.scalars

FamiliesStand ==
    /\ \A person \in Each(Call.persons) : \A name \in DOMAIN person.computations :
           Computes(person, name) => person.computations[name] # {}
    /\ \A family \in Each(Call.familyInputs) :
           /\ \E unit \in answer.units : family.anchor \in unit
           /\ IsSettled(Holder(family)) => The(Holder(family)) \in UnitOf(family.anchor)
    /\ \A one, other \in Each(Call.familyInputs) :
           UnitOf(one.anchor) = UnitOf(other.anchor) => one = other

RefuseFamilies ==
    /\ Aggregating /\ DOMAIN answer.open = {} /\ ~FamiliesStand
    /\ stage' = "refused"
    /\ UNCHANGED <<plan, request, bound, worlds, at, now, results, answer, earlier, learned>>
    /\ UNCHANGED <<phaseVars, aggregationVars>>

MaterializeFamilies ==
    /\ Aggregating /\ DOMAIN answer.open = {} /\ FamiliesStand
    /\ Materialize
    /\ UNCHANGED aggregationVars

PersonInput(id, name) ==
    LET person == PersonOf(id)
        subject == <<"person", id>>
    IN IF Computes(person, name)
       THEN [value |-> person.computations[name], reasons |-> {}]
       ELSE InputOf(subject, person.scalars, name)

PersonFact(id, name) == InputOf(<<"person", id>>, PersonOf(id).facts, name)

Age(id) ==
    LET known == PersonOf(id).age
    IN IF known = <<>> THEN Indeterminate({<<"person", id, "age", "missing">>})
       ELSE Resolve(known[1], <<"person", id, "age">>)

AnchoredIn(unit) == {family \in Each(Call.familyInputs) : family.anchor \in unit}

FamilyInput(unit, name) ==
    IF AnchoredIn(unit) = {} THEN Indeterminate({<<"family", unit, name, "missing">>})
    ELSE InputOf(<<"family", unit>>, (CHOOSE f \in AnchoredIn(unit) : TRUE).scalars, name)

-----------------------------------------------------------------------------
(* aggregate_family *)

ChildrenOf(unit) ==
    unit \cap {tuple[3] : tuple \in {t \in dataset.tuples : t[1] = Scheme.child}}

AdultsOf(unit) == {id \in unit : PersonOf(id).role = "adult"}

PartnerPairs ==
    {{tuple[2], tuple[3]} : tuple \in {t \in dataset.tuples : t[1] = Scheme.partner}}

PartnerPresent(unit) ==
    LET holders == {family.holder : family \in AnchoredIn(unit)}
        holder == Resolve(CHOOSE h \in holders : TRUE, <<"family", unit, "holder">>)
    IN CASE holders = {} -> Indeterminate({<<"family", unit, "holder", "missing">>})
         [] ~IsSettled(holder) -> holder
         [] OTHER -> Value(\E pair \in PartnerPairs :
                              The(holder) \in pair /\ pair \subseteq unit)

ReasonsOf(operands) == UNION {operand.reasons : operand \in operands}

\* A value computed of operands: open if one is, for the reasons of all.
Combined(reasons, result) ==
    IF reasons = {} THEN Value(result) ELSE Indeterminate(reasons)

\* Mutant: an open condition is skipped.
CountableIfKnown(id) ==
    LET care == PersonFact(id, Scheme.principal)
        conditions == {PersonFact(id, name) : name \in Each(Scheme.conditions)}
    IN CASE ~IsSettled(care) -> care
         [] ~The(care) -> Value(FALSE)
         [] ~IsSettled(Age(id)) -> Indeterminate(Age(id).reasons)
         [] The(Age(id)) # 18 -> Value(TRUE)
         [] OTHER -> Value(\A condition \in conditions : FALSE \notin condition.value)

Countable(id) ==
    LET care == PersonFact(id, Scheme.principal)
        conditions == {PersonFact(id, name) : name \in Each(Scheme.conditions)}
    IN CASE ~IsSettled(care) -> care
         [] ~The(care) -> Value(FALSE)
         [] ~IsSettled(Age(id)) -> Indeterminate(Age(id).reasons)
         [] The(Age(id)) # 18 -> Value(TRUE)
         [] OTHER -> Combined(ReasonsOf(conditions), \A condition \in conditions : The(condition))

\* No value of a child that does not count, and no reason either.
CountedAge(id) ==
    CASE ~IsSettled(Countable(id)) -> Indeterminate(Countable(id).reasons)
      [] ~The(Countable(id)) -> [value |-> {}, reasons |-> {}]
      [] OTHER -> Age(id)

InBand(age, band) ==
    (\A low \in band.low : age >= low) /\ (\A high \in band.high : age <= high)

ChildrenIn(children, band) ==
    {id \in children : \E age \in CountedAge(id).value : InBand(age, band)}

CountOf(children, count) ==
    Combined(ReasonsOf({CountedAge(id) : id \in children}), Cardinality(ChildrenIn(children, count)))

MinimumOf(children, minimum) ==
    LET ages == UNION {CountedAge(id).value : id \in children}
    IN Combined(ReasonsOf({CountedAge(id) : id \in children}),
                IF ages = {} THEN minimum.empty
                ELSE CHOOSE age \in ages : \A other \in ages : age <= other)

Figures(unit) ==
    LET children == ChildrenOf(unit)
        counts == [i \in DOMAIN Scheme.counts |-> CountOf(children, Scheme.counts[i])]
        minima == [i \in DOMAIN Scheme.minima |-> MinimumOf(children, Scheme.minima[i])]
    IN [name \in {rule.output : rule \in Each(Scheme.counts) \cup Each(Scheme.minima)} |->
           IF \E i \in DOMAIN counts : Scheme.counts[i].output = name
           THEN counts[CHOOSE i \in DOMAIN counts : Scheme.counts[i].output = name]
           ELSE minima[CHOOSE i \in DOMAIN minima : Scheme.minima[i].output = name]]

PredicateOf(predicate, counted, partner) ==
    LET count == counted[predicate.count]
        youngest == counted[predicate.youngest]
    IN CASE predicate.kind = "at least" ->
              Combined(count.reasons, The(count) >= predicate.minimum)
         [] predicate.kind = "youngest at least" ->
              Combined(youngest.reasons, The(youngest) >= predicate.minimum)
         [] predicate.kind = "sole parent" ->
              Combined(count.reasons \cup partner.reasons, The(count) > 0 /\ ~The(partner))
         [] predicate.kind = "sole parent at least" ->
              Combined(count.reasons \cup youngest.reasons \cup partner.reasons,
                       The(count) > 0 /\ The(youngest) >= predicate.minimum
                         /\ ~The(partner))

ShapeOf(shape, counted) ==
    LET count == counted[shape.count]
    IN Combined(count.reasons,
          CASE shape.kind = "eldest" -> IF The(count) > 0 THEN 1 ELSE 0
            [] shape.kind = "subsequent" -> IF The(count) > 1 THEN The(count) - 1 ELSE 0
            [] shape.kind = "fixed" ->
                 IF The(count) > 0 THEN shape.present ELSE shape.absent)

SumOf(unit, sum) ==
    LET amounts == [id \in AdultsOf(unit) |-> PersonInput(id, sum.input)]
    IN Combined(ReasonsOf({amounts[id] : id \in AdultsOf(unit)}),
                FoldSet(LAMBDA id, total : The(amounts[id]) + total, 0, AdultsOf(unit)))

\* What one child says in an agreement: nothing, a value, or why it is open.
Says(id, agreement) ==
    LET eligible == {PersonFact(id, name) : name \in agreement.eligibleIf}
    IN CASE ~IsSettled(Countable(id)) -> Indeterminate(Countable(id).reasons)
         [] ~The(Countable(id)) -> Indeterminate({})
         [] \E condition \in eligible : ~IsSettled(condition) ->
              Indeterminate(ReasonsOf(eligible))
         [] \E condition \in eligible : ~The(condition) -> Indeterminate({})
         [] OTHER -> PersonInput(id, agreement.input)

AgreementOf(children, agreement) ==
    LET said == {Says(id, agreement) : id \in children}
        values == UNION {item.value : item \in said}
        disagreement == IF Cardinality(values) > 1
                        THEN {<<"agreement", agreement.output, values>>} ELSE {}
    IN Combined(ReasonsOf(said) \cup disagreement,
                IF values = {} THEN agreement.empty ELSE CHOOSE v \in values : TRUE)

BandOf(id, count) ==
    CASE IsSettled(Countable(id)) /\ ~The(Countable(id)) -> Value(FALSE)
      [] ~IsSettled(Countable(id)) ->
           Indeterminate(Countable(id).reasons \cup Age(id).reasons)
      [] OTHER -> Combined(Age(id).reasons, InBand(The(Age(id)), count))

ChildOf(id, unit) ==
    [person |-> id, age |-> Age(id),
     bands |-> [i \in DOMAIN Scheme.counts |-> BandOf(id, Scheme.counts[i])],
     projected |-> [i \in DOMAIN Scheme.projections |->
                       PersonInput(id, Scheme.projections[i].input)],
     broadcast |-> [i \in DOMAIN Scheme.broadcasts |->
                       FamilyInput(unit, Scheme.broadcasts[i].input)]]

-----------------------------------------------------------------------------
(* apply_family_reduction *)

NotNegative(amount) == IF amount > 0 THEN amount ELSE 0

Reduced(unit, reduction) == ChildrenIn(ChildrenOf(unit), reduction)

GrossOf(id, reduction) == PersonInput(id, reduction.input)
CareOf(id, reduction) == PersonInput(id, reduction.care)

\* A gross amount the caller supplied, or a care fraction above one, is refused.
ReductionRefused(unit, reduction) ==
    \/ \E id \in ChildrenOf(unit) : ~Computes(PersonOf(id), reduction.input)
    \/ \E id \in Reduced(unit, reduction) :
          \E care \in CareOf(id, reduction).value :
              IsSettled(GrossOf(id, reduction)) /\ care \notin 0..Whole

Gross(unit, reduction) ==
    LET Share(id) == (The(GrossOf(id, reduction)) * The(CareOf(id, reduction))) \div Whole
    IN FoldSet(LAMBDA id, total : Share(id) + total, 0, Reduced(unit, reduction))

OpenOperands(unit, reduction) ==
    ReasonsOf({CountedAge(id) : id \in ChildrenOf(unit)}
        \cup UNION {{GrossOf(id, reduction), CareOf(id, reduction)} :
                       id \in Reduced(unit, reduction)}
        \cup {FamilyInput(unit, reduction.adjustment)})

ContinuousOf(unit, reduction, item) ==
    LET income == FamilyInput(unit, item.income)
        threshold == FamilyInput(unit, item.threshold)
        rate == FamilyInput(unit, item.rate)
        open == OpenOperands(unit, reduction)
    IN Combined(IF open = {} THEN ReasonsOf({income, threshold, rate}) ELSE open,
                NotNegative(Gross(unit, reduction)
                    - (NotNegative(The(income) - The(threshold)) * The(rate)) \div Whole))

ReductionOf(unit, reduction) ==
    LET open == OpenOperands(unit, reduction)
        adjustment == FamilyInput(unit, reduction.adjustment)
    IN [gross |-> Combined(open, Gross(unit, reduction)),
        reduced |-> Combined(open,
            NotNegative(Gross(unit, reduction) - The(adjustment))),
        continuous |-> {ContinuousOf(unit, reduction, item) : item \in reduction.continuous}]

AggregateFamily(unit) ==
    LET counted == Figures(unit)
        partner == PartnerPresent(unit)
    IN [unit |-> unit, partner |-> partner, counts |-> counted,
        sums |-> [i \in DOMAIN Scheme.sums |-> SumOf(unit, Scheme.sums[i])],
        predicates |-> [i \in DOMAIN Scheme.predicates |->
                           PredicateOf(Scheme.predicates[i], counted, partner)],
        shapes |-> [i \in DOMAIN Scheme.shapes |-> ShapeOf(Scheme.shapes[i], counted)],
        agreements |-> [i \in DOMAIN Scheme.agreements |->
                           AgreementOf(ChildrenOf(unit), Scheme.agreements[i])],
        children |-> {ChildOf(id, unit) : id \in ChildrenOf(unit)},
        reductions |-> [i \in DOMAIN Scheme.reductions |->
                           ReductionOf(unit, Scheme.reductions[i])]]

\* aggregated_family_reasons
ReasonsIn(family) ==
    ReasonsOf({family.partner}) \cup ReasonsOf(Each(family.sums))
        \cup ReasonsOf({family.counts[name] : name \in DOMAIN family.counts})
        \cup ReasonsOf(Each(family.predicates)) \cup ReasonsOf(Each(family.shapes))
        \cup ReasonsOf(Each(family.agreements))
        \cup UNION {ReasonsOf({child.age} \cup Each(child.projected) \cup Each(child.broadcast))
                        \cup ReasonsOf(Each(child.bands)) : child \in family.children}
        \cup UNION {ReasonsOf({item.gross, item.reduced} \cup item.continuous) :
                        item \in Each(family.reductions)}

RefuseReduction ==
    /\ Aggregating /\ dataset.made /\ ~families.answered
    /\ \E unit \in answer.units, reduction \in Each(Scheme.reductions) :
           ReductionRefused(unit, reduction)
    /\ stage' = "refused"
    /\ UNCHANGED <<plan, request, bound, worlds, at, now, results, answer, earlier, learned>>
    /\ UNCHANGED <<phaseVars, aggregationVars>>

Aggregate ==
    /\ Aggregating /\ dataset.made /\ ~families.answered
    /\ \A unit \in answer.units, reduction \in Each(Scheme.reductions) :
           ~ReductionRefused(unit, reduction)
    /\ families' =
         LET made == {AggregateFamily(unit) : unit \in answer.units}
         IN [answered |-> TRUE, families |-> made,
             reasons |-> UNION {ReasonsIn(family) : family \in made}]
    /\ UNCHANGED <<vars, phaseVars, asked>>
-----------------------------------------------------------------------------
AggregationInit ==
    \/ PhaseInit /\ asked = <<>> /\ families = NoFamilies
    \/ /\ \E aggregation \in Aggregations : asked = <<aggregation>>
       /\ stage = "aggregate" /\ plan = <<>> /\ request = <<>>
       /\ bound = NoBound /\ worlds = <<>> /\ at = 0 /\ now = Fresh
       /\ results = <<>> /\ answer = NoAnswer /\ earlier = NoAnswer /\ learned = 0
       /\ comparison = NoComparison /\ dataset = NoDataset /\ figures = {}
       /\ families = NoFamilies

ForTheCaller ==
    /\ asked = <<>>
    /\ Next
    /\ UNCHANGED aggregationVars

ForAFamily ==
    /\ asked # <<>>
    /\ Derive
    /\ UNCHANGED aggregationVars

AggregationNext ==
    \/ ForTheCaller \/ ForAFamily
    \/ RefuseAggregation \/ AnswerUnderived \/ BindConstitution
    \/ AnswerUnsettled \/ RefuseFamilies \/ MaterializeFamilies
    \/ RefuseReduction \/ Aggregate

AggregationSpec ==
    AggregationInit /\ [][AggregationNext]_<<vars, phaseVars, aggregationVars>>

-----------------------------------------------------------------------------
(* What a family's values are when every input is settled, said without    *)
(* knowledge: a completion gives each open input one value.                *)

FactNames ==
    {Scheme.principal} \cup Each(Scheme.conditions)
        \cup UNION {agreement.eligibleIf : agreement \in Each(Scheme.agreements)}
ChildAmounts ==
    {reduction.input : reduction \in Each(Scheme.reductions)} \cup {Scheme.fraction}
FamilyAmounts ==
    UNION {{reduction.adjustment} \cup
             UNION {{item.income, item.threshold, item.rate} : item \in reduction.continuous} :
               reduction \in Each(Scheme.reductions)}

OpenInputs(unit) ==
    {<<"age", id>> : id \in {i \in ChildrenOf(unit) : ~IsSettled(Age(i))}}
        \cup {slot \in {"fact"} \X ChildrenOf(unit) \X FactNames :
                 ~IsSettled(PersonFact(slot[2], slot[3]))}
        \cup {slot \in {"amount"} \X ChildrenOf(unit) \X ChildAmounts :
                 ~IsSettled(PersonInput(slot[2], slot[3]))}
        \cup {slot \in {"amount"} \X AdultsOf(unit) \X {sum.input : sum \in Each(Scheme.sums)} :
                 ~IsSettled(PersonInput(slot[2], slot[3]))}
        \cup {slot \in {"family"} \X {unit} \X FamilyAmounts :
                 ~IsSettled(FamilyInput(unit, slot[3]))}

\* A fact that holds is 1 in a completion.
MayBe(slot, value) ==
    CASE slot[1] = "age"  -> value \in Ages
      [] slot[1] = "fact" -> value \in {0, 1}
      [] OTHER            -> value \in Amounts

Completions(unit) ==
    {c \in [OpenInputs(unit) -> Ages \cup Amounts \cup {0, 1}] :
        \A slot \in DOMAIN c : MayBe(slot, c[slot])}

AgeIn(c, id) == IF <<"age", id>> \in DOMAIN c THEN c[<<"age", id>>] ELSE The(Age(id))
HoldsIn(c, id, name) ==
    IF <<"fact", id, name>> \in DOMAIN c THEN c[<<"fact", id, name>>] = 1
    ELSE The(PersonFact(id, name))
AmountIn(c, id, name) ==
    IF <<"amount", id, name>> \in DOMAIN c THEN c[<<"amount", id, name>>]
    ELSE The(PersonInput(id, name))
FamilyAmountIn(c, unit, name) ==
    IF <<"family", unit, name>> \in DOMAIN c THEN c[<<"family", unit, name>>]
    ELSE The(FamilyInput(unit, name))

CountsIn(c, id) ==
    /\ HoldsIn(c, id, Scheme.principal)
    /\ AgeIn(c, id) = 18 => \A name \in Each(Scheme.conditions) : HoldsIn(c, id, name)

TheChildren(unit) == {id \in unit : \E caregiver \in Ids :
                         <<Scheme.child, caregiver, id>> \in TrueTuples}
CountedIn(c, unit) == {id \in TheChildren(unit) : CountsIn(c, id)}
BandIn(c, unit, band) == {id \in CountedIn(c, unit) : InBand(AgeIn(c, id), band)}

Only(result, value) == result.value \subseteq {value}

Partnered(unit) ==
    \E family \in AnchoredIn(unit) : \E partner \in unit :
        \/ <<Scheme.partner, The(Holder(family)), partner>> \in TrueTuples
        \/ <<Scheme.partner, partner, The(Holder(family))>> \in TrueTuples

CountIn(c, unit, output) ==
    LET count == CHOOSE rule \in Each(Scheme.counts) : rule.output = output
    IN Cardinality(BandIn(c, unit, count))

YoungestIn(c, unit, output) ==
    LET minimum == CHOOSE rule \in Each(Scheme.minima) : rule.output = output
        ages == {AgeIn(c, id) : id \in CountedIn(c, unit)}
    IN IF ages = {} THEN minimum.empty
       ELSE CHOOSE age \in ages : \A other \in ages : age <= other

PredicateIn(c, unit, predicate) ==
    /\ predicate.kind = "at least" =>
           CountIn(c, unit, predicate.count) >= predicate.minimum
    /\ predicate.kind \in {"youngest at least", "sole parent at least"} =>
           YoungestIn(c, unit, predicate.youngest) >= predicate.minimum
    /\ predicate.kind \in {"sole parent", "sole parent at least"} =>
           CountIn(c, unit, predicate.count) > 0 /\ ~Partnered(unit)

ReducedRight(c, unit, reduction, result) ==
    LET Share(id) == (AmountIn(c, id, reduction.input) * AmountIn(c, id, reduction.care))
                        \div Whole
        gross == FoldSet(LAMBDA id, total : Share(id) + total, 0, BandIn(c, unit, reduction))
    IN /\ Only(result.gross, gross)
       /\ Only(result.reduced,
                NotNegative(gross - FamilyAmountIn(c, unit, reduction.adjustment)))
       /\ \A item \in reduction.continuous :
             LET excess == FamilyAmountIn(c, unit, item.income)
                              - FamilyAmountIn(c, unit, item.threshold)
             IN \A continuous \in result.continuous : Only(continuous,
                   NotNegative(gross - (NotNegative(excess)
                       * FamilyAmountIn(c, unit, item.rate)) \div Whole))

AgreedRight(c, unit, agreement, result) ==
    LET said == {AmountIn(c, id, agreement.input) : id \in
                    {i \in CountedIn(c, unit) :
                        \A name \in agreement.eligibleIf : HoldsIn(c, i, name)}}
    IN \A value \in result.value : said = {value} \/ (said = {} /\ value = agreement.empty)

\* A value a family answers is the value under every completion of the inputs
\* the request leaves open, with the relation facts it asserts; and a request
\* that leaves nothing open is answered, unless children disagree.
AggregateSound ==
    \A family \in families.families : LET unit == family.unit IN
        /\ \A c \in Completions(unit) :
              /\ \A count \in Each(Scheme.counts) :
                    Only(family.counts[count.output], CountIn(c, unit, count.output))
              /\ \A minimum \in Each(Scheme.minima) :
                    Only(family.counts[minimum.output], YoungestIn(c, unit, minimum.output))
              /\ \A i \in DOMAIN Scheme.predicates :
                    IsSettled(family.predicates[i]) => Only(family.predicates[i],
                        PredicateIn(c, unit, Scheme.predicates[i]))
              /\ \A i \in DOMAIN Scheme.agreements :
                    AgreedRight(c, unit, Scheme.agreements[i], family.agreements[i])
              /\ \A i \in DOMAIN Scheme.reductions :
                    ReducedRight(c, unit, Scheme.reductions[i], family.reductions[i])
              /\ \A child \in family.children : \A i \in DOMAIN Scheme.counts :
                    Only(child.bands[i], child.person \in BandIn(c, unit, Scheme.counts[i]))
        /\ IsSettled(family.partner) => Only(family.partner, Partnered(unit))
        /\ OpenInputs(unit) = {} /\ IsSettled(family.partner) =>
              ReasonsIn(family) \subseteq
                  ReasonsOf(Each(family.agreements))
                      \cup UNION {ReasonsOf(Each(child.projected) \cup Each(child.broadcast)) :
                                      child \in family.children}
=============================================================================
