------------------------------ MODULE PhaseTwo ------------------------------
(***************************************************************************)
(* What happens to a unit derivation's answer                              *)
(* (src/unit_derivation/interface.rs): it is compared with supplied        *)
(* membership that only the shadow channel may carry, it is materialized   *)
(* as relation tuples and knowledge of the open roles, and rules of the    *)
(* second phase count over both.                                           *)
(*                                                                         *)
(* A second-phase rule is a tuple: <<"count", relation, slot, guard>> over *)
(* the entities related at the other slot, guard being <<>> or the name of *)
(* a rule that must be positive there; <<"derived", rule>>; and            *)
(* <<"sum", rules>>.  A view [source, slot, guard] stands at slot `slot` of *)
(* its source and keeps the other ends where its guard is positive.        *)
(***************************************************************************)
EXTENDS UnitDerivation

CONSTANTS Rules,      \* the second-phase rules, by name
          Views       \* the second-phase relations that are views, by name

VARIABLES comparison,  \* compare_shadow's outcome
          dataset,     \* PhaseTwoDataSet: tuples and relation knowledge
          figures      \* the figures asked of the second phase so far

phaseVars == <<comparison, dataset, figures>>

Projections == {"constituent", "participating"}

Compared(outcome) == [p \in Projections |-> [observed |-> outcome, conforms |-> FALSE]]
NoComparison == Compared("none")
NoDataset == [tuples |-> {}, knowledge |-> {}, made |-> FALSE]

PhaseInit == Init /\ comparison = NoComparison /\ dataset = NoDataset /\ figures = {}

-----------------------------------------------------------------------------
(* The shadow comparison. *)

Answered == stage = "done"

\* Mutant: an open role leaves the projections comparable.
OpenUnits(projection) ==
    \E person \in DOMAIN answer.open : answer.open[person].kind \notin {"role", "overlap"}

OpenIn(projection) ==
    \E person \in DOMAIN answer.open :
        CASE answer.open[person].kind = "role"    -> projection = "participating"
          [] answer.open[person].kind = "overlap" -> FALSE
          [] OTHER -> TRUE

\* The derived blocks of a projection, without their unit ids.
DerivedBlocks(projection) ==
    IF projection = "constituent" THEN answer.units
    ELSE {{p \in unit : p \in DOMAIN answer.role /\ answer.role[p] = "member"} :
             unit \in answer.units} \ {{}}

\* The comparison is of lists: each supplied unit is a block of its own.
SameBlocks(blocks, records) ==
    LET units == {record.unit : record \in records}
        Block(unit) == {record.person : record \in {r \in records : r.unit = unit}}
    IN /\ Cardinality(units) = Cardinality(blocks)
       /\ blocks = {Block(unit) : unit \in units}

Observed(projection, records, expectation) ==
    CASE expectation = "out" -> "out"
      [] \/ \E impact \in answer.impacts : projection \in impact.projections
         \/ \E p \in DOMAIN answer.open : answer.open[p].kind = "overlap" -> "conflict"
      [] OpenIn(projection) -> "indeterminate"
      [] OTHER -> IF SameBlocks(DerivedBlocks(projection),
                                {r \in records : r.projection = projection})
                  THEN "equal" ELSE "different"

\* Without an entry of the frozen ledger for both projections nothing is compared.
CompareShadow ==
    /\ Answered /\ comparison = NoComparison /\ request.shadow.bound
    /\ comparison' =
         IF \E projection \in Projections : request.shadow.ledger[projection] = "missing"
         THEN Compared("no ledger entry")
         ELSE [projection \in Projections |->
                LET expectation == request.shadow.ledger[projection]
                    observed == Observed(projection, request.shadow.records, expectation)
                IN [observed |-> observed, conforms |-> observed = expectation]]
    /\ UNCHANGED <<vars, dataset, figures>>

-----------------------------------------------------------------------------
(* The materialization barrier. *)

DerivedTuples ==
    {<<"constituent", answer.block[p], p>> : p \in DOMAIN answer.block}
        \cup {<<"participating", answer.block[p], p>> :
                 p \in {q \in DOMAIN answer.block \cap DOMAIN answer.role :
                           answer.role[q] = "member"}}

OpenRoles ==
    {[relation |-> "participating", tuple |-> <<answer.block[p], p>>,
      reasons |-> answer.open[p].facts] :
        p \in {q \in DOMAIN answer.open \cap DOMAIN answer.block :
                  answer.open[q].kind = "role"}}

Supplied == {<<tuple[1], tuple[2], tuple[3]>> : tuple \in request.base}

SuppliesMembership == \E tuple \in request.base : tuple[1] \in Projections

Materialize ==
    /\ Answered /\ ~dataset.made /\ ~SuppliesMembership
    /\ dataset' = [tuples |-> Supplied \cup DerivedTuples, knowledge |-> OpenRoles,
                   made |-> TRUE]
    /\ UNCHANGED <<vars, comparison, figures>>

\* Supplied and derived membership may not both bind the relation.
RefuseSupplied ==
    /\ Answered /\ SuppliesMembership
    /\ stage' = "refused"
    /\ UNCHANGED <<plan, request, bound, worlds, at, now, results, answer, earlier, learned>>
    /\ UNCHANGED phaseVars

-----------------------------------------------------------------------------
(* PhaseTwoEngine: reasons first, the ordinary evaluation only without any. *)

\* Where a read stands: <<slot, entity>>, or <<>> when the walk cannot place it.
Placed(record, place) == place = <<>> \/ record.tuple[place[1]] = place[2]

RECURSIVE RelationReasons(_, _), RuleReasons(_, _)
\* Mutant: what a view stands on is not asked.
ShallowReasons(relation, place) ==
    UNION {record.reasons : record \in
        {r \in dataset.knowledge : r.relation = relation /\ Placed(r, place)}}

RelationReasons(relation, place) ==
    UNION {record.reasons : record \in
        {r \in dataset.knowledge : r.relation = relation /\ Placed(r, place)}}
    \cup (IF relation \notin DOMAIN Views THEN {}
          ELSE RelationReasons(Views[relation].source,
                               IF place = <<>> THEN <<>>
                               ELSE <<Views[relation].slot, place[2]>>)
                   \cup RuleReasons(Views[relation].guard, <<>>))

RuleReasons(rule, entity) ==
    CASE rule[1] = "count" ->
           RelationReasons(rule[2], IF entity = <<>> THEN <<>> ELSE <<rule[3], entity[1]>>)
               \cup (IF rule[4] = <<>> THEN {} ELSE RuleReasons(Rules[rule[4][1]], <<>>))
      [] rule[1] = "derived" -> RuleReasons(Rules[rule[2]], entity)
      [] rule[1] = "sum"     -> UNION {RuleReasons(item, entity) : item \in Each(rule[2])}

RECURSIVE PairsOf(_, _), ValueOf(_, _, _)
PairsOf(relation, tuples) ==
    IF relation \in DOMAIN Views
    THEN LET view == Views[relation]
         IN {pair \in {<<source[view.slot], source[3 - view.slot]>> :
                          source \in PairsOf(view.source, tuples)} :
                ValueOf(view.guard, pair[2], tuples) > 0}
    ELSE {<<tuple[2], tuple[3]>> : tuple \in {t \in tuples : t[1] = relation}}

ValueOf(rule, entity, tuples) ==
    CASE rule[1] = "count" ->
           Cardinality({pair \in PairsOf(rule[2], tuples) :
               /\ pair[rule[3]] = entity
               /\ rule[4] # <<>> =>
                    ValueOf(Rules[rule[4][1]], pair[3 - rule[3]], tuples) > 0})
      [] rule[1] = "derived" -> ValueOf(Rules[rule[2]], entity, tuples)
      [] rule[1] = "sum" ->
           FoldSeq(LAMBDA item, total : ValueOf(item, entity, tuples) + total, 0, rule[2])

Figure(name, entity) ==
    LET reasons == RuleReasons(Rules[name], <<entity>>)
    IN [rule |-> name, entity |-> entity, reasons |-> reasons,
        value |-> IF reasons # {} THEN {}
                  ELSE {ValueOf(Rules[name], entity, dataset.tuples)}]

\* Every rule is asked of the entities of its kind.
Ask ==
    /\ Answered /\ dataset.made /\ figures = {}
    /\ figures' = {Figure(name, unit) : name \in request.unitRules, unit \in answer.units}
                      \cup {Figure(name, p) : name \in request.personRules, p \in Persons}
    /\ UNCHANGED <<vars, comparison, dataset>>

-----------------------------------------------------------------------------
Derive ==
    /\ \/ Compile \/ RefusePlan \/ RefuseRequest \/ RosterIncomplete \/ Bind
       \/ TooManyWorlds \/ Enumerate \/ Inconsistent
       \/ FreezeEdges \/ SelectCuts \/ ApplyCuts \/ Attach \/ AssignRoles
       \/ Collide \/ Assemble
    /\ UNCHANGED phaseVars

\* What is learned goes to a new run: shadow and second phase start over.
AskAgain == Learn /\ comparison' = NoComparison /\ dataset' = NoDataset /\ figures' = {}

Next ==
    \/ Derive
    \/ AskAgain
    \/ CompareShadow
    \/ Materialize \/ RefuseSupplied
    \/ Ask

Spec == PhaseInit /\ [][Next]_<<vars, phaseVars>>

-----------------------------------------------------------------------------
(* Properties. *)

TypeOK ==
    /\ stage \in {"plan", "request", "refused", "bound", "inconsistent", "freeze",
                  "select", "cut", "attach", "assemble", "done"}
    /\ Forced \subseteq Persons
    /\ now.attached \subseteq Persons
    /\ Len(results) <= Len(worlds)
    /\ DOMAIN answer.role \subseteq Persons /\ DOMAIN answer.open \subseteq Persons

\* What a partition of the persons a world leaves unforced should be, said
\* without stages: the applied cuts, else what the frozen edges connect
\* outside them, and an attached person goes where its anchor is.
AppliedCut(person) == {cut \in now.cuts : person \in cut.members}

Unforced == Persons \ Forced

Connected(p, q) ==
    LET residue == {r \in Unforced : AppliedCut(r) = {}}
    IN \A part \in SUBSET residue :
          (/\ p \in part
           /\ \A edge \in now.edges : Endpoints(edge) \subseteq residue =>
                 (Endpoints(edge) \cap part # {} => Endpoints(edge) \subseteq part))
          => q \in part

TogetherUnattached(p, q) ==
    IF AppliedCut(p) = {} /\ AppliedCut(q) = {} THEN Connected(p, q)
    ELSE AppliedCut(p) = AppliedCut(q)

Home(person) ==
    LET anchors == {rule.anchor : rule \in
            {r \in Each(plan.attachments) :
                True(r.when) /\ person \in r.members /\ r.anchor \in Unforced}}
    IN IF anchors = {} THEN person ELSE CHOOSE anchor \in anchors : TRUE

\* The blocks of a world partition the persons it decides, as the plan's
\* declarations alone say: no order of cuts, components or attachments shows.
BlocksExact ==
    stage = "attach" /\ now.next > Len(plan.attachments) =>
        /\ UNION now.blocks = Unforced
        /\ \A p, q \in Unforced :
              (\E block \in now.blocks : {p, q} \subseteq block)
                  <=> TogetherUnattached(Home(p), Home(q))
        /\ \A one, other \in now.blocks : one # other => one \cap other = {}

\* The worlds that leave a person to be decided.
Deciding(person) == {i \in DOMAIN results : results[i][person].kind = NONE}

AgreeOn(i, j, facts) == \A fact \in facts : worlds[i][fact] = worlds[j][fact]

\* An open person's list of unresolved facts is the question to ask: worlds
\* that agree on the listed facts give the person the same unit and role.  And
\* a conflict's reported impact covers every projection it can change.
Elicited ==
    Answered /\ results # <<>> =>
        /\ \A p \in DOMAIN answer.open : \A i, j \in Deciding(p) :
              AgreeOn(i, j, answer.open[p].facts) => results[i][p] = results[j][p]
        /\ \A impact \in answer.impacts : \A p \in Persons : \A i, j \in Deciding(p) :
              AgreeOn(i, j, Keys \ {impact.fact}) =>
                  /\ results[i][p].block # results[j][p].block =>
                        p \in impact.persons /\ Projections \subseteq impact.projections
                  /\ results[i][p].role # results[j][p].role =>
                        p \in impact.persons /\ "participating" \in impact.projections

\* Learning a fact takes nothing back: whoever had a unit or a role before has
\* the same after, unless the new facts contradict the constraints.
NothingTakenBack ==
    stage = "done" /\ learned > 0 /\ worlds # <<>> =>
        /\ \A p \in DOMAIN earlier.block :
              p \in DOMAIN answer.block /\ answer.block[p] = earlier.block[p]
        /\ \A p \in DOMAIN earlier.role :
              p \in DOMAIN answer.role /\ answer.role[p] = earlier.role[p]

\* The tuples of a world: what the second phase would count there.
WorldTuples(i) ==
    LET decided == {p \in Persons : results[i][p].kind = NONE}
    IN Supplied
        \cup {<<"constituent", results[i][p].block, p>> : p \in decided}
        \cup {<<"participating", results[i][p].block, p>> :
                 p \in {q \in decided : results[i][q].role = "member"}}

RightEverywhere(figure) ==
    \A value \in figure.value, i \in DOMAIN results :
            value = ValueOf(Rules[figure.rule], figure.entity, WorldTuples(i))

MembershipOpen ==
    \E p \in DOMAIN answer.open : answer.open[p].kind # "role"

\* A figure the second phase determines is the figure of every admissible
\* world, for units, and for persons when only roles are open.
FiguresSound ==
    \A figure \in figures :
        figure.rule \in request.unitRules \/ ~MembershipOpen => RightEverywhere(figure)

\* The shadow comparison says "equal" only of what every world derives.
EqualEverywhere ==
    Answered =>
        \A projection \in Projections :
            comparison[projection].observed = "equal" =>
                \A i \in DOMAIN results :
                    LET blocks == {results[i][p].block : p \in Persons}
                        Part(block) == {p \in block : results[i][p].role = "member"}
                    IN SameBlocks(IF projection = "constituent" THEN blocks
                                  ELSE {Part(block) : block \in blocks} \ {{}},
                                  {r \in request.shadow.records :
                                      r.projection = projection})

\* The contract of docs/unit-derivation.md for every figure: an open person is
\* never counted as absent.
NeverSmaller == \A figure \in figures : RightEverywhere(figure)

=============================================================================
