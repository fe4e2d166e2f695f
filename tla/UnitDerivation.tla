--------------------------- MODULE UnitDerivation ---------------------------
(***************************************************************************)
(* derive_units (src/unit_derivation/evaluate.rs): from a roster, observed *)
(* facts and a compiled constitution to units, roles, and the persons      *)
(* whose unit or role the facts leave open.  Facts are normalized once;    *)
(* every valuation of the unresolved ones that the integrity constraints   *)
(* admit is a world, evaluated in five stages; only what is the same in    *)
(* every world is answered.                                                *)
(*                                                                         *)
(* A caller that learns one more fact asks again with the same plan; the   *)
(* answer before is kept, for what one answer says about the next.         *)
(***************************************************************************)
EXTENDS Constitutions, TLC

CONSTANTS Plans,           \* constitution plans that may be compiled
          RequestsFor(_),  \* the requests a plan is asked with
          FactOrder,   \* every fact, in the order of its key
          MaxWorlds,   \* config.max_admissible_worlds
          MaxLearned   \* bound on the facts learned one after another

VARIABLES stage,       \* where the call stands
          plan, request,
          bound,       \* BoundFacts: candidate values, conflicts
          worlds,      \* the admissible valuations, in enumeration order
          at,          \* the world being evaluated
          now,         \* what the stages of that world have decided so far
          results,     \* WorldResult of every world evaluated
          answer,      \* UnitDerivationResult
          earlier,     \* the answer before the last fact was learned
          learned      \* how many facts were learned

vars == <<stage, plan, request, bound, worlds, at, now, results, answer,
          earlier, learned>>

NONE == "none"
NoAnswer == [units |-> {}, block |-> <<>>, role |-> <<>>, open |-> <<>>, impacts |-> {}]
NoBound == [values |-> <<>>, conflicts |-> {}]
Fresh == [edges |-> {}, discretion |-> {}, overlap |-> {}, cuts |-> {},
          blocks |-> {}, attached |-> {}, next |-> 1]

Init ==
    /\ stage = "plan"
    /\ plan \in Plans
    /\ request \in RequestsFor(plan)
    /\ bound = NoBound /\ worlds = <<>> /\ at = 0 /\ now = Fresh
    /\ results = <<>> /\ answer = NoAnswer /\ earlier = NoAnswer /\ learned = 0

Persons == Each(request.roster)

-----------------------------------------------------------------------------
(* Before the evaluation: the plan is compiled, the request checked. *)

Compile ==
    /\ stage = "plan" /\ Compiles(plan)
    /\ stage' = "request"
    /\ UNCHANGED <<plan, request, bound, worlds, at, now, results, answer, earlier, learned>>

RefusePlan ==
    /\ stage = "plan" /\ ~Compiles(plan)
    /\ stage' = "refused"
    /\ UNCHANGED <<plan, request, bound, worlds, at, now, results, answer, earlier, learned>>

PersonsOf(rules) == UNION {rule.members : rule \in rules}

PersonsNamed ==
    UNION {Endpoints(edge) : edge \in Each(plan.edges)}
        \cup PersonsOf(MergingRules(plan) \cup Each(plan.bars))
        \cup {rule.anchor : rule \in Each(plan.attachments)}
        \cup {rule.person : rule \in Each(plan.statuses)}

RequestStands ==
    /\ request.enabled
    /\ request.segmentComplete
    /\ request.roster # <<>>
    /\ IsInjective(request.roster)
    /\ PersonsNamed \subseteq Persons

FactsStand ==
    LET Name(item) == item.name
    IN /\ Distinct(request.families, Name)
       /\ Distinct(request.bools, Name)
       /\ \A fact \in Each(request.bools) :
              fact.unknown => fact.observations = <<>>

RefuseRequest ==
    /\ stage = "request"
    /\ ~RequestStands \/ (request.rosterComplete /\ ~FactsStand)
    /\ stage' = "refused"
    /\ UNCHANGED <<plan, request, bound, worlds, at, now, results, answer, earlier, learned>>

\* Every person open for one reason, no unit.
NobodyDetermined(kind, facts) ==
    [NoAnswer EXCEPT !.open = [p \in Persons |-> [kind |-> kind, facts |-> facts]]]

RosterIncomplete ==
    /\ stage = "request" /\ RequestStands /\ ~request.rosterComplete
    /\ answer' = NobodyDetermined("roster", {"roster_not_asserted_complete"})
    /\ stage' = "done"
    /\ UNCHANGED <<plan, request, bound, worlds, at, now, results, earlier, learned>>

-----------------------------------------------------------------------------
(* bind_facts *)

AllFactRefs ==
    UNION {FactRefs(plan, guard) : guard \in Guards(plan) \cup Each(request.constraints)}

\* Equal observations with equal evidence are one; any other two conflict.
Normalized(observations) ==
    [values |-> {seen.value : seen \in Each(observations)},
     conflict |-> Cardinality(Each(observations)) > 1]

Unknown == [values |-> BOOLEAN, conflict |-> FALSE]
Known(value) == [values |-> {value}, conflict |-> FALSE]

Defaults(name) ==
    {election.missing : election \in
        {e \in ElectionsOf(plan) : e.fact = name /\ e.missing # "unknown"}}

BoundBool(name) ==
    LET supplied == {fact \in Each(request.bools) : fact.name = name}
    IN CASE \E fact \in supplied : fact.unknown -> Unknown
         [] \E fact \in supplied : fact.observations # <<>> ->
              Normalized((CHOOSE fact \in supplied : TRUE).observations)
         [] OTHER -> IF Defaults(name) = {} THEN Unknown
                     ELSE Known("true" \in Defaults(name))

BoundTuple(familyName, tuple) ==
    LET family == CHOOSE f \in Each(request.families) : f.name = familyName
        observations == SelectSeq(family.facts, LAMBDA seen : seen.tuple = tuple)
    IN CASE \A f \in Each(request.families) : f.name # familyName -> Unknown
         [] family.scope # request.scope -> Unknown
         [] observations # <<>> -> Normalized(observations)
         [] OTHER -> IF family.complete THEN Known(FALSE) ELSE Unknown

BoundFact(fact) ==
    IF fact[1] = "bool" THEN BoundBool(fact[2]) ELSE BoundTuple(fact[2], fact[3])

OpenPrecedences ==
    {<<"legal", cut.id, item.edge>> :
        <<cut, item>> \in {pair \in Each(plan.cuts) \X
                             UNION {Each(cut.precedence) : cut \in Each(plan.cuts)} :
                             /\ pair[2] \in Each(pair[1].precedence)
                             /\ pair[2].decision = "unresolved"}}

\* bind_facts and the choice of world_variables: the values of every key.
Bind ==
    /\ stage = "request" /\ RequestStands /\ request.rosterComplete /\ FactsStand
    /\ LET facts == AllFactRefs
       IN bound' =
            [values |-> [fact \in facts \cup OpenPrecedences |->
                            IF fact \in facts THEN BoundFact(fact).values ELSE BOOLEAN],
             conflicts |-> {fact \in facts : BoundFact(fact).conflict}]
    /\ stage' = "bound"
    /\ UNCHANGED <<plan, request, worlds, at, now, results, answer, earlier, learned>>

-----------------------------------------------------------------------------
(* Worlds. *)

Keys == DOMAIN bound.values

Unresolved ==
    {key \in Keys : key \in bound.conflicts \/ bound.values[key] = BOOLEAN}

WorldCount ==
    FoldSet(LAMBDA key, count : count * Cardinality(bound.values[key]), 1, Keys)

TooManyWorlds ==
    /\ stage = "bound" /\ WorldCount > MaxWorlds
    /\ stage' = "refused"
    /\ UNCHANGED <<plan, request, bound, worlds, at, now, results, answer, earlier, learned>>

Ordered(values) == SelectSeq(<<FALSE, TRUE>>, LAMBDA value : value \in values)

RECURSIVE Enumerated(_, _)
Enumerated(index, world) ==
    IF index > Len(FactOrder) THEN <<world>>
    ELSE LET key == FactOrder[index]
         IN IF key \notin Keys THEN Enumerated(index + 1, world)
            ELSE FlattenSeq([i \in DOMAIN Ordered(bound.values[key]) |->
                    Enumerated(index + 1,
                               world @@ (key :> Ordered(bound.values[key])[i]))])

Admissible(world) ==
    \A constraint \in Each(request.constraints) : Holds(plan, constraint, world)

Enumerate ==
    /\ stage = "bound" /\ WorldCount <= MaxWorlds
    /\ worlds' = SelectSeq(Enumerated(1, <<>>), Admissible)
    /\ stage' = IF worlds' = <<>> THEN "inconsistent" ELSE "freeze"
    /\ at' = 1 /\ now' = Fresh /\ results' = <<>>
    /\ UNCHANGED <<plan, request, bound, answer, earlier, learned>>

Inconsistent ==
    /\ stage = "inconsistent"
    /\ answer' = NobodyDetermined("inconsistent", Keys \ OpenPrecedences)
    /\ stage' = "done"
    /\ UNCHANGED <<plan, request, bound, worlds, at, now, results, earlier, learned>>

True(guard) == Holds(plan, guard, worlds[at])

-----------------------------------------------------------------------------
(* Influence: the persons a fact may reach, whatever the other facts are.  *)

\* Mutant: an attachment ties its members together, not to the anchor.
TiesWithoutAnchors ==
    {Endpoints(edge) : edge \in Each(plan.edges)}
        \cup {rule.members : rule \in MergingRules(plan) \cup Each(plan.bars)}

\* The groups of persons a rule may tie together.
Ties ==
    {Endpoints(edge) : edge \in Each(plan.edges)}
        \cup {rule.members : rule \in Each(plan.cuts) \cup Each(plan.bars)}
        \cup {rule.members \cup {rule.anchor} : rule \in Each(plan.attachments)}

RECURSIVE Spread(_, _)
Spread(persons, groups) ==
    LET wider == persons \cup UNION {group \in groups : group \cap persons # {}}
    IN IF wider = persons THEN persons ELSE Spread(wider, groups)

ClosePotential(persons) == Spread(persons, Ties)

ReachedByEdges(fact) ==
    UNION {Endpoints(edge) : edge \in
        {e \in Each(plan.edges) : Uses(plan, EdgeGuards(e), fact)}}

ReachedByCuts(fact) ==
    UNION {cut.members : cut \in {c \in Each(plan.cuts) : Uses(plan, {c.when}, fact)}}
        \cup UNION {CutNamed(plan, fact[2]).members \cup
                        UNION {Endpoints(edge) : edge \in
                            {e \in Each(plan.edges) : e.id = fact[3]}} :
                    key \in {fact} \cap OpenPrecedences}

ReachedByAttachments(fact) ==
    UNION {rule.members \cup {rule.anchor} : rule \in
        {r \in Each(plan.attachments) : Uses(plan, {r.when}, fact)}}

ReachedByRoles(fact) ==
    UNION {bar.members : bar \in {b \in Each(plan.bars) : Uses(plan, {b.when}, fact)}}
        \cup {status.person : status \in
                {s \in Each(plan.statuses) : Uses(plan, {s.when}, fact)}}

Constrained(fact) == Uses(plan, Each(request.constraints), fact)

Influence(fact) ==
    ClosePotential(
        NamedPersons(fact)
            \cup (IF Constrained(fact) THEN Persons ELSE {})
            \cup ReachedByEdges(fact) \cup ReachedByCuts(fact)
            \cup ReachedByAttachments(fact) \cup ReachedByRoles(fact))

ClosureFromSeed(seed) ==
    ClosePotential(Spread(seed, {Influence(fact) : fact \in Unresolved}))

UnresolvedFor(person) == {fact \in Unresolved : person \in Influence(fact)}

-----------------------------------------------------------------------------
(* evaluate_world, stage by stage. *)

Components(persons, edges) ==
    LET inside == {Endpoints(edge) : edge \in
                      {e \in edges : Endpoints(e) \subseteq persons}}
    IN {Spread({p}, inside) : p \in persons}

IsClique(component, edges) ==
    \A p, q \in component : p # q => \E edge \in edges : Endpoints(edge) = {p, q}

\* Edges freeze; base chains longer than two without a policy are discretion.
FreezeEdges ==
    /\ stage = "freeze"
    /\ LET frozen == {edge \in Each(plan.edges) :
                         /\ True(edge.when)
                         /\ \A defeater \in Each(edge.defeaters) : ~True(defeater.when)}
           base == {edge \in frozen : edge.kind = "base"}
           chains == {c \in Components(Persons, base) :
                         Cardinality(c) > 2 /\ ~IsClique(c, base)}
       IN now' = [now EXCEPT !.edges = frozen,
                             !.discretion = IF plan.chainPolicy THEN {}
                                  ELSE UNION {ClosureFromSeed(c) : c \in chains}]
    /\ stage' = "select"
    /\ UNCHANGED <<plan, request, bound, worlds, at, results, answer, earlier, learned>>

Overlap(one, other) == one.members \cap other.members # {}

\* apply_cut_precedence: of two overlapping cuts the lower one yields.
Prevailing(cuts) ==
    {cut \in cuts : \A other \in cuts :
        (/\ other # cut /\ Overlap(cut, other)
         /\ CutSetPrecedes(plan, {other.id}, {cut.id}))
        => CutSetPrecedes(plan, {cut.id}, {other.id})}

\* Cuts with the same members become one.
Coalesced(cuts) ==
    {[members |-> members,
      ids |-> {cut.id : cut \in {c \in cuts : c.members = members}}] :
        members \in {cut.members : cut \in cuts}}

SelectCuts ==
    /\ stage = "select"
    /\ LET active == {cut \in Each(plan.cuts) : True(cut.when)}
           cuts == Coalesced(Prevailing(active))
           clashes == {pair \in cuts \X cuts :
                          pair[1] # pair[2] /\ Overlap(pair[1], pair[2])}
       IN now' = [now EXCEPT
            !.cuts = {cut \in cuts : \A pair \in clashes : cut # pair[1]},
            !.overlap = UNION {ClosureFromSeed(pair[1].members \cup pair[2].members) :
                                  pair \in clashes}]
    /\ stage' = "cut"
    /\ UNCHANGED <<plan, request, bound, worlds, at, results, answer, earlier, learned>>

EdgeBlocks(cutId, edge) ==
    CASE DecisionOn(CutNamed(plan, cutId), edge) = "blocked" -> TRUE
      [] DecisionOn(CutNamed(plan, cutId), edge) = "overrides" -> FALSE
      [] OTHER -> ~worlds[at][<<"legal", cutId, edge.id>>]

Blocked(cut) ==
    \E edge \in now.edges :
        /\ edge.kind = "combination"
        /\ Crosses(edge, cut.members)
        /\ \E id \in cut.ids : EdgeBlocks(id, edge)

Forced == now.discretion \cup now.overlap

\* All cuts are tested against the frozen edges; the rest falls into components.
ApplyCuts ==
    /\ stage = "cut"
    /\ LET applied == {cut \in now.cuts : ~Blocked(cut)}
           parts == {cut.members \ Forced : cut \in applied} \ {{}}
           residue == (Persons \ Forced) \ UNION parts
       IN now' = [now EXCEPT !.cuts = applied,
                             !.blocks = parts \cup Components(residue, now.edges)]
    /\ stage' = "attach"
    /\ UNCHANGED <<plan, request, bound, worlds, at, results, answer, earlier, learned>>

BlockOf(blocks, person) == CHOOSE block \in blocks : person \in block

Moved(blocks, members, anchor) ==
    LET target == BlockOf(blocks, anchor)
    IN ({block \ members : block \in blocks \ {target}} \ {{}})
           \cup {target \cup members}

\* One attachment rule, in the order of the ids.
Attach ==
    /\ stage = "attach" /\ now.next <= Len(plan.attachments)
    /\ LET rule == plan.attachments[now.next]
           moving == rule.members \ Forced
           applies == True(rule.when) /\ rule.anchor \in UNION now.blocks
       IN now' = [now EXCEPT
            !.next = @ + 1,
            !.blocks = IF applies THEN Moved(@, moving, rule.anchor) ELSE @,
            !.attached = IF applies THEN @ \cup moving ELSE @]
    /\ UNCHANGED <<stage, plan, request, bound, worlds, at, results, answer, earlier, learned>>

BarsOn(person) ==
    {bar \in Each(plan.bars) :
        True(bar.when) /\ ~(bar.members \subseteq now.attached) /\ person \in bar.members}

RoleOf(person) ==
    CASE \E status \in Each(plan.statuses) :
             status.person = person /\ True(status.when) -> "excluded"
      [] OTHER -> IF BarsOn(person) # {} THEN "barred" ELSE "member"

WorldPerson(person) ==
    CASE person \in now.overlap    -> [kind |-> "overlap", block |-> {}, role |-> NONE]
      [] person \in now.discretion -> [kind |-> "discretion", block |-> {}, role |-> NONE]
      [] OTHER -> [kind |-> NONE, block |-> BlockOf(now.blocks, person),
                   role |-> RoleOf(person)]

\* Roles close the world; the next world starts, or the worlds are compared.
AssignRoles ==
    /\ stage = "attach" /\ now.next > Len(plan.attachments)
    /\ results' = Append(results, [p \in Persons |-> WorldPerson(p)])
    /\ IF at < Len(worlds)
       THEN /\ at' = at + 1 /\ now' = Fresh /\ stage' = "freeze"
       ELSE /\ stage' = "assemble" /\ UNCHANGED <<at, now>>
    /\ UNCHANGED <<plan, request, bound, worlds, answer, earlier, learned>>

-----------------------------------------------------------------------------
(* assemble_result *)

SameInEvery(person, Part(_)) ==
    \A result \in Each(results) : Part(result[person]) = Part(results[1][person])

BlockPart(state) == state.block
RolePart(state) == state.role

\* Mutant: the last admissible world is taken for granted.
DeterminedSoFar ==
    LET seen == [i \in DOMAIN results |-> results[i]]
    IN {p \in Persons :
           /\ \A i \in DOMAIN seen : i < Len(seen) => seen[i][p].block = seen[1][p].block
           /\ results[1][p].block # {}}

Determined ==
    {p \in Persons : SameInEvery(p, BlockPart) /\ results[1][p].block # {}}

WithRole == {p \in Determined : SameInEvery(p, RolePart)}

InvariantBlocks ==
    {block \in {results[1][p].block : p \in Determined} :
        \A member \in block :
            member \in Determined /\ results[1][member].block = block}

OpenKind(person) ==
    LET forced == SelectSeq(results, LAMBDA result : result[person].kind # NONE)
    IN CASE person \in Determined -> "role"
         [] forced # <<>> -> forced[1][person].kind
         [] OTHER -> "membership"

ComposingGuards ==
    UNION {EdgeGuards(edge) : edge \in Each(plan.edges)}
        \cup {rule.when : rule \in MergingRules(plan)}
        \cup Each(request.constraints)

ConflictImpact(fact) ==
    [fact |-> fact, persons |-> Influence(fact),
     projections |->
        (IF Uses(plan, ComposingGuards, fact) THEN {"constituent"} ELSE {})
            \cup (IF Uses(plan, ComposingGuards \cup Guards(plan), fact)
                  THEN {"participating"} ELSE {})]

\* The registry binds supplied entities, then the roster under their types.
RegistryClash ==
    \E one, other \in Each(request.supplied) : one.id = other.id /\ one.type # other.type

Collide ==
    /\ stage = "assemble" /\ RegistryClash
    /\ stage' = "refused"
    /\ UNCHANGED <<plan, request, bound, worlds, at, now, results, answer, earlier, learned>>

Assemble ==
    /\ stage = "assemble" /\ ~RegistryClash
    /\ answer' =
         [units |-> InvariantBlocks,
          block |-> [p \in {q \in Determined : results[1][q].block \in InvariantBlocks} |->
                        results[1][p].block],
          role |-> [p \in WithRole |-> results[1][p].role],
          open |-> [p \in Persons \ WithRole |->
                       [kind |-> OpenKind(p), facts |-> UnresolvedFor(p)]],
          impacts |-> {ConflictImpact(fact) : fact \in bound.conflicts}]
    /\ stage' = "done"
    /\ UNCHANGED <<plan, request, bound, worlds, at, now, results, earlier, learned>>

-----------------------------------------------------------------------------
(* The caller learns one unresolved fact and asks again. *)

Settled(fact, value) ==
    LET seen == [value |-> value, evidence |-> "settled"]
        named == {i \in DOMAIN request.bools : request.bools[i].name = fact[2]}
        others == SelectSeq(request.bools, LAMBDA item : item.name # fact[2])
    IN CASE fact[1] = "bool" ->
              [request EXCEPT !.bools = Append(others,
                  [name |-> fact[2], observations |-> <<seen>>, unknown |-> FALSE])]
         [] OTHER ->
              [request EXCEPT !.families =
                  [i \in DOMAIN @ |->
                      IF @[i].name # fact[2] THEN @[i]
                      ELSE [@[i] EXCEPT !.facts = Append(
                              SelectSeq(@, LAMBDA item : item.tuple # fact[3]),
                              [tuple |-> fact[3], value |-> value,
                               evidence |-> "settled"])]]]

CanBeSettled(fact) ==
    \/ fact[1] = "bool"
    \/ /\ fact[1] = "relation"
       /\ \E family \in Each(request.families) :
              family.name = fact[2] /\ family.scope = request.scope

Learn ==
    /\ stage = "done" /\ request.rosterComplete /\ learned < MaxLearned
    /\ \E fact \in Unresolved : \E value \in bound.values[fact] :
           /\ CanBeSettled(fact)
           /\ request' = Settled(fact, value)
    /\ earlier' = answer /\ learned' = learned + 1
    /\ stage' = "request"
    /\ bound' = NoBound /\ worlds' = <<>> /\ at' = 0 /\ now' = Fresh
    /\ results' = <<>> /\ answer' = NoAnswer
    /\ UNCHANGED plan

=============================================================================
