----------------------------- MODULE DenseCompile -----------------------------
(***************************************************************************)
(* The dense compiler (src/src/dense.rs, `DenseCompiler`). It compiles the *)
(* requested rules of one root entity into columns. A rule of the root     *)
(* entity gets a column of its own. A rule that a relation aggregation     *)
(* reads is inlined, for the related rows or, in the predicate of a        *)
(* derived relation, for the current row; one compiled body serves every   *)
(* read of the same rule at the same site, and counts its reads, since     *)
(* only a body read twice is cached when the program runs.                 *)
(*                                                                         *)
(* The compiler recurses, and defers a rule it reaches too deep: the work  *)
(* in progress is unwound, the rule compiled from level zero, and the work *)
(* started again over what is already compiled. The recursion is a stack   *)
(* of frames here; one step enters, reads, leaves or unwinds.              *)
(*                                                                         *)
(* An expression is [op, args, name]: "value" stands for every form that   *)
(* only compiles its operands in order, "refused" for every form dense     *)
(* does not compile anywhere.                                              *)
(***************************************************************************)
EXTENDS Integers, Sequences, FiniteSets

CONSTANTS Programs,     \* [rules, relations, parameters]
          Requests,     \* [entity, outputs, calculation]; entity or Unnamed
          Thresholds,   \* the levels at which a rule is deferred
          MaxInline,    \* how deep an inlined expression may nest
          Unnamed,      \* no entity named; no scope; no source
          Scalar        \* the entity of rules that belong to none

ASSUME BoundsAssumption == MaxInline \in Nat \ {0} /\ Thresholds \subseteq Nat \ {0}

VARIABLES program, request, threshold,
          root,      \* the entity whose rows the program evaluates
          work,      \* rules still to compile for the request, in order
          tasks,     \* deferred rules, the last compiled first
          stack,     \* frames of the recursion under way
          visiting,  \* rules on the path under way
          scope,     \* the derived relation whose predicate is compiling
          depth,     \* expression levels since the task began
          level,     \* nesting of the expression being inlined
          peak,      \* the deepest level since the body being inlined began
          compiled,  \* [rules, inputs, parameters, relations, bodies, selected]
          reads,     \* bodies read by what is still compiling
          verdict,
          unlisted, children, rooted, unrooted, walk, next, intervals

index == <<unlisted, children, rooted, unrooted, walk, next, intervals>>
given == <<program, request, threshold, root, index>>
path == <<visiting, scope, depth, level, peak>>
vars == <<given, work, tasks, stack, path, compiled, reads, verdict>>

Elements(s) == {s[i] : i \in 1..Len(s)}
Below(s) == SubSeq(s, 1, Len(s) - 1)
Final(s) == s[Len(s)]
Greater(a, b) == IF a > b THEN a ELSE b
Rules == DOMAIN program.rules
RuleAt(r) == program.rules[r]

(* Where an expression is compiled: in a rule of its own column, for the   *)
(* related rows of a relation, or for the current row of a predicate.      *)
InRule(r) == [mode |-> "rule", rule |-> r, relation |-> 0, entity |-> Unnamed]
InRelated(i, r) == [mode |-> "related", rule |-> r, relation |-> i, entity |-> Unnamed]
InCurrent(r, e) == [mode |-> "current", rule |-> r, relation |-> 0, entity |-> e]

(* The operands of an expression in the order they are compiled: a match   *)
(* compiles its first arm a second time, as the failure's placeholder.     *)
Operands(e) ==
    IF e.op = "match" THEN <<e.args[1], e.args[2], e.args[3], e.args[2]>> ELSE e.args

(* Forms that do something themselves before their operands.               *)
Acts == {"refused", "input", "parameter", "rule", "member", "fold"}

Entering(ctx, e) == [kind |-> "entering", ctx |-> ctx, expr |-> e]
Node(ctx, e) ==
    [kind |-> "node", ctx |-> ctx, expr |-> e, at |-> IF e.op \in Acts THEN 0 ELSE 1]

Top == stack[Len(stack)]
At(kind) == verdict = "none" /\ stack # <<>> /\ Top.kind = kind
AtNode(op) == At("node") /\ Top.at = 0 /\ Top.expr.op = op
Passed == [stack EXCEPT ![Len(stack)].at = 1]

Refuse(why) ==
    /\ verdict' = why
    /\ UNCHANGED <<given, work, tasks, stack, path, compiled, reads>>

-----------------------------------------------------------------------------
(* Preparing: the root entity and the rules to compile.                    *)

EntitiesOf(rs) == {RuleAt(r).entity : r \in rs} \ {Scalar}

(* The entity named, or the only one the requested rules have, or, if all  *)
(* are scalar, the only one of the program; Unnamed if there are several.  *)
RootEntity ==
    LET asked == EntitiesOf(Elements(request.outputs))
        all == EntitiesOf(Rules)
        only(es) == CHOOSE e \in es : TRUE
    IN  IF request.entity # Unnamed THEN request.entity
        ELSE IF Cardinality(asked) > 1 THEN Unnamed
        ELSE IF asked # {} THEN only(asked)
        ELSE IF Cardinality(all) = 1 THEN only(all)
        ELSE Scalar

Distinct(s) == SelectSeq([i \in 1..Len(s) |-> IF s[i] \in Elements(SubSeq(s, 1, i - 1))
                                             THEN Unnamed ELSE s[i]],
                         LAMBDA r : r # Unnamed)

Prepare ==
    /\ verdict = "none" /\ root = Unnamed /\ ~request.all
    /\ LET asked == request.outputs
           foreign == {r \in Elements(asked) \cap Rules :
                         RuleAt(r).entity \notin {RootEntity, Scalar}}
       IN  IF \/ asked = <<>> \/ ~(Elements(asked) \subseteq Rules)
              \/ RootEntity = Unnamed \/ foreign # {}
           THEN Refuse("request")
           ELSE /\ root' = RootEntity
                /\ work' = Distinct(asked)
                /\ UNCHANGED <<program, request, threshold, index, tasks, stack, path, compiled,
                               reads, verdict>>

(* Without requested outputs every rule of the root entity is compiled, in *)
(* whatever order the program's hash map gives.                            *)
PrepareAll ==
    /\ verdict = "none" /\ root = Unnamed /\ request.all
    /\ LET chosen == IF request.entity # Unnamed THEN {request.entity} ELSE EntitiesOf(Rules)
           entity == IF chosen = {} THEN Scalar ELSE CHOOSE e \in chosen : TRUE
           available == {r \in Rules : RuleAt(r).entity = entity}
       IN  IF Cardinality(chosen) > 1 \/ available = {} THEN Refuse("request")
           ELSE /\ root' = entity
                /\ \E order \in [1..Cardinality(available) -> available] :
                     /\ Elements(order) = available
                     /\ work' = order
                /\ UNCHANGED <<program, request, threshold, index, tasks, stack, path, compiled,
                               reads, verdict>>

-----------------------------------------------------------------------------
(* Rules with a column of their own.                                       *)

Target == IF tasks = <<>> THEN work[1] ELSE Final(tasks)

(* The version a rule compiles from: its only open one, or for a fixed     *)
(* calculation date the one in force then.                                 *)
Selectable(r) ==
    IF request.calculation THEN RuleAt(r).versions \in {"none", "open", "closed"}
    ELSE RuleAt(r).versions \in {"none", "open", "later"}

Select(r) ==
    IF request.calculation THEN Append(compiled.selected, r) ELSE compiled.selected

(* A deferral unwinds everything in progress; the reads it made of shared  *)
(* bodies are taken back, because the retry makes them again.              *)
NoneTakenBack(bodies, made) == bodies   \* mutant: the reads stay counted
TakenBack(bodies, made) ==
    [b \in 1..Len(bodies) |->
        [bodies[b] EXCEPT !.references =
            @ - Cardinality({i \in 1..Len(made) : made[i] = b})]]

Defer(r) ==
    IF r = work[1] \/ r \in Elements(tasks) THEN Refuse("cycle")
    ELSE /\ tasks' = Append(tasks, r)
         /\ stack' = <<>>
         /\ compiled' = [compiled EXCEPT !.bodies = TakenBack(@, reads)]
         /\ reads' = <<>>
         /\ UNCHANGED <<given, work, path, verdict>>

(* Compile a rule unless it is compiled: `resumed` is the stack to return  *)
(* to, and the path starts empty for the driver's task.                    *)
OpenRule(r, resumed, v, sc, d) ==
    IF r \in Elements(compiled.rules)
    THEN /\ stack' = resumed /\ visiting' = v /\ scope' = sc /\ depth' = d
         /\ UNCHANGED <<given, work, tasks, level, peak, compiled, reads, verdict>>
    ELSE IF r \in v THEN Refuse("cycle")
    ELSE IF d >= threshold THEN Defer(r)
    ELSE IF r \notin Rules THEN Refuse("unsupported")
    ELSE IF ~Selectable(r) THEN Refuse("version")
    ELSE IF RuleAt(r).entity \notin {root, Scalar} THEN Refuse("entity")
    ELSE /\ stack' = resumed \o <<[kind |-> "rule", rule |-> r, reads |-> Len(reads)],
                                  Entering(InRule(r), RuleAt(r).body)>>
         /\ visiting' = v \cup {r} /\ scope' = sc /\ depth' = d
         /\ compiled' = [compiled EXCEPT !.selected = Select(r)]
         /\ UNCHANGED <<given, work, tasks, level, peak, reads, verdict>>

(* The driver starts its last task, or the next rule of the request.       *)
Begin ==
    /\ verdict = "none" /\ root # Unnamed /\ work # <<>> /\ stack = <<>>
    /\ Target \notin Elements(compiled.rules)
    /\ OpenRule(Target, <<>>, {}, Unnamed, 0)

TaskDone ==
    /\ verdict = "none" /\ root # Unnamed /\ work # <<>> /\ stack = <<>>
    /\ Target \in Elements(compiled.rules)
    /\ tasks' = IF tasks = <<>> THEN tasks ELSE Below(tasks)
    /\ work' = IF tasks = <<>> THEN Tail(work) ELSE work
    /\ UNCHANGED <<given, stack, path, compiled, reads, verdict>>

ReadRule ==
    /\ AtNode("rule") /\ Top.ctx.mode = "rule"
    /\ LET r == Top.expr.name
       IN  IF r \notin Rules THEN Refuse("unsupported")
           ELSE IF RuleAt(r).entity \notin {root, Scalar} THEN Refuse("entity")
           ELSE OpenRule(r, Passed, visiting, scope, depth)

(* A finished rule keeps the reads it made.                                *)
FinishRule ==
    /\ At("rule")
    /\ compiled' = [compiled EXCEPT !.rules = Append(@, Top.rule)]
    /\ reads' = SubSeq(reads, 1, Top.reads)
    /\ visiting' = visiting \ {Top.rule}
    /\ stack' = Below(stack)
    /\ UNCHANGED <<given, work, tasks, scope, depth, level, peak, verdict>>

-----------------------------------------------------------------------------
(* Expressions.                                                            *)

(* A level deeper, in a rule's own column or in an inlined expression.     *)
Enter ==
    /\ At("entering")
    /\ IF Top.ctx.mode # "rule" /\ level >= MaxInline THEN Refuse("deep")
       ELSE /\ stack' = Append(Below(stack), Node(Top.ctx, Top.expr))
            /\ depth' = IF Top.ctx.mode = "rule" THEN depth + 1 ELSE depth
            /\ level' = IF Top.ctx.mode = "rule" THEN level ELSE level + 1
            /\ peak' = Greater(peak, level')
            /\ UNCHANGED <<given, work, tasks, visiting, scope, compiled, reads, verdict>>

RelationIndex(name, slots) ==
    CHOOSE i \in 1..Len(compiled.relations) :
        compiled.relations[i].name = name /\ compiled.relations[i].slots = slots

(* The operands of an aggregation are compiled for the related rows.       *)
OperandContext(n) ==
    IF n.expr.op = "fold"
    THEN InRelated(RelationIndex(n.expr.name, n.expr.slots), n.ctx.rule)
    ELSE n.ctx

Operand ==
    /\ At("node") /\ Top.at > 0
    /\ Top.at <= Len(Operands(Top.expr))
    /\ stack' = [stack EXCEPT ![Len(stack)].at = @ + 1]
                  \o <<Entering(OperandContext(Top), Operands(Top.expr)[Top.at])>>
    /\ UNCHANGED <<given, work, tasks, path, compiled, reads, verdict>>

Leave ==
    /\ At("node") /\ Top.at > Len(Operands(Top.expr))
    /\ stack' = Below(stack)
    /\ depth' = IF Top.ctx.mode = "rule" THEN depth - 1 ELSE depth
    /\ level' = IF Top.ctx.mode = "rule" THEN level ELSE level - 1
    /\ UNCHANGED <<given, work, tasks, visiting, scope, peak, compiled, reads, verdict>>

(* Forms dense compiles nowhere, or not here: only a rule's own column may *)
(* aggregate, only a predicate may test membership.                        *)
RefuseForm ==
    /\ \/ AtNode("refused")
       \/ AtNode("fold") /\ Top.ctx.mode # "rule"
       \/ AtNode("member") /\ Top.ctx.mode # "related"
    /\ Refuse("unsupported")

RegisteredAgain(s, x) == Append(s, x)   \* mutant: the index is not consulted
Registered(s, x) == IF x \in Elements(s) THEN s ELSE Append(s, x)

(* An input belongs to the root rows, or to the related rows of one        *)
(* relation.                                                               *)
ReadInput ==
    /\ AtNode("input")
    /\ compiled' = [compiled EXCEPT !.inputs = Registered(@, <<Top.ctx.relation, Top.expr.name>>)]
    /\ stack' = Passed
    /\ UNCHANGED <<given, work, tasks, path, reads, verdict>>

ReadParameter ==
    /\ AtNode("parameter")
    /\ LET p == Top.expr.name
           known == p \in Elements(compiled.parameters)
       IN  IF ~known /\ p \notin DOMAIN program.parameters THEN Refuse("unsupported")
           ELSE IF ~known /\ request.calculation /\ ~program.parameters[p] THEN Refuse("version")
           ELSE /\ compiled' =
                     [compiled EXCEPT
                        !.parameters = Registered(@, p),
                        !.selected = IF known THEN @ ELSE Select(p)]
                /\ stack' = Passed
                /\ UNCHANGED <<given, work, tasks, path, reads, verdict>>

-----------------------------------------------------------------------------
(* Inlined bodies.                                                         *)

(* The read of a body counts at once and is remembered until what made it  *)
(* is finished.                                                            *)
Counted(bodies, b) == [bodies EXCEPT ![b].references = @ + 1]

HeightIgnored(b) == level   \* mutant: a shared body counts as no level
Reached(b) == level + compiled.bodies[b].height

(* Read the body of a rule at a site: [mode, relation, rule].              *)
Inline(site, ctx, sc) ==
    LET r == site.rule
        known == {b \in 1..Len(compiled.bodies) : compiled.bodies[b].site = site}
    IN  IF r \in visiting THEN Refuse("cycle")
        ELSE IF known # {}
        THEN LET b == CHOOSE b \in known : TRUE
             IN  IF Reached(b) > MaxInline THEN Refuse("deep")
                 ELSE /\ peak' = Greater(peak, Reached(b))
                      /\ compiled' = [compiled EXCEPT !.bodies = Counted(@, b)]
                      /\ reads' = Append(reads, b)
                      /\ stack' = Passed
                      /\ UNCHANGED <<given, work, tasks, visiting, scope, depth, level, verdict>>
        ELSE /\ stack' = Passed \o
                  <<[kind |-> "body", site |-> site, start |-> level, outer |-> peak,
                     reads |-> Len(reads), scope |-> scope],
                    Entering(ctx, RuleAt(r).body)>>
             /\ visiting' = visiting \cup {r}
             /\ scope' = sc
             /\ peak' = level
             /\ UNCHANGED <<given, work, tasks, depth, level, compiled, reads, verdict>>

InlineCurrent(r) ==
    Inline([mode |-> "current", relation |-> 0, rule |-> r], InCurrent(r, RuleAt(r).entity), scope)

InlineRelated(i, r) ==
    Inline([mode |-> "related", relation |-> i, rule |-> r], InRelated(i, r), Unnamed)

Inlinable(r) == RuleAt(r).versions \in {"none", "open", "later"}

(* In the predicate of a derived relation a rule of the current entity is  *)
(* read on the current row; one of neither end is refused.                 *)
ReadsCurrent(i, r) ==
    scope # Unnamed /\ compiled.relations[i].current = RuleAt(r).entity

ReadsNeither(i, r) ==
    /\ scope # Unnamed /\ ~ReadsCurrent(i, r)
    /\ RuleAt(r).entity # Scalar
    /\ compiled.relations[i].related \notin {Unnamed, RuleAt(r).entity}

ReadRelatedRule ==
    /\ AtNode("rule") /\ Top.ctx.mode = "related"
    /\ LET r == Top.expr.name
           i == Top.ctx.relation
       IN  IF r \notin Rules THEN Refuse("unsupported")
           ELSE IF ~Inlinable(r) THEN Refuse("version")
           ELSE IF ReadsNeither(i, r) THEN Refuse("entity")
           ELSE IF ReadsCurrent(i, r) THEN InlineCurrent(r)
           ELSE InlineRelated(i, r)

ReadCurrentRule ==
    /\ AtNode("rule") /\ Top.ctx.mode = "current"
    /\ LET r == Top.expr.name
       IN  IF r \notin Rules THEN Refuse("unsupported")
           ELSE IF RuleAt(r).entity \notin {Top.ctx.entity, root, Scalar} THEN Refuse("entity")
           ELSE IF ~Inlinable(r) THEN Refuse("version")
           ELSE InlineCurrent(r)

(* The body is recorded; the reads it made are kept, and it is read once.  *)
FinishBody ==
    /\ At("body")
    /\ LET body == [site |-> Top.site, references |-> 0, height |-> peak - Top.start]
           b == Len(compiled.bodies) + 1
       IN  /\ compiled' = [compiled EXCEPT !.bodies = Counted(Append(@, body), b)]
           /\ reads' = Append(SubSeq(reads, 1, Top.reads), b)
    /\ peak' = Greater(Top.outer, peak)
    /\ visiting' = visiting \ {Top.site.rule}
    /\ scope' = Top.scope
    /\ stack' = Below(stack)
    /\ UNCHANGED <<given, work, tasks, depth, level, verdict>>

-----------------------------------------------------------------------------
(* Relations.                                                              *)

Derivation(name) == program.relations[name]
IsDerived(name) ==
    name \in DOMAIN program.relations /\ Derivation(name).source # Unnamed

Link(name, slots) == [name |-> name, slots |-> slots]
Indexed(l) ==
    \E i \in 1..Len(compiled.relations) :
        compiled.relations[i].name = l.name /\ compiled.relations[i].slots = l.slots
SourceLink(l) == Link(Derivation(l.name).source, Derivation(l.name).slots)
Links == [name : DOMAIN program.relations
                   \cup {Derivation(n).source : n \in DOMAIN program.relations},
          slots : {"forward", "reverse"}]

(* The links from a relation to its base or to a registered source: the    *)
(* chain grows while its last link's source is derived and not registered. *)
Chain[n \in 1..(Cardinality(DOMAIN program.relations) + 1), l \in Links] ==
    IF ~IsDerived(SourceLink(l).name) \/ Indexed(SourceLink(l)) \/ n = 1 THEN <<l>>
    ELSE <<l>> \o Chain[n - 1, SourceLink(l)]

ChainFrom(l) == Chain[Cardinality(DOMAIN program.relations) + 1, l]

(* A relation over the related rows of the current entity's records; one   *)
(* that is not derived is read as it is.                                   *)
ReadRelation ==
    /\ AtNode("fold") /\ Top.ctx.mode = "rule"
    /\ LET l == Link(Top.expr.name, Top.expr.slots)
       IN  IF Indexed(l)
           THEN /\ stack' = Passed /\ UNCHANGED <<given, work, tasks, path, compiled, reads, verdict>>
           ELSE IF ~IsDerived(l.name)
           THEN /\ compiled' = [compiled EXCEPT !.relations = Append(@,
                     [name |-> l.name, slots |-> l.slots, base |-> l, current |-> Unnamed,
                      related |-> Unnamed, parent |-> 0, filtered |-> FALSE])]
                /\ stack' = Passed
                /\ UNCHANGED <<given, work, tasks, path, reads, verdict>>
           ELSE LET chain == ChainFrom(l)
                    names == {chain[i].name : i \in 1..Len(chain)}
                    source == SourceLink(Final(chain))
                IN  IF \E i \in 1..Len(chain) : Derivation(chain[i].name).by_path
                    THEN Refuse("unsupported")
                    ELSE IF Cardinality(names) < Len(chain) THEN Refuse("cycle")
                    ELSE /\ stack' = Passed \o
                              <<[kind |-> "links", links |-> chain,
                                 parent |-> IF IsDerived(source.name) /\ Indexed(source)
                                            THEN RelationIndex(source.name, source.slots) ELSE 0]>>
                         /\ UNCHANGED <<given, work, tasks, path, compiled, reads, verdict>>

(* Register the link nearest the base that is left, keyed to the base's    *)
(* tuples, and compile its predicate on them.                              *)
RegisterLink ==
    /\ At("links") /\ Top.links # <<>>
    /\ LET l == Final(Top.links)
           d == Derivation(l.name)
           i == Len(compiled.relations) + 1
           base == IF Top.parent = 0 THEN SourceLink(l) ELSE compiled.relations[Top.parent].base
       IN  /\ compiled' = [compiled EXCEPT !.relations = Append(@,
                [name |-> l.name, slots |-> l.slots, base |-> base, current |-> d.current,
                 related |-> d.related, parent |-> Top.parent, filtered |-> FALSE])]
           /\ stack' = [stack EXCEPT ![Len(stack)].links = Below(@), ![Len(stack)].parent = i]
                         \o <<[kind |-> "filter", relation |-> i, reads |-> Len(reads),
                               scope |-> scope],
                              Entering(InRelated(i, Unnamed), d.predicate)>>
           /\ scope' = l.name
    /\ UNCHANGED <<given, work, tasks, visiting, depth, level, peak, reads, verdict>>

(* The predicate is set, and keeps the reads it made: a retry finds the    *)
(* relation registered and does not compile it again.                      *)
Settled(n) == SubSeq(reads, 1, n)

FinishFilter ==
    /\ At("filter")
    /\ compiled' = [compiled EXCEPT !.relations[Top.relation].filtered = TRUE]
    /\ reads' = Settled(Top.reads)
    /\ scope' = Top.scope
    /\ stack' = Below(stack)
    /\ UNCHANGED <<given, work, tasks, visiting, depth, level, peak, verdict>>

FinishLinks ==
    /\ At("links") /\ Top.links = <<>>
    /\ stack' = Below(stack)
    /\ UNCHANGED <<given, work, tasks, path, compiled, reads, verdict>>

(* The relation whose tuples a relation filters; a path filters none.      *)
Filtered(name) ==
    IF IsDerived(name) /\ ~Derivation(name).by_path THEN Derivation(name).source ELSE Unnamed

Ancestry ==
    INSTANCE CandidateAncestry WITH
        source <- [name \in DOMAIN program.relations |-> Filtered(name)],
        slots <- [name \in DOMAIN program.relations |->
                    IF IsDerived(name) THEN Derivation(name).slots ELSE Unnamed],
        NoSource <- Unnamed, stack <- walk

(* A predicate may test membership of a source up its relation's chain,    *)
(* read as the chain reads it; every candidate passes the test. The first  *)
(* such question builds the index that answers it.                         *)
Unanswered == scope # Unnamed /\ ~Ancestry!Indexed

IndexAncestry ==
    /\ AtNode("member") /\ Top.ctx.mode = "related"
    /\ Unanswered
    /\ UNCHANGED <<program, request, threshold, root, work, tasks, stack, path, compiled, reads,
                   verdict>>
    /\ Ancestry!Next

HoldsForCandidates(sc, l) == Ancestry!Holds(sc, l.name, l.slots)

(* Outside a predicate the test is compiled as a failure of its rows.      *)
ReadMember ==
    /\ AtNode("member") /\ Top.ctx.mode = "related"
    /\ ~Unanswered
    /\ IF scope # Unnamed /\ ~HoldsForCandidates(scope, Link(Top.expr.name, Top.expr.slots))
       THEN Refuse("unsupported")
       ELSE /\ stack' = Passed
            /\ UNCHANGED <<given, work, tasks, path, compiled, reads, verdict>>

-----------------------------------------------------------------------------
(* A calculation plan holds no relations.                                  *)
FinishProgram ==
    /\ verdict = "none" /\ root # Unnamed /\ work = <<>>
    /\ IF request.calculation /\ compiled.relations # <<>> THEN Refuse("unsupported")
       ELSE Refuse("compiled")

Init ==
    /\ program \in Programs /\ request \in Requests /\ threshold \in Thresholds
    /\ root = Unnamed /\ work = <<>> /\ tasks = <<>> /\ stack = <<>>
    /\ visiting = {} /\ scope = Unnamed /\ depth = 0 /\ level = 0 /\ peak = 0
    /\ compiled = [rules |-> <<>>, inputs |-> <<>>, parameters |-> <<>>, relations |-> <<>>,
                   bodies |-> <<>>, selected |-> <<>>]
    /\ reads = <<>>
    /\ verdict = "none"
    /\ Ancestry!Init

Next ==
    \/ Prepare \/ PrepareAll \/ Begin \/ TaskDone \/ ReadRule \/ FinishRule
    \/ Enter \/ Operand \/ Leave \/ RefuseForm \/ ReadInput \/ ReadParameter
    \/ ReadRelatedRule \/ ReadCurrentRule \/ FinishBody
    \/ ReadRelation \/ RegisterLink \/ FinishFilter \/ FinishLinks
    \/ IndexAncestry \/ ReadMember
    \/ FinishProgram

Spec == Init /\ [][Next]_vars /\ WF_vars(Next)
=============================================================================
