------------------------------ MODULE Lowering ------------------------------
(***************************************************************************)
(* From a loaded RuleSpec document to the program that runs (`to_program_  *)
(* spec_with_options` of src/src/rulespec.rs, then `compile_at` of         *)
(* src/src/compile.rs as far as it treats parameters and repeated names).  *)
(*                                                                         *)
(* Lowering works on the declarations of all modules together and by bare  *)
(* name: it gives rules their public ids, finds the relation each formula  *)
(* names, lets a `sets` record of one module put its values in the slot of *)
(* another, and resolves the member relations of filtered entities. Each   *)
(* pass rewrites the program the pass before it left.                      *)
(*                                                                         *)
(* A module's declarations are records with a `kind`:                      *)
(*   parameter  [name, table, index, unit, versions], versions a set of    *)
(*              [from, to, value];                                         *)
(*   rule       [name, entity, unit, body], the references to relations in *)
(*              the formulas of all its versions;                          *)
(*   relation   [name, arity, sources, predicate, entity, alias], sources  *)
(*              empty unless it is derived;                                *)
(*   sets       [name, target, value] and cites [name].                    *)
(* A reference is [form, relation, reads]: how a formula asks about a      *)
(* relation, the name it writes and the rules read around the members.     *)
(* Names are <<n>> when bare and <<module, n>> when canonical.             *)
(***************************************************************************)
EXTENDS ModuleLoading, SequencesExt

CONSTANTS Declares(_, _),   \* what a source's text for a module declares
          Days              \* the days parameters are read on

None == "none"
Open == 0     \* no end date
Reserved == {"period_start", "period_end", "anchor", "candidate"}

(* What the properties below rely on: versions run from day to day, and a  *)
(* `sets` record names its ends by canonical names.                        *)
WellFormed(d) ==
    /\ {"kind", "name"} \subseteq DOMAIN d
    /\ d.kind = "parameter" => /\ "versions" \in DOMAIN d
                               /\ \A v \in d.versions : v.from \in Int /\ v.to \in Int
    /\ d.kind = "sets" => /\ {"target", "value"} \subseteq DOMAIN d
                          /\ Len(d.target) = 2 /\ Len(d.value) = 2

ASSUME DeclarationsAssumption ==
    /\ Days \subseteq Int
    /\ \A s \in Sources, m \in Modules \cup {Composition} :
           /\ Declares(s, m) \in Seq(ToSet(Declares(s, m)))
           /\ \A d \in ToSet(Declares(s, m)) : WellFormed(d)

VARIABLES pass,      \* the pass to come, "compiled" or "refused"
          place,     \* the declaration the `sets` pass is at
          program    \* [parameters, derived, relations]

lowering == <<pass, place, program>>

DeclaredIn(m, d) ==
    [f \in DOMAIN d \cup {"origin"} |-> IF f = "origin" THEN m ELSE d[f]]

Declarations ==
    FlattenSeq([i \in DOMAIN frames[1].combined |->
        LET m == frames[1].combined[i]
        IN  [j \in DOMAIN Declares(source, m) |-> DeclaredIn(m, Declares(source, m)[j])]])

(* What a sequence has at some of its places, in order.                    *)
Subsequence(s, places) ==
    LET upto[k \in 0..Len(s)] ==
            IF k = 0 THEN <<>>
            ELSE IF k \in places THEN Append(upto[k - 1], s[k]) ELSE upto[k - 1]
    IN  upto[Len(s)]

Places(kind) == {i \in DOMAIN Declarations : Declarations[i].kind = kind}
Declared(kinds) == {d \in ToSet(Declarations) : d.kind \in kinds}

(* The composed program's own declarations belong to no module.            *)
Canonical(d) == IF d.origin = Composition THEN <<d.name>> ELSE <<d.origin, d.name>>

Refused == pass' = "refused" /\ UNCHANGED <<place, program>>
Passed(next, result) == pass' = next /\ program' = result /\ UNCHANGED place

-----------------------------------------------------------------------------
(* Declarations, one by one                                                *)

(* A name is a parameter's, a rule's or a relation's in the whole program. *)
NamesClash ==
    LET named == Declared({"parameter", "rule", "relation"})
    IN  \/ \E d \in named : d.name \in Reserved
        \/ \E d, e \in named : d.name = e.name /\ d.kind # e.kind

(* Of two versions, the one that starts first ends before the other starts *)
(* or not at all, and no two start on one day.                             *)
VersionsClash(d) ==
    \E v, w \in d.versions :
        v # w /\ (v.from = w.from \/ (v.from < w.from /\ v.to # Open /\ v.to >= w.from))

(* A predicate's atoms name relations some module declares.                *)
AtomsKnown(d) ==
    \A i \in DOMAIN d.predicate :
        d.predicate[i].form \in {"atom", "exists"} =>
            \E e \in Declared({"relation"}) : <<e.name>> = d.predicate[i].relation

DeclarationsRefused ==
    \/ NamesClash
    \/ \E d \in Declared({"parameter"}) : VersionsClash(d)
    \/ \E d \in Declared({"relation"}) : ~AtomsKnown(d)

RefuseDeclarations ==
    /\ pass = "declarations" /\ outcome = "loaded" /\ DeclarationsRefused
    /\ Refused /\ UNCHANGED vars

(* Ids go by name: the last module's record of a name, whatever its kind,  *)
(* gives its id to every parameter and rule of that name.                  *)
IdOf(name) ==
    LET named == {i \in DOMAIN Declarations :
                    Declarations[i].name = name /\ Declarations[i].origin # Composition}
    IN  IF named = {} THEN <<>> ELSE Canonical(Declarations[Max(named)])

(* Tables follow the scalar parameters. The stub a table lowers to is taken*)
(* out again by its name.                                                  *)
LoweredParameters ==
    LET tables == {i \in Places("parameter") : Declarations[i].table}
        scalars == {i \in Places("parameter") \ tables :
                      \A j \in tables : Declarations[j].name # Declarations[i].name}
        lowered == Subsequence(Declarations, scalars) \o Subsequence(Declarations, tables)
    IN  [i \in DOMAIN lowered |->
            [name |-> lowered[i].name, id |-> IdOf(lowered[i].name),
             index |-> lowered[i].index, unit |-> lowered[i].unit,
             versions |-> lowered[i].versions]]

LoweredRules ==
    LET rules == Subsequence(Declarations, Places("rule"))
    IN  [i \in DOMAIN rules |->
            [name |-> rules[i].name, id |-> IdOf(rules[i].name),
             entity |-> rules[i].entity, unit |-> rules[i].unit,
             body |-> rules[i].body]]

Relation(name, arity, d) ==
    [name |-> name, arity |-> arity, sources |-> d.sources,
     predicate |-> d.predicate, entity |-> d.entity, alias |-> d.alias]
Underived == [sources |-> <<>>, predicate |-> <<>>, entity |-> None, alias |-> None]

Named(body) == {body[i].relation : i \in DOMAIN body}

(* Formulas lower before relations: what a rule names is a relation of two *)
(* slots.                                                                  *)
InferredRelations ==
    {Relation(n, 2, Underived) :
        n \in UNION {Named(d.body) : d \in Declared({"rule"})}}

LowerDeclarations ==
    /\ pass = "declarations" /\ outcome = "loaded" /\ ~DeclarationsRefused
    /\ Passed("relations", [parameters |-> LoweredParameters, derived |-> LoweredRules,
                            relations |-> InferredRelations])
    /\ UNCHANGED vars

-----------------------------------------------------------------------------
(* Relations: declared ones join, references find the one they name        *)

Explicit == {[name |-> Canonical(d), arity |-> d.arity] : d \in Declared({"relation"})}

RelationsConflict ==
    \E r \in Explicit, s \in Explicit \cup program.relations :
        r.name = s.name /\ r.arity # s.arity

(* Of one name, the first derivation stays.                                *)
DeclaredRelation(name) ==
    LET all == {i \in Places("relation") : Canonical(Declarations[i]) = name}
        derived == {i \in all : Declarations[i].sources # <<>>}
    IN  Relation(name, Declarations[Min(all)].arity,
                 IF derived = {} THEN Underived ELSE Declarations[Min(derived)])

AppendRelations ==
    /\ pass = "relations"
    /\ IF RelationsConflict THEN Refused
       ELSE LET names == {r.name : r \in Explicit}
            IN  Passed("references",
                    [program EXCEPT !.relations =
                        {r \in @ : r.name \notin names}
                            \cup {DeclaredRelation(n) : n \in names}])
    /\ UNCHANGED vars

(* The canonical names that rewrite a bare one, by module.                 *)
Rewrites == {Canonical(d) : d \in {e \in Declared({"relation"}) : e.origin # Composition}}
Declaring(n) == {c \in Rewrites : c[2] = n}

(* A bare name means the module's own declaration first.                   *)
Imported(name, module) ==
    \E i \in DOMAIN program.derived :
        LET id == program.derived[i].id
        IN  program.derived[i].name = name /\ id # <<>> /\ id[1] # module

(* Atoms and `exists` may mean the one imported declaration; aggregations  *)
(* only when they read an imported rule of the members; `only_related`, a  *)
(* membership test and a derivation's sources never.                       *)
FallsBack(ref, module) ==
    \/ ref.form \in {"atom", "exists"}
    \/ ref.form = "aggregate" /\ \E n \in ref.reads : Imported(n, module)

Anywhere(ref, module) ==                               \* mutant: own first, lost
    IF Len(ref.relation) = 2 THEN ref
    ELSE LET n == ref.relation[1]
         IN  IF Cardinality(Declaring(n)) # 1 THEN ref
             ELSE [ref EXCEPT !.relation = CHOOSE c \in Declaring(n) : TRUE]
Rewritten(ref, module) ==
    IF Len(ref.relation) = 2 THEN ref
    ELSE LET n == ref.relation[1]
         IN  IF <<module, n>> \in Rewrites THEN [ref EXCEPT !.relation = <<module, n>>]
             ELSE IF FallsBack(ref, module) /\ Cardinality(Declaring(n)) = 1
             THEN [ref EXCEPT !.relation = CHOOSE c \in Declaring(n) : TRUE]
             ELSE ref

RewrittenBody(body, module) == [i \in DOMAIN body |-> Rewritten(body[i], module)]

(* A rule's module is the one in its id.                                   *)
RewrittenRule(rule) ==
    IF rule.id = <<>> THEN rule
    ELSE [rule EXCEPT !.body = RewrittenBody(@, rule.id[1])]

RewrittenSource(name, module) ==
    IF Len(name) = 1 /\ <<module, name[1]>> \in Rewrites
    THEN <<module, name[1]>> ELSE name

RewrittenRelation(r) ==
    IF Len(r.name) = 1 THEN r
    ELSE [r EXCEPT !.predicate = RewrittenBody(@, r.name[1]),
                   !.sources = [i \in DOMAIN @ |-> RewrittenSource(@[i], r.name[1])]]

UsedRelations(p) ==
    (UNION {Named(p.derived[i].body) : i \in DOMAIN p.derived})
    \cup UNION {Named(r.predicate) \cup ToSet(r.sources) : r \in p.relations}

(* Bare names that nothing means any more are no relations.                *)
WithoutUnused(p, names) ==
    [p EXCEPT !.relations = {r \in @ : r.name \in names => r.name \in UsedRelations(p)}]

AritiesConflict ==
    \E r \in program.relations, s \in Explicit :
        Len(s.name) = 2 /\ r.name = <<s.name[2]>> /\ r.arity # s.arity

RewriteReferences ==
    /\ pass = "references"
    /\ IF AritiesConflict THEN Refused
       ELSE Passed("sets",
                WithoutUnused(
                    [program EXCEPT
                        !.derived = [i \in DOMAIN @ |-> RewrittenRule(@[i])],
                        !.relations = {RewrittenRelation(r) : r \in @}],
                    {<<c[2]>> : c \in Rewrites}))
    /\ UNCHANGED vars

-----------------------------------------------------------------------------
(* `sets` records, in the order of the declarations                        *)

(* The first parameter of an id, or the first rule.                        *)
Binding(ref) ==
    LET p == {i \in DOMAIN program.parameters : program.parameters[i].id = ref}
        r == {i \in DOMAIN program.derived : program.derived[i].id = ref}
    IN  IF p # {} THEN [kind |-> "parameter", at |-> Min(p)]
        ELSE IF r # {} THEN [kind |-> "rule", at |-> Min(r)]
        ELSE [kind |-> None, at |-> 0]

Stopped == pass' = "refused" /\ UNCHANGED program
Differ(u, v) == u # None /\ v # None /\ u # v

(* The value becomes what the target gives; the target keeps its name, id  *)
(* and unit.                                                               *)
SetParameter(t, v) ==
    LET target == program.parameters[t]
        value == program.parameters[v]
    IN  IF target.index # value.index \/ Differ(target.unit, value.unit) THEN Stopped
        ELSE /\ program' = [program EXCEPT !.parameters[t].versions = value.versions]
             /\ UNCHANGED pass

SetRule(t, v) ==
    LET target == program.derived[t]
        value == program.derived[v]
    IN  IF target.entity # value.entity \/ Differ(target.unit, value.unit) THEN Stopped
        ELSE /\ program' = [program EXCEPT !.derived[t].body = value.body]
             /\ UNCHANGED pass

Unset == UNCHANGED <<pass, program>>

(* A record whose two ends are both unbound is passed over.                *)
ApplySets ==
    /\ pass = "sets" /\ place <= Len(Declarations)
    /\ place' = place + 1
    /\ LET d == Declarations[place]
       IN  IF d.kind # "sets" THEN Unset
           ELSE LET t == Binding(d.target)
                    v == Binding(d.value)
                IN  IF d.target = d.value \/ (t.kind = None /\ v.kind = None) THEN Unset
                    ELSE IF t.kind # v.kind THEN Stopped
                    ELSE IF t.kind = "parameter" THEN SetParameter(t.at, v.at)
                    ELSE SetRule(t.at, v.at)
    /\ UNCHANGED vars

(* Rules of a filtered entity call the derived relation by its member name;*)
(* no two derivations share an entity and a member name in the instances.  *)
Aliased(ref, entity) ==
    LET means == {r \in program.relations : r.entity = entity /\ <<r.alias>> = ref.relation}
    IN  IF entity = None \/ means = {} THEN ref
        ELSE [ref EXCEPT !.relation = (CHOOSE r \in means : TRUE).name]

ResolveAliases ==
    /\ pass = "sets" /\ place > Len(Declarations)
    /\ Passed("compile",
           WithoutUnused(
               [program EXCEPT !.derived =
                   [i \in DOMAIN @ |->
                       [@[i] EXCEPT !.body =
                           [j \in DOMAIN @ |-> Aliased(@[j], program.derived[i].entity)]]]],
               {<<r.alias>> : r \in {s \in program.relations : s.alias # None}}))
    /\ UNCHANGED vars

-----------------------------------------------------------------------------
(* Compilation: repeated names                                             *)

InvalidRange(p) == \E v \in p.versions : v.to # Open /\ v.to < v.from

OverlapBeforeEnds(v, w) ==                             \* mutant: ends left out
    (v.to = Open \/ w.from < v.to) /\ (w.to = Open \/ v.from < w.to)
VersionsOverlap(v, w) ==
    (v.to = Open \/ w.from <= v.to) /\ (w.to = Open \/ v.from <= w.to)

Incompatible(p, q) ==
    \/ p.id # q.id \/ p.unit # q.unit \/ p.index # q.index
    \/ \E v \in p.versions, w \in q.versions : VersionsOverlap(v, w) /\ v.value # w.value

Repeated(s, i, j) == i < j /\ s[i].name = s[j].name

(* Compatible parameters of one name become one; rules may not repeat.     *)
MergedParameters ==
    LET p == program.parameters
        firsts == {i \in DOMAIN p : \A j \in 1..(i - 1) : p[j].name # p[i].name}
        sameName(i) == {j \in DOMAIN p : p[j].name = p[i].name}
        merged == [i \in DOMAIN p |->
                      [p[i] EXCEPT !.versions = UNION {p[j].versions : j \in sameName(i)}]]
    IN  Subsequence(merged, firsts)

CompileParameters ==
    /\ pass = "compile"
    /\ IF \/ \E i \in DOMAIN program.parameters : InvalidRange(program.parameters[i])
          \/ \E i, j \in DOMAIN program.parameters :
                 /\ Repeated(program.parameters, i, j)
                 /\ Incompatible(program.parameters[i], program.parameters[j])
          \/ \E i, j \in DOMAIN program.derived : Repeated(program.derived, i, j)
       THEN Refused
       ELSE Passed("compiled", [program EXCEPT !.parameters = MergedParameters])
    /\ UNCHANGED vars

(* Nothing else stops a document on its way: deadlock is checked.          *)
Decided == outcome \notin {"loading", "loaded"} \/ pass \in {"compiled", "refused"}
Terminated == Decided /\ UNCHANGED <<vars, lowering>>

LoweringNext ==
    \/ Next /\ UNCHANGED lowering
    \/ RefuseDeclarations \/ LowerDeclarations \/ AppendRelations
    \/ RewriteReferences \/ ApplySets \/ ResolveAliases \/ CompileParameters
    \/ Terminated

LoweringInit ==
    /\ Init
    /\ pass = "declarations" /\ place = 1
    /\ program = [parameters |-> <<>>, derived |-> <<>>, relations |-> {}]

LoweringSpec == LoweringInit /\ [][LoweringNext]_<<vars, lowering>>

-----------------------------------------------------------------------------
Records(n) == {i \in DOMAIN Declarations : Declarations[i].name = n}
Plain(n) == Cardinality(Records(n)) <= 1
BindingsPlain ==
    \A d \in Declared({"sets"}) : Plain(d.target[2]) /\ Plain(d.value[2])

DeclaredAs(name) == \E d \in Declared({"parameter", "rule"}) : Canonical(d) = name

(* Whose own text a name has after the first k records.                    *)
Gives[k \in 0..Len(Declarations)] ==
    [n \in {d.name : d \in Declared({"parameter", "rule"})} |->
        IF k = 0 THEN n
        ELSE LET d == Declarations[k]
             IN  IF d.kind = "sets" /\ d.target[2] = n
                    /\ DeclaredAs(d.target) /\ DeclaredAs(d.value)
                 THEN Gives[k - 1][d.value[2]]
                 ELSE Gives[k - 1][n]]
TextOf(n) == Gives[Len(Declarations)][n]

(* The version read on a day: of those that apply, the one starting last.  *)
Given(versions, day) ==
    LET apply == {v \in versions : v.from <= day /\ (v.to = Open \/ day <= v.to)}
    IN  {v.value : v \in {w \in apply : \A u \in apply : u.from <= w.from}}

DeclaredParameters(n) == {d \in Declared({"parameter"}) : d.name = n}

(* A table hides the scalar parameters of its name.                        *)
Hides(n) == \E d, e \in DeclaredParameters(n) : d.table /\ ~e.table

(* A compiled parameter gives on every day what its text gives: its own    *)
(* declarations', however many modules repeat it, or those of the last     *)
(* parameter set into it, as that one stood when the record was reached.   *)
ValuesAsDeclared ==
    pass = "compiled" /\ BindingsPlain =>
        /\ {program.parameters[i].name : i \in DOMAIN program.parameters}
               = {d.name : d \in Declared({"parameter"})}
        /\ \A i \in DOMAIN program.parameters, day \in Days :
               LET p == program.parameters[i]
               IN  ~Hides(TextOf(p.name)) =>
                       Given(p.versions, day) =
                           UNION {Given(d.versions, day) :
                                     d \in DeclaredParameters(TextOf(p.name))}

(* The relation a reference means where it is written.                     *)
Means(d, ref) ==
    LET own == {e \in Declared({"relation"}) :
                   e.origin = d.origin /\ <<e.name>> = ref.relation}
        others == {Canonical(e) : e \in {x \in Declared({"relation"}) :
                      x.origin # Composition /\ <<x.name>> = ref.relation}}
        members == {e \in Declared({"relation"}) :
                       e.entity # None /\ e.entity = d.entity /\ <<e.alias>> = ref.relation}
        foreign == {e \in Declared({"rule"}) :
                       e.name \in ref.reads /\ e.origin \notin {d.origin, Composition}}
    IN  CASE own # {} -> Canonical(CHOOSE e \in own : TRUE)
          [] own = {} /\ d.origin # Composition /\ Cardinality(others) = 1
                /\ ref.form = "aggregate" /\ foreign # {} -> CHOOSE n \in others : TRUE
          [] OTHER -> IF members = {} THEN ref.relation
                      ELSE Canonical(CHOOSE e \in members : TRUE)

(* Every reference in a compiled rule names a relation of the program, the *)
(* one it means in the module that wrote it, also where a `sets` record has*)
(* taken the formula to a rule of another module.                          *)
ReferencesAsWritten ==
    pass = "compiled" /\ BindingsPlain /\ (\A d \in Declared({"rule"}) : Plain(d.name)) =>
        \A i \in DOMAIN program.derived :
            LET r == program.derived[i]
                d == CHOOSE e \in Declared({"rule"}) : e.name = TextOf(r.name)
            IN  /\ DOMAIN r.body = DOMAIN d.body
                /\ \A j \in DOMAIN r.body :
                       /\ r.body[j].relation = Means(d, d.body[j])
                       /\ \E s \in program.relations : s.name = r.body[j].relation

(* What docs/rulespec.md:729-731 says of executable rules loaded from      *)
(* modules: a durable id of the module that declares the rule and its name.*)
DurableIds ==
    pass = "compiled" =>
        \A x \in ToSet(program.parameters) \cup ToSet(program.derived) :
            \E d \in Declared({"parameter", "rule"}) :
                d.name = x.name /\ (d.origin = Composition \/ Canonical(d) = x.id)
=============================================================================
