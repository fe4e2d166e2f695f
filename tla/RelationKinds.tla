---------------------------- MODULE RelationKinds ----------------------------
(***************************************************************************)
(* The entity kinds of relation slots (src/src/relation_typing.rs and the  *)
(* table src/src/relation_direction.rs builds before it). A derived        *)
(* relation that declares no kinds has its source's, and a filtered entity *)
(* is queried with the ids of another kind, which may itself be filtered:  *)
(* both are chains, followed to their ends by one procedure that shares    *)
(* what earlier walks found.                                               *)
(*                                                                         *)
(* Slots count from 0. A program is [rules, relations, nodes]: formulas    *)
(* are numbered nodes, and a body lists the nodes a formula evaluates on   *)
(* the same id. A relation is [arity, kinds, derived] and, when derived,   *)
(* [source | path, current, related, own, entity, predicate, defaulted]    *)
(* where `own` are the kinds its derivation declares.                      *)
(***************************************************************************)
EXTENDS Integers, Sequences, FiniteSets

CONSTANTS Rules, Relations,    \* declared names
          EntityKinds,         \* names of entity kinds, some of them of filtered ones
          Programs,            \* families of programs as lowered, not yet directed
          WrittenPrograms,     \* families of programs that come from elsewhere
          NoKind,              \* `None` for a kind
          SCALAR_ENTITY        \* the entity of rules that have none

ASSUME NamesAssumption ==
    /\ IsFiniteSet(Rules) /\ Rules \subseteq Nat \ {0}
    /\ IsFiniteSet(Relations) /\ Relations \subseteq Nat \ {0}

(* The form of a program. Formulas are trees: a body's nodes come after    *)
(* their parent, and `only_related` and a membership test hold none. A     *)
(* derivation's two slots differ: RuleSpec requires it of paths; of        *)
(* filters nothing does, and an `exists` over one that relates a slot to   *)
(* itself would look up the variable it is about to bind.                  *)
Elements(s) == {s[i] : i \in 1..Len(s)}

(* Terms: an anchor, a candidate, or a variable by the exists that binds   *)
(* it, counted from the innermost, 0.                                      *)
Anchor == -1
Candidate == -2
TermForm == Nat \cup {Anchor, Candidate}

NodeOps == {"aggregate", "only", "member", "atom", "exists", "same", "read", "rule", "unbound"}
Bodies(p) == Seq(1..Len(p.nodes))

NodeForm(p) ==
    [op : NodeOps, relation : Nat, current : Nat, related : Nat, value : Nat, slot : Nat,
     body : Bodies(p), terms : Seq(TermForm), input_of : EntityKinds \cup {NoKind}]
RuleForm(p) == [entity : EntityKinds, base : Bodies(p), versions : Bodies(p)]
DataForm == [arity : Nat, kinds : Seq(EntityKinds), derived : {FALSE}, entity : {NoKind}]
StepForm == [relation : Nat, from : Nat, to : Nat]
DerivedForm(p) ==
    [arity : Nat, kinds : Seq(EntityKinds), derived : {TRUE}, source : Nat, path : Seq(StepForm),
     current : Nat, related : Nat, own : Seq(EntityKinds), entity : EntityKinds \cup {NoKind},
     predicate : Bodies(p), defaulted : BOOLEAN]

ProgramForm(p) ==
    /\ p \in [rules : [Rules -> RuleForm(p)], relations : [Relations -> DataForm \cup DerivedForm(p)],
              nodes : Seq(NodeForm(p))]
    /\ \A i \in 1..Len(p.nodes) :
           /\ \A j \in Elements(p.nodes[i].body) : j > i
           /\ p.nodes[i].op = "read" => Len(p.nodes[i].terms) = 1
           /\ p.nodes[i].op = "same" => Len(p.nodes[i].terms) = 2
           /\ p.nodes[i].op \in {"only", "member"} => p.nodes[i].body = <<>>
    /\ \A r \in Relations :
           p.relations[r].derived => p.relations[r].current # p.relations[r].related

ASSUME ProgramAssumption ==
    /\ NoKind \notin EntityKinds
    /\ \A family \in Programs \cup WrittenPrograms : \A p \in family : ProgramForm(p)

VARIABLES program, phase,
          chain      \* follow_chains: [at, path, resolved]

At(kinds, slot) == IF slot < Len(kinds) THEN kinds[slot + 1] ELSE NoKind
Unknown == <<>>      \* a relation whose kinds nobody declares
Least(S) == CHOOSE x \in S : \A y \in S : x <= y

Schema(r) == program.relations[r]
Derived == {r \in Relations : Schema(r).derived}
IsDerived(r) == r \in Derived
Filters(entity) == {r \in Derived : Schema(r).entity = entity}
Entities == {Schema(r).entity : r \in Derived} \ {NoKind}

-----------------------------------------------------------------------------
(* Links of chains: a node ends its chain with a result, or passes on.     *)
Ends(result) == [ends |-> TRUE, result |-> result]
Passes(next) == [ends |-> FALSE, next |-> next]

(* `own_slot_entities`: a filter that declares nothing has its source's    *)
(* kinds; a path never inherits those of its steps.                        *)
OwnKinds(r) ==
    CASE r \notin Relations -> Ends(Unknown)
      [] IsDerived(r) /\ Schema(r).own # Unknown -> Ends(Schema(r).own)
      [] IsDerived(r) /\ Schema(r).own = Unknown /\ Schema(r).kinds = Unknown ->
            IF Schema(r).path = <<>> THEN Passes(Schema(r).source) ELSE Ends(Unknown)
      [] OTHER -> Ends(Schema(r).kinds)

(* The kinds of the ids each filtered entity is queried with, by the       *)
(* relations that filter to it.                                            *)
CurrentKinds(kinds, entity) ==
    {At(kinds[r], Schema(r).current) : r \in Filters(entity)} \ {NoKind}

(* The entities whose filters agree on one kind.                           *)
Agreed(kinds) ==
    [e \in {e \in Entities : Cardinality(CurrentKinds(kinds, e)) = 1} |->
        CHOOSE k \in CurrentKinds(kinds, e) : TRUE]

(* `innermost_kinds`: a filter of a filter has the ids of the last.        *)
FilterLink(agreed, kind) ==
    CASE kind \notin DOMAIN agreed -> Ends(kind)
      [] kind \in DOMAIN agreed /\ agreed[kind] = kind -> Ends(kind)
      [] OTHER -> Passes(agreed[kind])

-----------------------------------------------------------------------------
(* `follow_chains`. A walk runs from `at` and keeps its path; it ends at a *)
(* node that ends its chain, at one resolved by an earlier walk, or at one *)
(* of its own path, which is a cycle; its end is the result of every node  *)
(* it passed. The starts come in any order: in lowering they are the keys  *)
(* of a hash map.                                                          *)
NoWalk == [walking |-> FALSE, path |-> {}, resolved |-> <<>>]
Resolved(n) == n \in DOMAIN chain.resolved

StartWalk(starts) ==
    /\ ~chain.walking
    /\ \E s \in starts \ DOMAIN chain.resolved :
           chain' = [walking |-> TRUE, at |-> s, path |-> {}, resolved |-> chain.resolved]

CloseWalk(passed, result) ==
    chain' = [walking |-> FALSE, path |-> {},
              resolved |-> [n \in DOMAIN chain.resolved \cup passed |->
                               IF n \in passed THEN result ELSE chain.resolved[n]]]

EndWalk(link(_), on_cycle) ==
    /\ chain.walking
    /\ \/ Resolved(chain.at) /\ CloseWalk(chain.path, chain.resolved[chain.at])
       \/ /\ ~Resolved(chain.at) /\ chain.at \in chain.path
          /\ CloseWalk(chain.path, on_cycle)
       \/ /\ ~Resolved(chain.at) /\ chain.at \notin chain.path
          /\ link(chain.at).ends
          /\ CloseWalk(chain.path \cup {chain.at}, link(chain.at).result)

ExtendWalk(link(_)) ==
    /\ chain.walking /\ ~Resolved(chain.at) /\ chain.at \notin chain.path
    /\ ~link(chain.at).ends
    /\ chain' = [chain EXCEPT !.at = link(chain.at).next, !.path = @ \cup {chain.at}]

FollowChains(starts, link(_), on_cycle) ==
    StartWalk(starts) \/ EndWalk(link, on_cycle) \/ ExtendWalk(link)

AllFollowed(starts) == ~chain.walking /\ starts \subseteq DOMAIN chain.resolved
=============================================================================
