--------------------------- MODULE EvaluationOrder ---------------------------
(***************************************************************************)
(* The compiler's evaluation order and its refusal of cyclic programs      *)
(* (src/src/compile.rs, `evaluation_order`). Three passes over one program:*)
(* a depth-first search of the derived relations; Kahn's algorithm over    *)
(* rules and relations, which gives the published order; and a second      *)
(* Kahn walk over every dependency routed through derived relations, which *)
(* refuses the cycles the first order does not see and, for programs that  *)
(* use relation atoms, replaces the order.                                 *)
(*                                                                         *)
(* Rules and relations are numbers, their order the order of their names.  *)
(* A program is known by what its rules and predicates read: a "reader" is *)
(* a rule (across all its versions) or a derived relation (its predicate). *)
(***************************************************************************)
EXTENDS Integers, Sequences, FiniteSets

CONSTANTS Rules, Relations,      \* names declared by the program
          Reads(_, _),           \* of a program's reader: rules it reads
          RelationReads(_, _),   \* of a program's reader: [relation, kind]
          Derives(_, _),         \* of a program's relation: it is derived
          Sources(_, _),         \* of a derived relation: its source relations
          ByPath(_, _)           \* of a derived relation: its source is a path

(* How a formula names a relation: it aggregates over it ("count"), reads  *)
(* its only member ("only"), tests membership ("member"), or is a relation *)
(* atom or an exists ("atom").                                             *)
ReadKinds == {"count", "only", "member", "atom"}

WellFormed(p) ==
    /\ IsFiniteSet(Rules) /\ IsFiniteSet(Relations)
    /\ Rules \subseteq Nat /\ Relations \subseteq Nat
    /\ Rules \cap Relations = {}
    /\ \A x \in Rules \cup Relations :
           /\ Reads(p, x) \subseteq Nat /\ IsFiniteSet(Reads(p, x))
           /\ \A rd \in RelationReads(p, x) : rd.relation \in Nat /\ rd.kind \in ReadKinds
           /\ IsFiniteSet(RelationReads(p, x))
    /\ \A r \in Relations :
           /\ Sources(p, r) \subseteq Nat /\ IsFiniteSet(Sources(p, r))
           /\ Derives(p, r) \in BOOLEAN /\ ByPath(p, r) \in BOOLEAN

VARIABLES program,    \* the program being compiled
          phase,      \* the pass under way, or the verdict
          path,       \* depth-first search: [node, left], left = edges not followed
          finished,   \* relations the search is done with
          waiting,    \* Kahn: how many dependencies a node still waits for
          ready,      \* Kahn: nodes that wait for nothing and are not ordered
          order,      \* the published order so far, or the artifact's
          walk,       \* second walk: rules ordered so far, in atom programs
          error       \* what a refusal names: [kind, names]

vars == <<program, phase, path, finished, waiting, ready, order, walk, error>>

Phases == {"relations", "rules", "routed", "accepted", "refused"}

Least(S) == CHOOSE x \in S : \A y \in S : x <= y
Elements(s) == {s[i] : i \in 1..Len(s)}
NoError == [kind |-> "none", names |-> {}]

-----------------------------------------------------------------------------
(* What the collectors gather from a reader.                               *)
Named(x, kinds) == {rd.relation : rd \in {rd \in RelationReads(program, x) : rd.kind \in kinds}}

Aggregated(x) == Named(x, {"count", "only", "atom"})

(* The frozen membership walk: it passes `only_related` by.                *)
Walked(x) == Named(x, {"count", "member", "atom"})

DerivedRelations == {r \in Relations : Derives(program, r)}
Readers == Rules \cup DerivedRelations

HasAtoms ==
    \/ \E x \in Readers : Named(x, {"atom"}) # {}
    \/ \E r \in DerivedRelations : ByPath(program, r)

Refuse(kind, names) ==
    /\ phase' = "refused"
    /\ error' = [kind |-> kind, names |-> names]
    /\ UNCHANGED <<program, path, finished, waiting, ready, order, walk>>

Start ==
    /\ phase = "relations"
    /\ path = <<>> /\ finished = {}
    /\ waiting = <<>> /\ ready = {} /\ order = <<>> /\ walk = <<>>
    /\ error = NoError

-----------------------------------------------------------------------------
(* First pass: the graph of derived relations, by source and membership.   *)
RelationWaits(r) == Sources(program, r) \cup Walked(r)

UnknownRelations == (UNION {RelationWaits(r) : r \in DerivedRelations}) \ Relations

Entered(s, r) == Append(s, [node |-> r, left |-> RelationWaits(r) \cap DerivedRelations])
Top == path[Len(path)]
OnPath == {path[i].node : i \in 1..Len(path)}

RefuseUnknownRelation ==
    /\ phase = "relations"
    /\ UnknownRelations # {}
    /\ Refuse("unknown_relation", {})

Searching == phase = "relations" /\ UnknownRelations = {}

SearchRoot ==
    /\ Searching /\ path = <<>>
    /\ DerivedRelations \ finished # {}
    /\ path' = Entered(path, Least(DerivedRelations \ finished))
    /\ UNCHANGED <<program, phase, finished, waiting, ready, order, walk, error>>

(* The next dependency in name order, whatever becomes of it, is followed. *)
Followed == [path EXCEPT ![Len(path)].left = @ \ {Least(@)}]

PassFinished ==
    /\ Searching /\ path # <<>> /\ Top.left # {}
    /\ Least(Top.left) \in finished
    /\ path' = Followed
    /\ UNCHANGED <<program, phase, finished, waiting, ready, order, walk, error>>

CloseCycle ==
    /\ Searching /\ path # <<>> /\ Top.left # {}
    /\ Least(Top.left) \notin finished
    /\ Least(Top.left) \in OnPath
    /\ Refuse("cyclic_relations", OnPath)

Enter ==
    /\ Searching /\ path # <<>> /\ Top.left # {}
    /\ Least(Top.left) \notin finished \cup OnPath
    /\ path' = Entered(Followed, Least(Top.left))
    /\ UNCHANGED <<program, phase, finished, waiting, ready, order, walk, error>>

FinishTop == finished \cup {Top.node}

Leave ==
    /\ Searching /\ path # <<>> /\ Top.left = {}
    /\ finished' = FinishTop
    /\ path' = SubSeq(path, 1, Len(path) - 1)
    /\ UNCHANGED <<program, phase, waiting, ready, order, walk, error>>

-----------------------------------------------------------------------------
(* Second pass: the published order. A rule waits for the rules it reads   *)
(* and, one node per relation, for the relations it aggregates over; a     *)
(* relation waits for the rules its predicate reads.                       *)
RelationNodes == {r \in DerivedRelations : Reads(program, r) # {}}

RuleWaits(x) == Reads(program, x) \cup (Aggregated(x) \cap RelationNodes)

UnknownRules == (UNION {Reads(program, x) : x \in Readers}) \ Rules

Searched == Searching /\ path = <<>> /\ DerivedRelations \subseteq finished

RefuseUnknownRule ==
    /\ Searched
    /\ UnknownRules # {}
    /\ Refuse("unknown_rule", {})

StartOrder ==
    /\ Searched
    /\ UnknownRules = {}
    /\ waiting' = [x \in Rules \cup RelationNodes |-> Cardinality(
                     IF x \in Rules THEN RuleWaits(x) ELSE Reads(program, x))]
    /\ ready' = {x \in Rules : waiting'[x] = 0}
    /\ phase' = "rules"
    /\ UNCHANGED <<program, path, finished, order, walk, error>>

(* Ordering a rule satisfies its readers; a relation is satisfied with the *)
(* last rule its predicate reads, and in turn satisfies its aggregators.   *)
Satisfied(name) ==
    {name} \cup {r \in RelationNodes : name \in Reads(program, r) /\ waiting[r] = 1}

OrderRule ==
    /\ phase = "rules" /\ ready # {}
    /\ LET name == Least(ready)
       IN  /\ order' = Append(order, name)
           /\ waiting' = [x \in DOMAIN waiting |-> waiting[x] -
                            IF x \in Rules THEN Cardinality(RuleWaits(x) \cap Satisfied(name))
                            ELSE Cardinality(Reads(program, x) \cap {name})]
           /\ ready' = (ready \ {name}) \cup
                       {x \in Rules : waiting'[x] = 0 /\ waiting[x] > 0}
    /\ UNCHANGED <<program, phase, path, finished, walk, error>>

RefuseCycle ==
    /\ phase = "rules" /\ ready = {}
    /\ Len(order) # Cardinality(Rules)
    /\ Refuse("cyclic_rules", {x \in Rules : waiting[x] > 0})

-----------------------------------------------------------------------------
(* Third pass: every dependency, relations included. Only atom programs    *)
(* follow the relations that the membership walk passes by.                *)
NeverExtra(x) == {}     \* mutant: `only_related` is never an edge
Extra(x) == IF HasAtoms THEN Aggregated(x) ELSE {}


Waits(x) ==
    Reads(program, x) \cup
    (DerivedRelations \cap
       (Walked(x) \cup Extra(x) \cup IF x \in Rules THEN {} ELSE Sources(program, x)))

StartWalk ==
    /\ phase = "rules" /\ ready = {}
    /\ Len(order) = Cardinality(Rules)
    /\ DerivedRelations # {}
    /\ waiting' = [x \in Readers |-> Cardinality(Waits(x))]
    /\ ready' = {x \in Readers : waiting'[x] = 0}
    /\ phase' = "routed"
    /\ UNCHANGED <<program, path, finished, order, walk, error>>

(* What the passes leave is the order; it becomes the artifact's.          *)
Accept(published) ==
    /\ ready = {}
    /\ phase' = "accepted"
    /\ order' = published
    /\ finished' = {} /\ waiting' = <<>> /\ walk' = <<>>
    /\ UNCHANGED <<program, path, ready, error>>

AcceptWithoutRelations ==
    /\ phase = "rules"
    /\ Len(order) = Cardinality(Rules)
    /\ DerivedRelations = {}
    /\ Accept(order)

AnyReady(x) == x \in ready     \* mutant: relations get no precedence

(* An atom program satisfies every ready relation before it chooses the    *)
(* smallest ready rule. Otherwise nodes go in any order: the code's stacks *)
(* follow the order of declaration, which is any. Only rules are ordered.  *)
Chosen(x) ==
    /\ x \in ready
    /\ HasAtoms => \/ x \in Relations
                   \/ ready \cap Relations = {} /\ x = Least(ready)

Satisfy ==
    /\ phase = "routed"
    /\ \E x \in ready :
           /\ Chosen(x)
           /\ walk' = IF HasAtoms /\ x \in Rules THEN Append(walk, x) ELSE walk
           /\ waiting' = [y \in Readers |-> waiting[y] - IF x \in Waits(y) THEN 1 ELSE 0]
           /\ ready' = (ready \ {x}) \cup {y \in Readers : waiting'[y] = 0 /\ waiting[y] > 0}
    /\ UNCHANGED <<program, phase, path, finished, order, error>>

Blocked == {x \in Readers : waiting[x] > 0}

RefuseRoutedCycle ==
    /\ phase = "routed" /\ ready = {}
    /\ Blocked \cap Rules # {}
    /\ Refuse("cyclic_rules", Blocked \cap Rules)

RefuseUnusedCycle ==
    /\ phase = "routed" /\ ready = {}
    /\ Blocked \cap Rules = {}
    /\ HasAtoms /\ Blocked # {}
    /\ Refuse("cyclic_relations", Blocked)

AcceptWalked ==
    /\ phase = "routed"
    /\ Blocked \cap Rules = {}
    /\ HasAtoms => Blocked = {}
    /\ Accept(IF HasAtoms THEN walk ELSE order)

Next == \/ RefuseUnknownRelation \/ SearchRoot \/ PassFinished \/ CloseCycle \/ Enter \/ Leave
        \/ RefuseUnknownRule \/ StartOrder \/ OrderRule \/ RefuseCycle
        \/ StartWalk \/ AcceptWithoutRelations
        \/ Satisfy \/ RefuseRoutedCycle \/ RefuseUnusedCycle \/ AcceptWalked

-----------------------------------------------------------------------------
(* No set of rules and relations in which each one waits for another of    *)
(* the set: neither a cycle nor anything resting on one.                   *)
Circular(S, edges(_)) == S # {} /\ \A x \in S : edges(x) \cap S # {}

(* Everything an evaluation of the reader can come to read.                *)
Needs(x) ==
    Reads(program, x) \cup
    (DerivedRelations \cap
       (Named(x, ReadKinds) \cup IF x \in Rules THEN {} ELSE Sources(program, x)))

(* The same, but for the reads by `only_related` of programs without atoms,*)
(* which the frozen walk passes by (compile.rs:1919-1921).                 *)
Noticed(x) ==
    Reads(program, x) \cup
    (DerivedRelations \cap
       (Named(x, IF HasAtoms THEN ReadKinds ELSE ReadKinds \ {"only"})
          \cup IF x \in Rules THEN {} ELSE Sources(program, x)))

(* An accepted program has no such cycle, through whatever relations it is *)
(* routed: the evaluators would recurse along it.                          *)
CyclesRefused ==
    phase = "accepted" => \A S \in SUBSET Readers : ~Circular(S, Noticed)

(* A program refused as cyclic has a cycle, and the rules or relations the *)
(* error names hold one of its kind.                                       *)
RefusalNamesCycle ==
    error.kind \in {"cyclic_rules", "cyclic_relations"} =>
        \E S \in SUBSET Readers :
            LET named == S \cap IF error.kind = "cyclic_rules" THEN Rules ELSE Relations
            IN  Circular(S, Needs) /\ named # {} /\ named \subseteq error.names

(* Exactly the programs with a cycle are refused as cyclic, and by name.   *)
CyclesExact == CyclesRefused /\ RefusalNamesCycle

(* The relations a reader comes to read, through relations only.           *)
Through(x) ==
    {r \in DerivedRelations :
        \A T \in SUBSET DerivedRelations :
            (Waits(x) \cap DerivedRelations \subseteq T /\
             \A t \in T : Waits(t) \cap DerivedRelations \subseteq T) => r \in T}

(* The rules a rule waits on in the published order: those it reads, and   *)
(* those the predicates of the relations it aggregates over read.          *)
Precedes(x) ==
    Reads(program, x) \cup
    UNION {Reads(program, r) : r \in Aggregated(x) \cap DerivedRelations}

PrecedesRouted(x) == Reads(program, x) \cup UNION {Reads(program, r) : r \in Through(x)}

(* Each rule of the artifact's order is the smallest name whose waits are  *)
(* listed before it: direct ones and those of predicates, and for programs *)
(* with atoms those reached through any chain of relations, as             *)
(* src/tests/relation_atom_order.rs:1-6 specifies.                         *)
OrderExact ==
    phase = "accepted" =>
        \A i \in 1..Cardinality(Rules) :
            LET listed == {order[j] : j \in 1..(i - 1)}
            IN  order[i] = Least({x \in Rules \ listed :
                    (IF HasAtoms THEN PrecedesRouted(x) ELSE Precedes(x)) \subseteq listed})
=============================================================================
