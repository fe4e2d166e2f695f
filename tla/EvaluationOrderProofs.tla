----------------------- MODULE EvaluationOrderProofs -----------------------
(***************************************************************************)
(* Theorems about EvaluationOrder for every program: CyclesExact and       *)
(* OrderExact hold of every state its passes reach.                        *)
(*                                                                         *)
(* A graph is bare of cycles when no set of its nodes waits only for       *)
(* itself (Bare). Each pass extends a set that is bare and closed: what    *)
(* the search has finished, what is ordered, what the walk has satisfied.  *)
(* The counts are what relates a pass to its graph: a node waits for as    *)
(* many nodes as are not in the set.                                       *)
(***************************************************************************)
EXTENDS EvaluationOrder, SequenceTheorems, FiniteSetTheorems,
        WellFoundedInduction, TLAPS

(* The passes over one program, as Compilation runs them.                  *)
OrderSpec == Start /\ WellFormed(program) /\ [][Next]_vars

-----------------------------------------------------------------------------
(* Graphs are functions from nodes to the sets of nodes they wait for.     *)
Bare(e, F) == \A S \in SUBSET F : ~(S # {} /\ \A x \in S : e[x] \cap S # {})

(* Of a sequence: what comes before the i-th, and no repetition.           *)
Listed(s, i) == {s[j] : j \in 1..(i - 1)}
Distinct(s) == \A i, j \in 1..Len(s) : s[i] = s[j] => i = j

(* Every element is the least one that waits only for what is before it.   *)
LeastFirst(all, e, s) ==
    \A i \in 1..Len(s) :
        s[i] = Least({x \in all \ Listed(s, i) : e[x] \subseteq Listed(s, i)})

(* The graphs of the three passes, and the waits the orders are about.     *)
SearchGraph == [r \in DerivedRelations |-> RelationWaits(r) \cap DerivedRelations]
RuleGraph == [x \in Rules |-> Reads(program, x)]
OrderGraph == [x \in Rules \cup RelationNodes |->
                 IF x \in Rules THEN RuleWaits(x) ELSE Reads(program, x)]
WalkGraph == [x \in Readers |-> Waits(x)]
DirectWaits == [x \in Rules |-> Precedes(x)]
RoutedWaits == [x \in Rules |-> PrecedesRouted(x)]
NeedsGraph == [x \in Readers |-> Needs(x)]

-----------------------------------------------------------------------------
(* The depth-first search: what is finished has no cycle, and the path     *)
(* runs along edges of which those not left lead to finished relations.    *)
SearchState(D, e, done, s) ==
    /\ done \subseteq D /\ Bare(e, done)
    /\ \A r \in done : e[r] \subseteq done
    /\ s \in Seq([node : D, left : SUBSET D])
    /\ \A i, j \in 1..Len(s) : s[i].node = s[j].node => i = j
    /\ \A i \in 1..Len(s) :
           /\ s[i].node \notin done
           /\ s[i].left \subseteq e[s[i].node]
    /\ \A i \in 1..(Len(s) - 1) :
           /\ s[i + 1].node \in e[s[i].node]
           /\ e[s[i].node] \ s[i].left \subseteq done \cup {s[i + 1].node}
    /\ s # <<>> => e[s[Len(s)].node] \ s[Len(s)].left \subseteq done

(* The order so far: a node waits for as many nodes as are not met.        *)
Met(nodes, e, s) == Elements(s) \cup {r \in nodes : e[r] \subseteq Elements(s)}

OrderState(rules, nodes, e, direct, reads, count, now, s) ==
    /\ s \in Seq(rules) /\ Distinct(s)
    /\ count = [x \in rules \cup nodes |->
                  Cardinality(e[x] \ (IF x \in rules THEN Met(nodes, e, s) ELSE Elements(s)))]
    /\ now = {x \in rules \ Elements(s) : count[x] = 0}
    /\ \A x \in Elements(s) : e[x] \subseteq Met(nodes, e, s)
    /\ Bare(reads, Elements(s))
    /\ LeastFirst(rules, direct, s)

(* What ordering the least ready name changes.                             *)
Meets(nodes, e, count, name) == {name} \cup {r \in nodes : name \in e[r] /\ count[r] = 1}

OrderCount(rules, nodes, e, count, name) ==
    [x \in rules \cup nodes |-> count[x] -
        IF x \in rules THEN Cardinality(e[x] \cap Meets(nodes, e, count, name))
        ELSE Cardinality(e[x] \cap {name})]

OrderReady(rules, nodes, e, count, now) ==
    (now \ {Least(now)}) \cup
    {x \in rules : OrderCount(rules, nodes, e, count, Least(now))[x] = 0 /\ count[x] > 0}

(* What the graphs of an order are: a rule reads what it waits for, and    *)
(* waits, directly, for what its relations wait for.                       *)
OrderGraphs(rules, nodes, e, direct, reads) ==
    /\ rules \subseteq Nat /\ rules \cap nodes = {}
    /\ \A x \in rules \cup nodes : IsFiniteSet(e[x])
    /\ \A x \in rules : reads[x] \subseteq e[x]
    /\ \A x \in rules, L \in SUBSET rules :
           direct[x] \subseteq L <=> e[x] \subseteq L \cup {r \in nodes : e[r] \subseteq L}

(* The walk so far: satisfied are the nodes that neither wait nor stand    *)
(* ready.                                                                  *)
Settled(all, count, now) == {x \in all : count[x] = 0 /\ x \notin now}

WalkState(all, e, count, now) ==
    /\ now \subseteq all
    /\ count = [x \in all |-> Cardinality(e[x] \ Settled(all, count, now))]
    /\ \A x \in now : count[x] = 0
    /\ Bare(e, Settled(all, count, now))

WalkCount(all, e, count, x) == [y \in all |-> count[y] - IF x \in e[y] THEN 1 ELSE 0]

WalkReady(all, e, count, now, x) ==
    (now \ {x}) \cup {y \in all : WalkCount(all, e, count, x)[y] = 0 /\ count[y] > 0}

WalkOrder(rules, relations, e, routed, done, s) ==
    /\ s \in Seq(rules) /\ Distinct(s)
    /\ Elements(s) = done \cap rules
    /\ Bare(e, relations) => LeastFirst(rules, routed, s)

(* What the graph of the walk is, next to what a rule waits for through    *)
(* relations: if each relation left waits for something left and they form *)
(* no cycle, a rule waits for what is left through one of them.            *)
WalkGraphs(rules, relations, e, routed) ==
    /\ rules \subseteq Nat /\ rules \cap relations = {}
    /\ \A x \in rules \cup relations : IsFiniteSet(e[x])
    /\ \A x \in rules : routed[x] \subseteq rules
    /\ \A y \in rules, L \in SUBSET (rules \cup relations) :
           /\ (\A r \in L : e[r] \subseteq L) /\ e[y] \subseteq L => routed[y] \subseteq L
           /\ /\ Bare(e, relations) /\ routed[y] \subseteq L
              /\ \A r \in relations \ L : ~(e[r] \subseteq L)
              => e[y] \subseteq L

-----------------------------------------------------------------------------
Ordered(rules, waits, s) ==
    s \in Seq(rules) /\ Distinct(s) /\ Elements(s) = rules /\ LeastFirst(rules, waits, s)

(* A cycle of what the error is about, all of whose names it gives.        *)
NamesCycle(rules, relations, all, needs, err) ==
    err.kind \in {"cyclic_rules", "cyclic_relations"} =>
        \E S \in SUBSET all :
            /\ \A x \in S : needs[x] \cap S # {}
            /\ S \cap (IF err.kind = "cyclic_rules" THEN rules ELSE relations) # {}
            /\ S \cap (IF err.kind = "cyclic_rules" THEN rules ELSE relations) \subseteq err.names

Verdict ==
    /\ phase = "accepted" =>
           /\ Bare(WalkGraph, Readers)
           /\ Ordered(Rules, IF HasAtoms THEN RoutedWaits ELSE DirectWaits, order)
    /\ phase # "refused" => error = NoError
    /\ NamesCycle(Rules, Relations, Readers, NeedsGraph, error)

Inductive ==
    /\ WellFormed(program) /\ phase \in Phases
    /\ phase = "relations" =>
           /\ SearchState(DerivedRelations, SearchGraph, finished, path)
           /\ order = <<>> /\ walk = <<>>
    /\ phase \in {"rules", "routed"} =>
           /\ UnknownRules = {}
           /\ Bare(SearchGraph, DerivedRelations)
    /\ phase = "rules" =>
           /\ OrderState(Rules, RelationNodes, OrderGraph, DirectWaits, RuleGraph,
                         waiting, ready, order)
           /\ walk = <<>>
    /\ phase = "routed" =>
           /\ Ordered(Rules, DirectWaits, order)
           /\ WalkState(Readers, WalkGraph, waiting, ready)
           /\ HasAtoms => WalkOrder(Rules, DerivedRelations, WalkGraph, RoutedWaits,
                                    Settled(Readers, waiting, ready), walk)
    /\ Verdict

-----------------------------------------------------------------------------
(* A nonempty set of naturals has a least element.                         *)
LEMMA LeastFacts ==
    ASSUME NEW S \in SUBSET Nat, S # {}
    PROVE  Least(S) \in S /\ \A y \in S : Least(S) <= y
<1> DEFINE R == OpToRel(<, Nat)
<1>1. IsWellFoundedOn(R, Nat)
  BY NatLessThanWellFounded
<1>2. \A x, y \in Nat : x < y => <<x, y>> \in R
  BY DEF OpToRel
<1> HIDE DEF R
<1>3. PICK m \in S : \A k \in S : <<k, m>> \notin R
  BY <1>1, WFMin
<1>4. \A k \in S : m <= k
  <2> TAKE k \in S
  <2>1. k \in Nat /\ m \in Nat /\ ~(k < m)
    BY <1>2, <1>3
  <2> QED BY <2>1
<1> QED BY <1>4 DEF Least

(* A node that neither waits for itself nor is waited for adds no cycle.   *)
LEMMA Grown ==
    ASSUME NEW e, NEW F, NEW x, Bare(e, F), x \notin e[x], \A y \in F : x \notin e[y]
    PROVE  Bare(e, F \cup {x})
<1> SUFFICES ASSUME NEW S \in SUBSET (F \cup {x}), S # {}, \A y \in S : e[y] \cap S # {}
             PROVE  FALSE
  BY DEF Bare
<1>1. \A y \in S \ {x} : e[y] \cap (S \ {x}) # {}
  OBVIOUS
<1>2. S \ {x} \in SUBSET F
  OBVIOUS
<1>3. S \ {x} = {}
  BY <1>1, <1>2 DEF Bare
<1>4. S = {x}
  BY <1>3
<1> QED BY <1>4

LEMMA BareSubset ==
    ASSUME NEW e, NEW F, Bare(e, F), NEW G \in SUBSET F
    PROVE  Bare(e, G)
BY DEF Bare

(* How many of a set are left when more of them are met.                   *)
LEMMA FewerLeft ==
    ASSUME NEW A, IsFiniteSet(A), NEW M, NEW N, \A z \in N : z \notin M
    PROVE  /\ Cardinality(A \ M) \in Nat /\ Cardinality(A \cap N) \in Nat
           /\ Cardinality(A \ (M \cup N)) = Cardinality(A \ M) - Cardinality(A \cap N)
           /\ Cardinality(A \ (M \cup N)) \in Nat
           /\ Cardinality(A \ (M \cup N)) <= Cardinality(A \ M)
           /\ Cardinality(A \ M) = 0 <=> A \subseteq M
<1>1. /\ IsFiniteSet(A \ M) /\ IsFiniteSet(A \cap N) /\ IsFiniteSet(A \ (M \cup N))
  BY FS_Difference, FS_Intersection
<1>2. /\ Cardinality(A \ M) \in Nat /\ Cardinality(A \cap N) \in Nat
      /\ Cardinality(A \ (M \cup N)) \in Nat
  BY <1>1, FS_CardinalityType
<1>3. Cardinality((A \ M) \ N) = Cardinality(A \ M) - Cardinality((A \ M) \cap N)
  BY <1>1, FS_Difference
<1>4. (A \ M) \ N = A \ (M \cup N) /\ (A \ M) \cap N = A \cap N
  OBVIOUS
<1>5. Cardinality(A \ M) = 0 <=> A \ M = {}
  BY <1>1, FS_EmptySet
<1>6. A \ M = {} <=> A \subseteq M
  OBVIOUS
<1>7. Cardinality(A \ (M \cup N)) = Cardinality(A \ M) - Cardinality(A \cap N)
  BY <1>3, <1>4
<1>8. Cardinality(A \ (M \cup N)) <= Cardinality(A \ M)
  BY <1>2, <1>7
<1>9. Cardinality(A \ M) = 0 <=> A \subseteq M
  BY <1>5, <1>6
<1> QED BY <1>2, <1>7, <1>8, <1>9

-----------------------------------------------------------------------------
LEMMA ProgramFacts ==
    ASSUME WellFormed(program)
    PROVE  /\ Rules \subseteq Nat /\ DerivedRelations \subseteq Nat /\ Readers \subseteq Nat
           /\ Rules \cap DerivedRelations = {} /\ DerivedRelations \subseteq Relations
           /\ RelationNodes \subseteq DerivedRelations
           /\ Rules \cap Relations = {}
           /\ IsFiniteSet(Rules) /\ IsFiniteSet(DerivedRelations) /\ IsFiniteSet(RelationNodes)
           /\ \A x \in Readers : IsFiniteSet(Reads(program, x)) /\ Reads(program, x) \subseteq Nat
<1>1. /\ IsFiniteSet(Rules) /\ IsFiniteSet(Relations)
      /\ DerivedRelations \subseteq Relations /\ RelationNodes \subseteq DerivedRelations
      /\ Rules \subseteq Nat /\ Relations \subseteq Nat /\ Rules \cap Relations = {}
  BY DEF WellFormed, DerivedRelations, RelationNodes
<1>2. IsFiniteSet(DerivedRelations) /\ IsFiniteSet(RelationNodes)
  BY <1>1, FS_Subset
<1>3. \A x \in Readers : x \in Rules \cup Relations
  BY <1>1 DEF Readers
<1>4. \A x \in Readers : IsFiniteSet(Reads(program, x)) /\ Reads(program, x) \subseteq Nat
  BY <1>3 DEF WellFormed
<1> QED BY <1>1, <1>2, <1>4 DEF Readers

(* Nothing but the program enters the graphs, and no action changes it.    *)
LEMMA Kept ==
    ASSUME UNCHANGED program
    PROVE  /\ DerivedRelations' = DerivedRelations /\ Readers' = Readers
           /\ RelationNodes' = RelationNodes /\ HasAtoms' = HasAtoms
           /\ SearchGraph' = SearchGraph /\ RuleGraph' = RuleGraph
           /\ OrderGraph' = OrderGraph /\ WalkGraph' = WalkGraph
           /\ DirectWaits' = DirectWaits /\ RoutedWaits' = RoutedWaits
           /\ NeedsGraph' = NeedsGraph /\ UnknownRules' = UnknownRules
           /\ WellFormed(program)' = WellFormed(program)
<1>1. DerivedRelations' = DerivedRelations
  BY DEF DerivedRelations
<1>2. Readers' = Readers
  BY <1>1 DEF Readers
<1>3. RelationNodes' = RelationNodes
  BY <1>1 DEF RelationNodes
<1>4. \A x, kinds : Named(x, kinds)' = Named(x, kinds)
  BY DEF Named
<1>5. HasAtoms' = HasAtoms
  BY <1>1, <1>2 DEF HasAtoms, Named
<1>6. SearchGraph' = SearchGraph
  BY <1>1 DEF SearchGraph, RelationWaits, Walked, Named
<1>7. RuleGraph' = RuleGraph
  BY DEF RuleGraph
<1>8. OrderGraph' = OrderGraph
  BY <1>3 DEF OrderGraph, RuleWaits, Aggregated, Named
<1>9. \A x : Waits(x)' = Waits(x)
  BY <1>1, <1>5 DEF Waits, Walked, Extra, Aggregated, Named
<1>10. WalkGraph' = WalkGraph
  BY <1>2, <1>9 DEF WalkGraph
<1>11. DirectWaits' = DirectWaits
  BY <1>1 DEF DirectWaits, Precedes, Aggregated, Named
<1>12. RoutedWaits' = RoutedWaits
  BY <1>1, <1>9 DEF RoutedWaits, PrecedesRouted, Through
<1>13. UnknownRules' = UnknownRules
  BY <1>2 DEF UnknownRules
<1>14. WellFormed(program)' = WellFormed(program)
  BY DEF WellFormed
<1>15. NeedsGraph' = NeedsGraph
  BY <1>1, <1>2 DEF NeedsGraph, Needs, Named
<1> QED BY <1>1, <1>2, <1>3, <1>5, <1>6, <1>7, <1>8, <1>10, <1>11, <1>12, <1>13, <1>14, <1>15
-----------------------------------------------------------------------------
Nodes(D) == [node : D, left : SUBSET D]

(* The path after its top has followed the edge to y.                      *)
Follow(s, y) == [s EXCEPT ![Len(s)].left = @ \ {y}]

(* What a path is made of.                                                 *)
LEMMA PathFacts ==
    ASSUME NEW D, NEW e, NEW done, NEW s, SearchState(D, e, done, s)
    PROVE  /\ s \in Seq(Nodes(D)) /\ Len(s) \in Nat
           /\ \A i \in 1..Len(s) :
                  s[i] \in Nodes(D) /\ s[i].node \in D /\ s[i].left \subseteq D
           /\ s # <<>> => Len(s) > 0 /\ Len(s) \in 1..Len(s)
<1>1. s \in Seq(Nodes(D)) /\ Len(s) \in Nat
  BY LenProperties DEF SearchState, Nodes
<1>2. \A i \in 1..Len(s) : s[i] \in Nodes(D)
  BY <1>1, ElementOfSeq
<1>3. s # <<>> => Len(s) > 0 /\ Len(s) \in 1..Len(s)
  BY <1>1, EmptySeq
<1> QED BY <1>1, <1>2, <1>3 DEF Nodes

(* The top has followed one more edge.                                     *)
LEMMA FollowedFacts ==
    ASSUME NEW D, NEW s \in Seq(Nodes(D)), s # <<>>, NEW y
    PROVE  /\ Follow(s, y) \in Seq(Nodes(D)) /\ Len(Follow(s, y)) = Len(s)
           /\ \A i \in 1..Len(s) : Follow(s, y)[i].node = s[i].node
           /\ \A i \in 1..(Len(s) - 1) : Follow(s, y)[i].left = s[i].left
           /\ Follow(s, y)[Len(s)].left = s[Len(s)].left \ {y}
<1> DEFINE t == Follow(s, y)
<1>0. PICK n, top : n = Len(s) /\ top = [s[n] EXCEPT !.left = @ \ {y}]
  OBVIOUS
<1>1. n \in Nat \ {0} /\ n \in 1..n
  BY <1>0, EmptySeq, LenProperties
<1>2. s[n] \in Nodes(D)
  BY <1>0, <1>1, ElementOfSeq
<1>3. top \in Nodes(D) /\ top.node = s[n].node /\ top.left = s[n].left \ {y}
  BY <1>0, <1>2 DEF Nodes
<1>4. t = [s EXCEPT ![n] = top]
  BY <1>0 DEF Follow
<1> HIDE DEF t
<1>5. /\ t \in Seq(Nodes(D)) /\ Len(t) = n
      /\ \A i \in 1..n : t[i] = IF i = n THEN top ELSE s[i]
  <2>1. n \in 1..Len(s)
    BY <1>0, <1>1
  <2>2. /\ [s EXCEPT ![n] = top] \in Seq(Nodes(D)) /\ Len([s EXCEPT ![n] = top]) = Len(s)
        /\ \A i \in 1..Len(s) : [s EXCEPT ![n] = top][i] = IF i = n THEN top ELSE s[i]
    BY <1>3, <2>1, ExceptSeq
  <2> QED BY <1>0, <1>4, <2>2
<1>6. t[n] = top /\ \A i \in 1..(n - 1) : t[i] = s[i]
  BY <1>1, <1>5
<1>7. \A i \in 1..n : t[i].node = s[i].node
  BY <1>3, <1>5
<1> QED BY <1>0, <1>3, <1>5, <1>6, <1>7 DEF t

(* The search passes a relation it has finished.                           *)
LEMMA PassState ==
    ASSUME NEW D, NEW e, NEW done, NEW s, SearchState(D, e, done, s), s # <<>>,
           NEW y \in done
    PROVE  SearchState(D, e, done, Follow(s, y))
<1> DEFINE n == Len(s)
           t == Follow(s, y)
<1>1. /\ s \in Seq(Nodes(D)) /\ n \in Nat /\ n > 0 /\ n \in 1..n
  BY PathFacts
<1>2. /\ t \in Seq(Nodes(D)) /\ Len(t) = n
      /\ \A i \in 1..n : t[i].node = s[i].node
      /\ \A i \in 1..(n - 1) : t[i].left = s[i].left
      /\ t[n].left = s[n].left \ {y}
  BY <1>1, FollowedFacts
<1>3. /\ done \subseteq D /\ Bare(e, done) /\ \A r \in done : e[r] \subseteq done
      /\ \A i, j \in 1..n : s[i].node = s[j].node => i = j
      /\ \A i \in 1..n : s[i].node \notin done /\ s[i].left \subseteq e[s[i].node]
      /\ \A i \in 1..(n - 1) : /\ s[i + 1].node \in e[s[i].node]
                               /\ e[s[i].node] \ s[i].left \subseteq done \cup {s[i + 1].node}
      /\ e[s[n].node] \ s[n].left \subseteq done
  BY DEF SearchState
<1> HIDE DEF n, t
<1>4. \A i, j \in 1..n : t[i].node = t[j].node => i = j
  BY <1>2, <1>3
<1>5. ASSUME NEW i \in 1..n PROVE t[i].node \notin done /\ t[i].left \subseteq e[t[i].node]
  <2>1. i = n \/ i \in 1..(n - 1)
    BY <1>1
  <2> QED BY <1>2, <1>3, <2>1
<1>6. ASSUME NEW i \in 1..(n - 1)
      PROVE  /\ t[i + 1].node \in e[t[i].node]
             /\ e[t[i].node] \ t[i].left \subseteq done \cup {t[i + 1].node}
  <2>1. i \in 1..n /\ i + 1 \in 1..n
    BY <1>1
  <2> QED BY <1>2, <1>3, <2>1
<1>7. e[t[n].node] \ t[n].left \subseteq done
  BY <1>1, <1>2, <1>3
<1> QED BY <1>2, <1>3, <1>4, <1>5, <1>6, <1>7 DEF SearchState, Nodes, t, n

(* It enters a relation that is neither finished nor on the path.          *)
LEMMA EnterState ==
    ASSUME NEW D, NEW e \in [D -> SUBSET D], NEW done, NEW s, SearchState(D, e, done, s), s # <<>>,
           NEW y \in s[Len(s)].left, y \notin done, \A i \in 1..Len(s) : s[i].node # y
    PROVE  SearchState(D, e, done, Append(Follow(s, y), [node |-> y, left |-> e[y]]))
<1> DEFINE n == Len(s)
           t == Follow(s, y)
           u == Append(t, [node |-> y, left |-> e[y]])
<1>1. /\ s \in Seq(Nodes(D)) /\ n \in Nat /\ n > 0 /\ n \in 1..n /\ y \in D
      /\ \A i \in 1..n : s[i].node \in D
  BY PathFacts
<1>2. /\ t \in Seq(Nodes(D)) /\ Len(t) = n
      /\ \A i \in 1..n : t[i].node = s[i].node
      /\ \A i \in 1..(n - 1) : t[i].left = s[i].left
      /\ t[n].left = s[n].left \ {y}
  BY <1>1, FollowedFacts
<1>3. /\ done \subseteq D /\ Bare(e, done) /\ \A r \in done : e[r] \subseteq done
      /\ \A i, j \in 1..n : s[i].node = s[j].node => i = j
      /\ \A i \in 1..n : s[i].node \notin done /\ s[i].left \subseteq e[s[i].node]
      /\ \A i \in 1..(n - 1) : /\ s[i + 1].node \in e[s[i].node]
                               /\ e[s[i].node] \ s[i].left \subseteq done \cup {s[i + 1].node}
      /\ e[s[n].node] \ s[n].left \subseteq done
  BY DEF SearchState
<1>4. [node |-> y, left |-> e[y]] \in Nodes(D)
  BY <1>1 DEF Nodes
<1>5. /\ u \in Seq(Nodes(D)) /\ Len(u) = n + 1
      /\ u[n + 1] = [node |-> y, left |-> e[y]]
      /\ \A i \in 1..n : u[i] = t[i]
  <2> HIDE DEF t
  <2>1. Len(t) = n /\ t \in Seq(Nodes(D))
    BY <1>2
  <2> HIDE DEF n
  <2> QED BY <1>4, <2>1, AppendProperties
<1> HIDE DEF n, t, u
<1>6. \A i \in 1..(n + 1) : i \in 1..n \/ i = n + 1
  BY <1>1
<1>7. /\ \A i \in 1..n : u[i].node = s[i].node
      /\ \A i \in 1..(n - 1) : u[i].left = s[i].left
      /\ u[n].left = s[n].left \ {y}
      /\ u[n + 1].node = y /\ u[n + 1].left = e[y]
  <2>1. \A i \in 1..(n - 1) : i \in 1..n
    BY <1>1
  <2> QED BY <1>1, <1>2, <1>5, <2>1
<1>8. ASSUME NEW i \in 1..(n + 1), NEW j \in 1..(n + 1), u[i].node = u[j].node
      PROVE  i = j
  BY <1>3, <1>6, <1>7, <1>8 DEF n
<1>9. ASSUME NEW i \in 1..(n + 1) PROVE u[i].node \notin done /\ u[i].left \subseteq e[u[i].node]
  <2>1. i = n + 1 \/ i = n \/ i \in 1..(n - 1)
    BY <1>1
  <2>2. i = n + 1 \/ i \in 1..n
    BY <1>1
  <2> QED BY <1>3, <1>7, <2>1, <2>2
<1>10. ASSUME NEW i \in 1..n
       PROVE  /\ u[i + 1].node \in e[u[i].node]
              /\ e[u[i].node] \ u[i].left \subseteq done \cup {u[i + 1].node}
  <2>1. CASE i = n
    BY <1>1, <1>3, <1>7, <2>1 DEF n
  <2>2. CASE i # n
    <3>1. i \in 1..(n - 1) /\ i + 1 \in 1..n
      BY <1>1, <2>2
    <3> QED BY <1>3, <1>7, <3>1
  <2> QED BY <2>1, <2>2
<1>11. e[u[n + 1].node] \ u[n + 1].left \subseteq done
  BY <1>7
<1>12. (n + 1) - 1 = n
  BY <1>1
<1>13. SearchState(D, e, done, u)
  BY <1>3, <1>5, <1>8, <1>9, <1>10, <1>11, <1>12 DEF SearchState, Nodes
<1> QED BY <1>13 DEF t, u

(* It starts from a relation not finished.                                 *)
LEMMA RootState ==
    ASSUME NEW D, NEW e \in [D -> SUBSET D], NEW done, SearchState(D, e, done, <<>>),
           NEW y \in D, y \notin done
    PROVE  SearchState(D, e, done, Append(<<>>, [node |-> y, left |-> e[y]]))
<1> DEFINE u == <<[node |-> y, left |-> e[y]]>>
<1>1. /\ u \in Seq(Nodes(D)) /\ Len(u) = 1 /\ u[1].node = y /\ u[1].left = e[y]
  BY DEF Nodes
<1>2. 1..1 = {1} /\ 1..(1 - 1) = {}
  OBVIOUS
<1>3. Append(<<>>, [node |-> y, left |-> e[y]]) = u
  OBVIOUS
<1> HIDE DEF u
<1>4. done \subseteq D /\ Bare(e, done) /\ \A r \in done : e[r] \subseteq done
  BY DEF SearchState
<1>5. SearchState(D, e, done, u)
  BY <1>1, <1>2, <1>4 DEF SearchState, Nodes
<1> QED BY <1>3, <1>5

(* It leaves a relation all of whose edges lead to finished ones.          *)
LEMMA LeaveState ==
    ASSUME NEW D, NEW e \in [D -> SUBSET D], NEW done, NEW s, SearchState(D, e, done, s), s # <<>>,
           s[Len(s)].left = {}
    PROVE  SearchState(D, e, done \cup {s[Len(s)].node}, SubSeq(s, 1, Len(s) - 1))
<1> DEFINE n == Len(s)
           u == SubSeq(s, 1, n - 1)
           more == done \cup {s[n].node}
<1>1. /\ s \in Seq(Nodes(D)) /\ n \in Nat /\ n > 0 /\ n \in 1..n
      /\ \A i \in 1..n : s[i] \in Nodes(D) /\ s[i].node \in D
  BY PathFacts
<1>2. /\ done \subseteq D /\ Bare(e, done) /\ \A r \in done : e[r] \subseteq done
      /\ \A i, j \in 1..n : s[i].node = s[j].node => i = j
      /\ \A i \in 1..n : s[i].node \notin done /\ s[i].left \subseteq e[s[i].node]
      /\ \A i \in 1..(n - 1) : /\ s[i + 1].node \in e[s[i].node]
                               /\ e[s[i].node] \ s[i].left \subseteq done \cup {s[i + 1].node}
      /\ e[s[n].node] \ s[n].left \subseteq done
  BY DEF SearchState
<1>3. /\ u \in Seq(Nodes(D)) /\ Len(u) = n - 1
      /\ \A i \in 1..(n - 1) : u[i] = s[i]
  <2>1. /\ SubSeq(s, 1, n - 1) \in Seq(Nodes(D))
        /\ Len(SubSeq(s, 1, n - 1)) = IF 1 <= n - 1 THEN (n - 1) - 1 + 1 ELSE 0
        /\ \A i \in 1..((n - 1) - 1 + 1) : SubSeq(s, 1, n - 1)[i] = s[1 + i - 1]
    <3>1. \A i \in 1..(n - 1) : s[i] \in Nodes(D)
      BY <1>1
    <3>2. 1 \in Int /\ n - 1 \in Int
      BY <1>1
    <3> HIDE DEF n
    <3> QED BY <1>1, <3>1, <3>2, SubSeqProperties
  <2> HIDE DEF n
  <2>2. /\ (n - 1) - 1 + 1 = n - 1 /\ (~(1 <= n - 1) => n - 1 = 0)
        /\ \A i \in 1..(n - 1) : 1 + i - 1 = i
    BY <1>1
  <2> QED BY <2>1, <2>2
<1> HIDE DEF u, n
<1>4. more \subseteq D /\ e[s[n].node] \subseteq done
  BY <1>1, <1>2 DEF n
<1>5. Bare(e, more)
  BY <1>1, <1>2, <1>4, Grown
<1>6. \A r \in more : e[r] \subseteq more
  BY <1>2, <1>4
<1>7. \A i \in 1..(n - 1) : i \in 1..n /\ i # n
  BY <1>1
<1>8. \A i, j \in 1..(n - 1) : u[i].node = u[j].node => i = j
  BY <1>2, <1>3, <1>7
<1>9. \A i \in 1..(n - 1) : u[i].node \notin more /\ u[i].left \subseteq e[u[i].node]
  BY <1>1, <1>2, <1>3, <1>7
<1>10. ASSUME NEW i \in 1..((n - 1) - 1)
       PROVE  /\ u[i + 1].node \in e[u[i].node]
              /\ e[u[i].node] \ u[i].left \subseteq more \cup {u[i + 1].node}
  <2>1. i \in 1..(n - 1) /\ i + 1 \in 1..(n - 1)
    BY <1>1
  <2> QED BY <1>2, <1>3, <2>1
<1>11. ASSUME u # <<>> PROVE e[u[n - 1].node] \ u[n - 1].left \subseteq more
  <2>1. n - 1 \in 1..(n - 1) /\ (n - 1) + 1 = n
    BY <1>1, <1>3, <1>11, EmptySeq
  <2> QED BY <1>2, <1>3, <2>1
<1>12. SearchState(D, e, more, u)
  BY <1>3, <1>4, <1>5, <1>6, <1>8, <1>9, <1>10, <1>11 DEF SearchState, Nodes
<1> QED BY <1>12 DEF u, n

-----------------------------------------------------------------------------
LEMMA AppendFacts ==
    ASSUME NEW all, NEW s \in Seq(all), NEW x \in all
    PROVE  /\ Append(s, x) \in Seq(all)
           /\ Len(s) \in Nat /\ Len(Append(s, x)) = Len(s) + 1
           /\ Elements(s) \subseteq all
           /\ Elements(Append(s, x)) = Elements(s) \cup {x}
           /\ \A i \in 1..Len(s) : Append(s, x)[i] = s[i] /\ s[i] \in Elements(s)
           /\ Append(s, x)[Len(s) + 1] = x
<1>1. /\ Append(s, x) \in Seq(all) /\ Len(Append(s, x)) = Len(s) + 1 /\ Len(s) \in Nat
      /\ \A i \in 1..Len(s) : Append(s, x)[i] = s[i] /\ s[i] \in all
      /\ Append(s, x)[Len(s) + 1] = x
  BY AppendProperties, LenProperties, ElementOfSeq
<1> DEFINE t == Append(s, x)
<1> HIDE DEF t
<1>2. Elements(t) = Elements(s) \cup {x}
  <2>1. \A i \in 1..Len(t) : i \in 1..Len(s) \/ i = Len(s) + 1
    BY <1>1 DEF t
  <2>2. \A i \in 1..Len(s) : i \in 1..Len(t)
    BY <1>1 DEF t
  <2>3. Len(s) + 1 \in 1..Len(t)
    BY <1>1 DEF t
  <2>4. ASSUME NEW y \in Elements(t) PROVE y \in Elements(s) \cup {x}
    <3>1. PICK i \in 1..Len(t) : t[i] = y
      BY DEF Elements
    <3> QED BY <1>1, <2>1, <3>1 DEF Elements, t
  <2>5. ASSUME NEW y \in Elements(s) PROVE y \in Elements(t)
    <3>1. PICK i \in 1..Len(s) : s[i] = y
      BY DEF Elements
    <3> QED BY <1>1, <2>2, <3>1 DEF Elements, t
  <2>6. x \in Elements(t)
    BY <1>1, <2>3 DEF Elements, t
  <2> QED BY <2>4, <2>5, <2>6
<1> QED BY <1>1, <1>2 DEF Elements, t

LEMMA AppendDistinct ==
    ASSUME NEW all, NEW s \in Seq(all), NEW x \in all, Distinct(s), x \notin Elements(s)
    PROVE  Distinct(Append(s, x))
<1>1. /\ Len(s) \in Nat /\ Len(Append(s, x)) = Len(s) + 1
      /\ \A i \in 1..Len(s) : Append(s, x)[i] = s[i] /\ s[i] \in Elements(s)
      /\ Append(s, x)[Len(s) + 1] = x
  BY AppendFacts
<1> DEFINE t == Append(s, x)
<1> HIDE DEF t
<1>2. \A i \in 1..Len(t) : i \in 1..Len(s) \/ i = Len(s) + 1
  BY <1>1 DEF t
<1>3. ASSUME NEW i \in 1..Len(t), NEW j \in 1..Len(t), t[i] = t[j]
      PROVE  i = j
  BY <1>1, <1>2, <1>3 DEF Distinct, t
<1> QED BY <1>3 DEF Distinct, t

(* The element added is the least that waits only for the others.          *)
LEMMA LeastFirstAppend ==
    ASSUME NEW all, NEW e, NEW s \in Seq(all), LeastFirst(all, e, s), NEW x \in all,
           x = Least({y \in all \ Elements(s) : e[y] \subseteq Elements(s)})
    PROVE  LeastFirst(all, e, Append(s, x))
<1> DEFINE t == Append(s, x)
<1>1. /\ Len(s) \in Nat /\ Len(t) = Len(s) + 1
      /\ \A i \in 1..Len(s) : t[i] = s[i]
      /\ t[Len(s) + 1] = x
  BY AppendFacts
<1> HIDE DEF t
<1>2. ASSUME NEW i \in 1..(Len(s) + 1) PROVE Listed(t, i) = Listed(s, i)
  <2>1. \A j \in 1..(i - 1) : j \in 1..Len(s)
    BY <1>1
  <2> QED BY <1>1, <2>1 DEF Listed
<1>3. Listed(s, Len(s) + 1) = Elements(s)
  <2>1. (Len(s) + 1) - 1 = Len(s)
    BY <1>1
  <2> QED BY <2>1 DEF Listed, Elements
<1>4. ASSUME NEW i \in 1..Len(t)
      PROVE  t[i] = Least({y \in all \ Listed(t, i) : e[y] \subseteq Listed(t, i)})
  <2>1. CASE i = Len(s) + 1
    <3>1. Listed(t, i) = Elements(s)
      BY <1>1, <1>2, <1>3, <2>1
    <3> QED BY <1>1, <2>1, <3>1
  <2>2. CASE i # Len(s) + 1
    <3>1. i \in 1..Len(s) /\ i \in 1..(Len(s) + 1)
      BY <1>1, <2>2
    <3> QED BY <1>1, <1>2, <3>1 DEF LeastFirst
  <2> QED BY <2>1, <2>2
<1> QED BY <1>4 DEF LeastFirst, t

-----------------------------------------------------------------------------
(* A rule is ordered: its readers, and the relations whose predicates now  *)
(* have all they read, wait for less.                                      *)
LEMMA OrderStep ==
    ASSUME NEW rules, NEW nodes, NEW e, NEW direct, NEW reads, NEW count, NEW now, NEW s,
           OrderGraphs(rules, nodes, e, direct, reads),
           OrderState(rules, nodes, e, direct, reads, count, now, s),
           now # {}
    PROVE  OrderState(rules, nodes, e, direct, reads,
                      OrderCount(rules, nodes, e, count, Least(now)),
                      OrderReady(rules, nodes, e, count, now),
                      Append(s, Least(now)))
<1>0. PICK name, t, met, fewer, next, M :
          /\ name = Least(now) /\ t = Append(s, name) /\ M = Met(nodes, e, s)
          /\ met = Meets(nodes, e, count, name)
          /\ fewer = OrderCount(rules, nodes, e, count, name)
          /\ next = OrderReady(rules, nodes, e, count, now)
  OBVIOUS
<1>a. /\ rules \subseteq Nat /\ rules \cap nodes = {}
      /\ \A x \in rules \cup nodes : IsFiniteSet(e[x])
      /\ \A x \in rules : reads[x] \subseteq e[x]
  BY DEF OrderGraphs
<1>b. met = {name} \cup {r \in nodes : name \in e[r] /\ count[r] = 1}
  BY <1>0 DEF Meets
<1>c. /\ fewer = [x \in rules \cup nodes |-> fewer[x]]
      /\ \A x \in rules : fewer[x] = count[x] - Cardinality(e[x] \cap met)
      /\ \A x \in nodes : x \notin rules => fewer[x] = count[x] - Cardinality(e[x] \cap {name})
  BY <1>0 DEF OrderCount
<1>d. next = (now \ {name}) \cup {x \in rules : fewer[x] = 0 /\ count[x] > 0}
  BY <1>0 DEF OrderReady
<1>1. /\ s \in Seq(rules) /\ Distinct(s)
      /\ \A x \in rules : count[x] = Cardinality(e[x] \ M)
      /\ now = {x \in rules \ Elements(s) : count[x] = 0}
      /\ \A x \in Elements(s) : e[x] \subseteq M
      /\ Bare(reads, Elements(s)) /\ LeastFirst(rules, direct, s)
  BY <1>0 DEF OrderState
<1>n. \A x \in nodes : count[x] = Cardinality(e[x] \ Elements(s)) /\ x \notin rules
  BY <1>a DEF OrderState
<1>2. name \in now
  <2>1. now \in SUBSET Nat
    BY <1>a, <1>1
  <2> QED BY <1>0, <2>1, LeastFacts
<1>3. name \in rules /\ name \notin Elements(s) /\ count[name] = 0 /\ name \notin nodes
  BY <1>a, <1>1, <1>2
<1>4. /\ t \in Seq(rules) /\ Elements(s) \subseteq rules /\ Elements(t) = Elements(s) \cup {name}
  <2>1. /\ Append(s, name) \in Seq(rules) /\ Elements(s) \subseteq rules
        /\ Elements(Append(s, name)) = Elements(s) \cup {name}
    BY <1>1, <1>3, AppendFacts
  <2> QED BY <1>0, <2>1
<1>5. Distinct(t)
  BY <1>0, <1>1, <1>3, AppendDistinct
<1>6. ASSUME NEW r \in nodes
      PROVE  (name \in e[r] /\ count[r] = 1) <=>
                 (e[r] \subseteq Elements(s) \cup {name} /\ ~(e[r] \subseteq Elements(s)))
  <2>1. PICK A : A = e[r] \ Elements(s)
    OBVIOUS
  <2>2. IsFiniteSet(A)
    BY <1>a, <2>1, FS_Difference
  <2>3. count[r] = Cardinality(A)
    BY <1>n, <2>1
  <2>4. count[r] = 1 <=> \E z : A = {z}
    BY <2>2, <2>3, FS_Singleton
  <2>5. ASSUME name \in e[r], count[r] = 1
        PROVE  e[r] \subseteq Elements(s) \cup {name} /\ ~(e[r] \subseteq Elements(s))
    BY <1>3, <2>1, <2>4, <2>5
  <2>6. ASSUME e[r] \subseteq Elements(s) \cup {name}, ~(e[r] \subseteq Elements(s))
        PROVE  name \in e[r] /\ count[r] = 1
    <3>1. name \in e[r] /\ A = {name}
      BY <1>3, <2>1, <2>6
    <3> QED BY <2>4, <3>1
  <2> QED BY <2>5, <2>6
<1>7. Met(nodes, e, t) = M \cup met
  BY <1>0, <1>b, <1>4, <1>6 DEF Met
<1>8. \A z \in met : z \notin M
  <2>1. M = Elements(s) \cup {r \in nodes : e[r] \subseteq Elements(s)}
    BY <1>0 DEF Met
  <2>2. name \notin M
    BY <1>3, <2>1
  <2>3. ASSUME NEW r \in nodes, name \in e[r], count[r] = 1 PROVE r \notin M
    <3>1. r \notin Elements(s)
      BY <1>n, <1>4
    <3> QED BY <1>6, <2>1, <2>3, <3>1
  <2> QED BY <1>b, <2>2, <2>3
<1>9. ASSUME NEW x \in rules
      PROVE  /\ count[x] \in Nat /\ fewer[x] \in Nat /\ fewer[x] <= count[x]
             /\ fewer[x] = Cardinality(e[x] \ Met(nodes, e, t))
             /\ (count[x] = 0) <=> (e[x] \subseteq M)
  <2>1. PICK A : A = e[x]
    OBVIOUS
  <2>2. IsFiniteSet(A)
    BY <1>a, <2>1
  <2>3. /\ Cardinality(A \ M) \in Nat
        /\ Cardinality(A \ (M \cup met)) = Cardinality(A \ M) - Cardinality(A \cap met)
        /\ Cardinality(A \ (M \cup met)) \in Nat
        /\ Cardinality(A \ (M \cup met)) <= Cardinality(A \ M)
        /\ (Cardinality(A \ M) = 0) <=> (A \subseteq M)
    BY <1>8, <2>2, FewerLeft
  <2>4. count[x] = Cardinality(A \ M) /\ fewer[x] = count[x] - Cardinality(A \cap met)
    BY <1>1, <1>c, <2>1
  <2> QED BY <1>7, <2>1, <2>3, <2>4
<1>10. ASSUME NEW x \in nodes
       PROVE  fewer[x] = Cardinality(e[x] \ Elements(t))
  <2>1. PICK A, N, E : A = e[x] /\ N = {name} /\ E = Elements(s)
    OBVIOUS
  <2>2. IsFiniteSet(A) /\ \A z \in N : z \notin E
    BY <1>a, <1>3, <2>1
  <2>3. Cardinality(A \ (E \cup N)) = Cardinality(A \ E) - Cardinality(A \cap N)
    BY <2>2, FewerLeft
  <2>4. fewer[x] = count[x] - Cardinality(A \cap N) /\ count[x] = Cardinality(A \ E)
    BY <1>c, <1>n, <2>1
  <2> QED BY <1>4, <2>1, <2>3, <2>4
<1>11. fewer = [x \in rules \cup nodes |->
                  Cardinality(e[x] \ (IF x \in rules THEN Met(nodes, e, t) ELSE Elements(t)))]
  <2>1. \A x \in rules \cup nodes :
            fewer[x] = Cardinality(e[x] \ (IF x \in rules THEN Met(nodes, e, t) ELSE Elements(t)))
    BY <1>9, <1>10, <1>n
  <2> QED BY <1>c, <2>1
<1>12. \A x \in Elements(s) \cup {name} : e[x] \subseteq M /\ x \in rules /\ count[x] = 0
  BY <1>1, <1>3, <1>4, <1>9
<1>13. next = {x \in rules \ Elements(t) : fewer[x] = 0}
  <2>1. ASSUME NEW x \in next PROVE x \in rules \ Elements(t) /\ fewer[x] = 0
    <3>1. CASE x \in now \ {name}
      <4>1. x \in rules /\ x \notin Elements(s) /\ count[x] = 0
        BY <1>1, <3>1
      <4>2. fewer[x] \in Nat /\ fewer[x] <= 0
        BY <1>9, <4>1
      <4>3. fewer[x] = 0
        BY <4>2
      <4> QED BY <1>4, <3>1, <4>1, <4>3
    <3>2. CASE x \in rules /\ fewer[x] = 0 /\ count[x] > 0
      BY <1>4, <1>12, <3>2
    <3> QED BY <1>d, <2>1, <3>1, <3>2
  <2>2. ASSUME NEW x \in rules \ Elements(t), fewer[x] = 0 PROVE x \in next
    <3>1. count[x] \in Nat
      BY <1>9
    <3>2. count[x] = 0 \/ count[x] > 0
      BY <3>1
    <3> QED BY <1>1, <1>4, <1>d, <2>2, <3>2
  <2> QED BY <2>1, <2>2
<1>14. \A x \in Elements(t) : e[x] \subseteq Met(nodes, e, t)
  BY <1>4, <1>7, <1>12
<1>15. Bare(reads, Elements(t))
  <2>1. name \notin M
    BY <1>b, <1>8
  <2>2. \A x \in Elements(s) \cup {name} : name \notin reads[x]
    BY <1>a, <1>12, <2>1
  <2>3. PICK F : F = Elements(s)
    OBVIOUS
  <2>4. Bare(reads, F) /\ name \notin reads[name] /\ \A y \in F : name \notin reads[y]
    BY <1>1, <2>2, <2>3
  <2>5. Bare(reads, F \cup {name})
    BY <2>4, Grown
  <2> QED BY <1>4, <2>3, <2>5
<1>16. now = {x \in rules \ Elements(s) : direct[x] \subseteq Elements(s)}
  <2>1. Elements(s) \in SUBSET rules
    BY <1>4
  <2>2. \A x \in rules : direct[x] \subseteq Elements(s) <=> e[x] \subseteq M
    BY <1>0, <2>1 DEF Met, OrderGraphs
  <2>3. \A x \in rules : (count[x] = 0) <=> (direct[x] \subseteq Elements(s))
    BY <1>9, <2>2
  <2> QED BY <1>1, <2>3
<1>17. LeastFirst(rules, direct, t)
  BY <1>0, <1>1, <1>3, <1>16, LeastFirstAppend
<1>18. OrderState(rules, nodes, e, direct, reads, fewer, next, t)
  BY <1>4, <1>5, <1>11, <1>13, <1>14, <1>15, <1>17 DEF OrderState
<1> QED BY <1>0, <1>18

(* A ready node is satisfied.                                              *)
LEMMA WalkStep ==
    ASSUME NEW all, NEW e, NEW count, NEW now, WalkState(all, e, count, now),
           \A x \in all : IsFiniteSet(e[x]),
           NEW x \in now
    PROVE  /\ WalkState(all, e, WalkCount(all, e, count, x), WalkReady(all, e, count, now, x))
           /\ Settled(all, WalkCount(all, e, count, x), WalkReady(all, e, count, now, x)) =
                  Settled(all, count, now) \cup {x}
           /\ x \notin Settled(all, count, now) /\ x \in all
           /\ e[x] \subseteq Settled(all, count, now)
<1>0. PICK done, fewer, next :
          /\ done = Settled(all, count, now)
          /\ fewer = WalkCount(all, e, count, x)
          /\ next = WalkReady(all, e, count, now, x)
  OBVIOUS
<1>1. /\ now \subseteq all /\ Bare(e, done)
      /\ \A y \in all : count[y] = Cardinality(e[y] \ done)
      /\ \A y \in now : count[y] = 0
  BY <1>0 DEF WalkState
<1>a. done = {y \in all : count[y] = 0 /\ y \notin now}
  BY <1>0 DEF Settled
<1>b. /\ fewer = [y \in all |-> fewer[y]]
      /\ \A y \in all : fewer[y] = count[y] - IF x \in e[y] THEN 1 ELSE 0
  BY <1>0 DEF WalkCount
<1>c. next = (now \ {x}) \cup {y \in all : fewer[y] = 0 /\ count[y] > 0}
  BY <1>0 DEF WalkReady
<1>2. x \notin done /\ x \in all
  BY <1>1, <1>a
<1>3. ASSUME NEW y \in all
      PROVE  /\ count[y] \in Nat /\ fewer[y] \in Nat
             /\ fewer[y] = Cardinality(e[y] \ (done \cup {x}))
             /\ (count[y] = 0) <=> (e[y] \subseteq done)
  <2>1. PICK A, N : A = e[y] /\ N = {x}
    OBVIOUS
  <2>2. IsFiniteSet(A) /\ \A z \in N : z \notin done
    BY <1>2, <2>1
  <2>3. /\ Cardinality(A \ done) \in Nat
        /\ Cardinality(A \ (done \cup N)) = Cardinality(A \ done) - Cardinality(A \cap N)
        /\ Cardinality(A \ (done \cup N)) \in Nat
        /\ (Cardinality(A \ done) = 0) <=> (A \subseteq done)
    BY <2>2, FewerLeft
  <2>4. Cardinality(A \cap N) = IF x \in A THEN 1 ELSE 0
    <3>1. CASE x \in A
      <4>1. A \cap N = {x}
        BY <2>1, <3>1
      <4> QED BY <3>1, <4>1, FS_Singleton
    <3>2. CASE x \notin A
      <4>1. A \cap N = {}
        BY <2>1, <3>2
      <4> QED BY <3>2, <4>1, FS_EmptySet
    <3> QED BY <3>1, <3>2
  <2>5. fewer[y] = count[y] - (IF x \in A THEN 1 ELSE 0) /\ count[y] = Cardinality(A \ done)
    BY <1>1, <1>b, <2>1
  <2>6. fewer[y] = Cardinality(A \ (done \cup N))
    BY <2>3, <2>4, <2>5
  <2> QED BY <2>1, <2>3, <2>5, <2>6
<1>4. \A y \in all : x \in e[y] => count[y] # 0
  BY <1>2, <1>3
<1>5. ASSUME NEW y \in all
      PROVE  (fewer[y] = 0 /\ y \notin next) <=> y \in done \cup {x}
  <2>1. CASE count[y] = 0
    <3>1. fewer[y] = 0
      BY <1>4, <1>b, <2>1
    <3>2. y \in next <=> y \in now \ {x}
      BY <1>c, <2>1
    <3> QED BY <1>2, <1>a, <2>1, <3>1, <3>2
  <2>2. CASE count[y] # 0
    <3>1. count[y] \in Nat
      BY <1>3
    <3>2. count[y] > 0
      BY <2>2, <3>1
    <3>3. y # x /\ y \notin done
      BY <1>1, <1>a, <2>2
    <3> QED BY <1>c, <3>2, <3>3
  <2> QED BY <2>1, <2>2
<1>6. Settled(all, fewer, next) = done \cup {x}
  BY <1>2, <1>5, <1>a DEF Settled
<1>7. Bare(e, done \cup {x})
  <2>1. \A y \in done \cup {x} : y \in all /\ count[y] = 0
    BY <1>1, <1>2, <1>a
  <2>2. x \notin e[x] /\ \A y \in done : x \notin e[y]
    BY <1>4, <2>1
  <2> QED BY <1>1, <2>2, Grown
<1>8. next \subseteq all /\ \A y \in next : fewer[y] = 0
  <2>1. ASSUME NEW y \in now \ {x} PROVE y \in all /\ fewer[y] = 0
    <3>1. y \in all /\ count[y] = 0
      BY <1>1
    <3>2. x \notin e[y]
      BY <1>4, <3>1
    <3> QED BY <1>b, <3>1, <3>2
  <2> QED BY <1>c, <2>1
<1>9. fewer = [y \in all |-> Cardinality(e[y] \ Settled(all, fewer, next))]
  <2>1. \A y \in all : fewer[y] = Cardinality(e[y] \ Settled(all, fewer, next))
    BY <1>3, <1>6
  <2> QED BY <1>b, <2>1
<1>10. WalkState(all, e, fewer, next)
  BY <1>6, <1>7, <1>8, <1>9 DEF WalkState
<1>11. e[x] \subseteq done
  BY <1>1, <1>2, <1>3
<1> QED BY <1>0, <1>2, <1>6, <1>10, <1>11

(* What is satisfied waits for nothing but what is satisfied, and what is  *)
(* ready is the rest of what does.                                         *)
LEMMA WalkReadiness ==
    ASSUME NEW all, NEW e, NEW count, NEW now, WalkState(all, e, count, now),
           \A x \in all : IsFiniteSet(e[x])
    PROVE  /\ Settled(all, count, now) \subseteq all
           /\ now \subseteq all \ Settled(all, count, now)
           /\ \A y \in Settled(all, count, now) : e[y] \subseteq Settled(all, count, now)
           /\ \A y \in all \ Settled(all, count, now) :
                  y \in now <=> e[y] \subseteq Settled(all, count, now)
<1>0. PICK done : done = Settled(all, count, now)
  OBVIOUS
<1>1. done = {y \in all : count[y] = 0 /\ y \notin now}
  BY <1>0 DEF Settled
<1>2. /\ now \subseteq all /\ \A y \in now : count[y] = 0
      /\ \A y \in all : count[y] = Cardinality(e[y] \ done)
  BY <1>0 DEF WalkState
<1>3. ASSUME NEW y \in all PROVE (count[y] = 0) <=> (e[y] \subseteq done)
  <2>1. PICK A : A = e[y] \ done
    OBVIOUS
  <2>2. IsFiniteSet(A) /\ count[y] = Cardinality(A)
    BY <1>2, <2>1, FS_Difference
  <2>3. Cardinality(A) = 0 <=> A = {}
    BY <2>2, FS_EmptySet
  <2> QED BY <2>1, <2>2, <2>3
<1>4. done \subseteq all /\ now \subseteq all \ done
  BY <1>1, <1>2
<1>5. \A y \in done : e[y] \subseteq done
  BY <1>1, <1>3
<1>6. \A y \in all \ done : y \in now <=> e[y] \subseteq done
  BY <1>1, <1>2, <1>3
<1> QED BY <1>0, <1>4, <1>5, <1>6

(* With no relation ready, the least ready rule is the least of those that *)
(* wait, through whatever relations, for rules that are listed.            *)
LEMMA WalkOrderStep ==
    ASSUME NEW rules, NEW relations, NEW e, NEW routed, NEW count, NEW now, NEW s,
           WalkGraphs(rules, relations, e, routed),
           WalkState(rules \cup relations, e, count, now),
           WalkOrder(rules, relations, e, routed, Settled(rules \cup relations, count, now), s),
           NEW x \in now,
           x \in rules => now \cap relations = {} /\ x = Least(now)
    PROVE  WalkOrder(rules, relations, e, routed,
                     Settled(rules \cup relations, count, now) \cup {x},
                     IF x \in rules THEN Append(s, x) ELSE s)
<1>0. PICK all, done, t : /\ all = rules \cup relations
                          /\ done = Settled(all, count, now)
                          /\ t = Append(s, x)
  OBVIOUS
<1>1. /\ done \subseteq all /\ now \subseteq all \ done
      /\ \A y \in done : e[y] \subseteq done
      /\ \A y \in all \ done : y \in now <=> e[y] \subseteq done
  <2>1. /\ WalkState(all, e, count, now) /\ \A y \in all : IsFiniteSet(e[y])
    BY <1>0 DEF WalkGraphs
  <2>2. /\ Settled(all, count, now) \subseteq all
        /\ now \subseteq all \ Settled(all, count, now)
        /\ \A y \in Settled(all, count, now) : e[y] \subseteq Settled(all, count, now)
        /\ \A y \in all \ Settled(all, count, now) :
               y \in now <=> e[y] \subseteq Settled(all, count, now)
    BY <2>1, WalkReadiness, Zenon
  <2> QED BY <1>0, <2>2, Zenon
<1>2. /\ s \in Seq(rules) /\ Distinct(s) /\ Elements(s) = done \cap rules
      /\ Bare(e, relations) => LeastFirst(rules, routed, s)
  BY <1>0 DEF WalkOrder
<1>3. rules \subseteq Nat /\ rules \cap relations = {}
  BY DEF WalkGraphs
<1>4. CASE x \notin rules
  BY <1>0, <1>2, <1>4 DEF WalkOrder
<1>5. CASE x \in rules
  <2>1. x \notin Elements(s)
    BY <1>1, <1>2
  <2>2. /\ t \in Seq(rules) /\ Elements(t) = (done \cup {x}) \cap rules
    <3>1. /\ Append(s, x) \in Seq(rules)
          /\ Elements(Append(s, x)) = Elements(s) \cup {x}
      BY <1>2, <1>5, AppendFacts
    <3> QED BY <1>0, <1>2, <1>5, <3>1
  <2>3. Distinct(t)
    BY <1>0, <1>2, <1>5, <2>1, AppendDistinct
  <2>4. ASSUME Bare(e, relations) PROVE LeastFirst(rules, routed, t)
    <3>1. \A r \in relations \ done : ~(e[r] \subseteq done)
      BY <1>0, <1>1, <1>5
    <3>2. done \in SUBSET (rules \cup relations)
      BY <1>0, <1>1
    <3>3. ASSUME NEW y \in rules PROVE routed[y] \subseteq done <=> e[y] \subseteq done
      <4>1. e[y] \subseteq done => routed[y] \subseteq done
        BY <1>1, <3>2 DEF WalkGraphs
      <4>2. routed[y] \subseteq done => e[y] \subseteq done
        BY <2>4, <3>1, <3>2 DEF WalkGraphs
      <4> QED BY <4>1, <4>2
    <3>4. ASSUME NEW y \in rules PROVE routed[y] \subseteq rules
      BY DEF WalkGraphs
    <3>5. now = {y \in rules \ Elements(s) : routed[y] \subseteq Elements(s)}
      BY <1>0, <1>1, <1>2, <1>3, <1>5, <3>3, <3>4
    <3> QED BY <1>0, <1>2, <1>5, <2>4, <3>5, LeastFirstAppend
  <2> QED BY <1>0, <1>5, <2>2, <2>3, <2>4 DEF WalkOrder
<1> QED BY <1>4, <1>5

-----------------------------------------------------------------------------
LEMMA ReadsAreRules ==
    ASSUME UnknownRules = {}
    PROVE  \A x \in Readers : Reads(program, x) \subseteq Rules
BY DEF UnknownRules

(* What a reader comes to read is closed, and the least closed set.        *)
LEMMA ThroughFacts ==
    ASSUME NEW x
    PROVE  /\ Through(x) \subseteq DerivedRelations
           /\ Waits(x) \cap DerivedRelations \subseteq Through(x)
           /\ \A r \in Through(x) : Waits(r) \cap DerivedRelations \subseteq Through(x)
           /\ \A T \in SUBSET DerivedRelations :
                  (Waits(x) \cap DerivedRelations \subseteq T /\
                   \A t \in T : Waits(t) \cap DerivedRelations \subseteq T) => Through(x) \subseteq T
<1>1. Through(x) \subseteq DerivedRelations
  BY DEF Through
<1>2. Waits(x) \cap DerivedRelations \subseteq Through(x)
  BY DEF Through
<1>3. ASSUME NEW r \in Through(x), NEW z \in Waits(r) \cap DerivedRelations PROVE z \in Through(x)
  <2>1. ASSUME NEW T \in SUBSET DerivedRelations, Waits(x) \cap DerivedRelations \subseteq T,
               \A t \in T : Waits(t) \cap DerivedRelations \subseteq T
        PROVE  z \in T
    <3>1. r \in T
      BY <2>1 DEF Through
    <3> QED BY <2>1, <3>1
  <2> QED BY <2>1 DEF Through
<1>4. \A T \in SUBSET DerivedRelations :
          (Waits(x) \cap DerivedRelations \subseteq T /\
           \A t \in T : Waits(t) \cap DerivedRelations \subseteq T) => Through(x) \subseteq T
  BY DEF Through
<1> QED BY <1>1, <1>2, <1>3, <1>4

LEMMA SearchGraphFacts == SearchGraph \in [DerivedRelations -> SUBSET DerivedRelations]
BY DEF SearchGraph

(* A rule waits directly for no more than its graph says, once a relation  *)
(* is met with all that its predicate reads.                               *)
LEMMA OrderGraphsHold ==
    ASSUME WellFormed(program), UnknownRules = {}
    PROVE  OrderGraphs(Rules, RelationNodes, OrderGraph, DirectWaits, RuleGraph)
<1>1. /\ Rules \subseteq Nat /\ Rules \cap RelationNodes = {}
      /\ RelationNodes \subseteq DerivedRelations /\ RelationNodes \subseteq Readers
      /\ Rules \subseteq Readers /\ Rules \cap DerivedRelations = {}
      /\ IsFiniteSet(RelationNodes)
      /\ \A x \in Readers : IsFiniteSet(Reads(program, x)) /\ Reads(program, x) \subseteq Rules
  BY ProgramFacts, ReadsAreRules DEF Readers
<1>2. /\ \A x \in Rules : OrderGraph[x] = RuleWaits(x) /\ DirectWaits[x] = Precedes(x)
                          /\ RuleGraph[x] = Reads(program, x)
      /\ \A r \in RelationNodes : OrderGraph[r] = Reads(program, r)
  BY <1>1 DEF OrderGraph, DirectWaits, RuleGraph
<1>3. ASSUME NEW x \in Rules PROVE IsFiniteSet(RuleWaits(x))
  <2>1. IsFiniteSet(Aggregated(x) \cap RelationNodes)
    BY <1>1, FS_Subset
  <2> QED BY <1>1, <2>1, FS_Union DEF RuleWaits
<1>4. \A x \in Rules \cup RelationNodes : IsFiniteSet(OrderGraph[x])
  BY <1>1, <1>2, <1>3
<1>5. \A x \in Rules : RuleGraph[x] \subseteq OrderGraph[x]
  BY <1>2 DEF RuleWaits
<1>6. ASSUME NEW x \in Rules, NEW L \in SUBSET Rules
      PROVE  Precedes(x) \subseteq L <=>
                 RuleWaits(x) \subseteq L \cup {r \in RelationNodes : Reads(program, r) \subseteq L}
  <2>1. ASSUME Precedes(x) \subseteq L, NEW z \in RuleWaits(x)
        PROVE  z \in L \cup {r \in RelationNodes : Reads(program, r) \subseteq L}
    <3>1. CASE z \in Reads(program, x)
      BY <2>1, <3>1 DEF Precedes
    <3>2. CASE z \in Aggregated(x) \cap RelationNodes
      <4>1. Reads(program, z) \subseteq Precedes(x)
        BY <1>1, <3>2 DEF Precedes
      <4> QED BY <2>1, <3>2, <4>1
    <3> QED BY <2>1, <3>1, <3>2 DEF RuleWaits
  <2>2. ASSUME RuleWaits(x) \subseteq L \cup {r \in RelationNodes : Reads(program, r) \subseteq L},
               NEW z \in Precedes(x)
        PROVE  z \in L
    <3>1. CASE z \in Reads(program, x)
      <4>1. z \in Rules /\ z \in RuleWaits(x)
        BY <1>1, <3>1 DEF RuleWaits
      <4> QED BY <1>1, <2>2, <4>1
    <3>2. ASSUME NEW r \in Aggregated(x) \cap DerivedRelations, z \in Reads(program, r)
          PROVE  z \in L
      <4>1. r \in RelationNodes /\ r \in RuleWaits(x)
        BY <3>2 DEF RelationNodes, RuleWaits
      <4>2. r \notin L
        BY <1>1
      <4> QED BY <2>2, <3>2, <4>1, <4>2
    <3> QED BY <2>2, <3>1, <3>2 DEF Precedes
  <2> QED BY <2>1, <2>2
<1>7. ASSUME NEW x \in Rules, NEW L \in SUBSET Rules
      PROVE  DirectWaits[x] \subseteq L <=>
                 OrderGraph[x] \subseteq L \cup {r \in RelationNodes : OrderGraph[r] \subseteq L}
  <2>1. {r \in RelationNodes : OrderGraph[r] \subseteq L} =
            {r \in RelationNodes : Reads(program, r) \subseteq L}
    BY <1>2
  <2> QED BY <1>2, <1>6, <2>1
<1> QED BY <1>1, <1>4, <1>5, <1>7 DEF OrderGraphs

LEMMA WalkGraphsHold ==
    ASSUME WellFormed(program), UnknownRules = {}
    PROVE  WalkGraphs(Rules, DerivedRelations, WalkGraph, RoutedWaits)
<1>1. /\ Rules \subseteq Nat /\ Rules \cap DerivedRelations = {}
      /\ IsFiniteSet(DerivedRelations) /\ Readers = Rules \cup DerivedRelations
      /\ \A x \in Readers : IsFiniteSet(Reads(program, x)) /\ Reads(program, x) \subseteq Rules
  BY ProgramFacts, ReadsAreRules DEF Readers
<1>2. /\ \A x \in Readers : WalkGraph[x] = Waits(x)
      /\ \A x \in Rules : RoutedWaits[x] = PrecedesRouted(x)
  BY DEF WalkGraph, RoutedWaits
<1>3. \A x : Reads(program, x) \subseteq Waits(x)
             /\ Waits(x) \subseteq Reads(program, x) \cup DerivedRelations
  BY DEF Waits
<1>4. \A x \in Readers : IsFiniteSet(Waits(x))
  <2>1. ASSUME NEW x \in Readers PROVE IsFiniteSet(Reads(program, x) \cup DerivedRelations)
    BY <1>1, FS_Union
  <2> QED BY <1>3, <2>1, FS_Subset
<1>5. ASSUME NEW x \in Rules PROVE PrecedesRouted(x) \subseteq Rules
  <2>1. x \in Readers /\ \A r \in Through(x) : r \in Readers
    BY <1>1, ThroughFacts
  <2> QED BY <1>1, <2>1 DEF PrecedesRouted
<1>6. ASSUME NEW y \in Rules, NEW L \in SUBSET Readers
      PROVE  /\ (\A r \in L : Waits(r) \subseteq L) /\ Waits(y) \subseteq L =>
                    PrecedesRouted(y) \subseteq L
             /\ /\ Bare(WalkGraph, DerivedRelations) /\ PrecedesRouted(y) \subseteq L
                /\ \A r \in DerivedRelations \ L : ~(Waits(r) \subseteq L)
                => Waits(y) \subseteq L
  <2>0. y \in Readers
    BY <1>1
  <2>1. ASSUME \A r \in L : Waits(r) \subseteq L, Waits(y) \subseteq L
        PROVE  PrecedesRouted(y) \subseteq L
    <3>1. Through(y) \subseteq L \cap DerivedRelations
      <4>1. /\ Waits(y) \cap DerivedRelations \subseteq L \cap DerivedRelations
            /\ \A t \in L \cap DerivedRelations :
                   Waits(t) \cap DerivedRelations \subseteq L \cap DerivedRelations
        BY <2>1
      <4> QED BY <4>1, ThroughFacts
    <3>2. Reads(program, y) \subseteq L /\ \A r \in Through(y) : Reads(program, r) \subseteq L
      BY <1>3, <2>1, <3>1
    <3> QED BY <3>2 DEF PrecedesRouted
  <2>2. ASSUME Bare(WalkGraph, DerivedRelations), PrecedesRouted(y) \subseteq L,
               \A r \in DerivedRelations \ L : ~(Waits(r) \subseteq L)
        PROVE  Waits(y) \subseteq L
    <3>1. PICK S : S = Through(y) \ L
      OBVIOUS
    <3>2. S \in SUBSET DerivedRelations
      BY <3>1, ThroughFacts
    <3>3. ASSUME NEW r \in S PROVE WalkGraph[r] \cap S # {}
      <4>1. r \in Through(y) /\ r \in DerivedRelations /\ r \notin L /\ r \in Readers
        BY <1>1, <3>1, <3>2
      <4>2. PICK z \in Waits(r) : z \notin L
        BY <2>2, <4>1
      <4>3. Reads(program, r) \subseteq L
        BY <2>2, <4>1 DEF PrecedesRouted
      <4>4. z \in DerivedRelations
        BY <1>3, <4>2, <4>3
      <4>5. z \in Through(y)
        BY <4>1, <4>2, <4>4, ThroughFacts
      <4> QED BY <1>2, <3>1, <4>1, <4>2, <4>5
    <3>4. S = {}
      BY <2>2, <3>2, <3>3 DEF Bare
    <3>5. Waits(y) \cap DerivedRelations \subseteq L
      BY <3>1, <3>4, ThroughFacts
    <3>6. Reads(program, y) \subseteq L
      BY <2>2 DEF PrecedesRouted
    <3> QED BY <1>3, <3>5, <3>6
  <2> QED BY <2>1, <2>2
<1>7. \A L \in SUBSET Readers :
          /\ (\A r \in L : WalkGraph[r] \subseteq L) <=> (\A r \in L : Waits(r) \subseteq L)
          /\ (\A r \in DerivedRelations \ L : ~(WalkGraph[r] \subseteq L)) <=>
                 (\A r \in DerivedRelations \ L : ~(Waits(r) \subseteq L))
  BY <1>1, <1>2
<1>8. ASSUME NEW y \in Rules, NEW L \in SUBSET Readers
      PROVE  /\ (\A r \in L : WalkGraph[r] \subseteq L) /\ WalkGraph[y] \subseteq L =>
                    RoutedWaits[y] \subseteq L
             /\ /\ Bare(WalkGraph, DerivedRelations) /\ RoutedWaits[y] \subseteq L
                /\ \A r \in DerivedRelations \ L : ~(WalkGraph[r] \subseteq L)
                => WalkGraph[y] \subseteq L
  <2>1. WalkGraph[y] = Waits(y) /\ RoutedWaits[y] = PrecedesRouted(y)
    BY <1>1, <1>2
  <2>2. ASSUME \A r \in L : WalkGraph[r] \subseteq L, WalkGraph[y] \subseteq L
        PROVE  RoutedWaits[y] \subseteq L
    <3>1. \A r \in L : Waits(r) \subseteq L
      BY <1>7, <2>2
    <3> QED BY <1>6, <2>1, <2>2, <3>1
  <2>3. ASSUME Bare(WalkGraph, DerivedRelations), RoutedWaits[y] \subseteq L,
               \A r \in DerivedRelations \ L : ~(WalkGraph[r] \subseteq L)
        PROVE  WalkGraph[y] \subseteq L
    <3>1. \A r \in DerivedRelations \ L : ~(Waits(r) \subseteq L)
      BY <1>7, <2>3
    <3> QED BY <1>6, <2>1, <2>3, <3>1
  <2> QED BY <2>2, <2>3
<1>9. /\ \A x \in Rules \cup DerivedRelations : IsFiniteSet(WalkGraph[x])
      /\ \A x \in Rules : RoutedWaits[x] \subseteq Rules
  BY <1>1, <1>2, <1>4, <1>5
<1>10. \A y \in Rules, L \in SUBSET (Rules \cup DerivedRelations) :
           /\ (\A r \in L : WalkGraph[r] \subseteq L) /\ WalkGraph[y] \subseteq L =>
                  RoutedWaits[y] \subseteq L
           /\ /\ Bare(WalkGraph, DerivedRelations) /\ RoutedWaits[y] \subseteq L
              /\ \A r \in DerivedRelations \ L : ~(WalkGraph[r] \subseteq L)
              => WalkGraph[y] \subseteq L
  BY <1>1, <1>8
<1> QED BY <1>1, <1>9, <1>10, Zenon DEF WalkGraphs

-----------------------------------------------------------------------------
(* The edges of every graph are among what an evaluation reads.            *)
LEMMA EdgesNeeded ==
    ASSUME WellFormed(program), NEW x \in Readers
    PROVE  /\ Needs(x) = NeedsGraph[x] /\ Waits(x) = WalkGraph[x]
           /\ Reads(program, x) \subseteq Needs(x) /\ Waits(x) \subseteq Needs(x)
           /\ Aggregated(x) \cap DerivedRelations \subseteq Needs(x)
           /\ x \notin Rules => RelationWaits(x) \cap DerivedRelations \subseteq Needs(x)
<1>1. Needs(x) = NeedsGraph[x] /\ Waits(x) = WalkGraph[x]
  BY DEF NeedsGraph, WalkGraph
<1>2. /\ Aggregated(x) \subseteq Named(x, ReadKinds) /\ Walked(x) \subseteq Named(x, ReadKinds)
      /\ Extra(x) \subseteq Named(x, ReadKinds)
  BY DEF Aggregated, Walked, Extra, Named, ReadKinds
<1> QED BY <1>1, <1>2 DEF Needs, Waits, RelationWaits

(* The walk misses nothing an evaluation reads, but for the reads by       *)
(* `only_related` of programs without atoms.                               *)
LEMMA NoticedWaited ==
    ASSUME NEW x
    PROVE  Noticed(x) = Waits(x)
<1>1. Named(x, ReadKinds \ {"only"}) = Walked(x)
  BY DEF Named, Walked, ReadKinds
<1>2. Named(x, ReadKinds) = Walked(x) \cup Aggregated(x)
  BY DEF Named, Walked, Aggregated, ReadKinds
<1>3. CASE HasAtoms
  BY <1>2, <1>3 DEF Noticed, Waits, Extra
<1>4. CASE ~HasAtoms
  BY <1>1, <1>4 DEF Noticed, Waits, Extra
<1> QED BY <1>3, <1>4

(* What one of a circle of readers waits for is what they read.            *)
LEMMA CycleNamed ==
    ASSUME NEW S \in SUBSET Readers, WellFormed(program),
           \A x \in S : Needs(x) \cap S # {},
           NEW kind, NEW names,
           kind = "cyclic_rules" => S \cap Rules # {} /\ S \cap Rules \subseteq names,
           kind = "cyclic_relations" => S \cap Relations # {} /\ S \cap Relations \subseteq names
    PROVE  NamesCycle(Rules, Relations, Readers, NeedsGraph, [kind |-> kind, names |-> names])
<1>1. \A x \in S : NeedsGraph[x] \cap S # {}
  BY EdgesNeeded
<1>2. CASE kind = "cyclic_rules"
  BY <1>1, <1>2 DEF NamesCycle
<1>3. CASE kind = "cyclic_relations"
  BY <1>1, <1>3 DEF NamesCycle
<1>4. CASE kind \notin {"cyclic_rules", "cyclic_relations"}
  BY <1>4 DEF NamesCycle
<1> QED BY <1>2, <1>3, <1>4

LEMMA DistinctCardinality ==
    ASSUME NEW S, NEW s \in Seq(S), Distinct(s)
    PROVE  Cardinality(Elements(s)) = Len(s)
<1>1. Len(s) \in Nat /\ s \in [1..Len(s) -> Elements(s)]
  BY LenProperties DEF Elements
<1>2. \A x \in Elements(s) : \E i \in 1..Len(s) : s[i] = x
  BY DEF Elements
<1>3. s \in Bijection(1..Len(s), Elements(s))
  BY <1>1, <1>2 DEF Distinct, Bijection, Injection, Surjection, IsInjective
<1> QED BY <1>1, <1>3, FS_CountingElements DEF ExistsBijection

(* An order as long as there are rules has them all.                       *)
LEMMA AllOrdered ==
    ASSUME NEW S, IsFiniteSet(S), NEW s \in Seq(S), Distinct(s)
    PROVE  /\ Elements(s) \subseteq S
           /\ Len(s) = Cardinality(S) <=> Elements(s) = S
<1>1. Elements(s) \subseteq S
  <2>1. \A i \in 1..Len(s) : s[i] \in S
    BY ElementOfSeq
  <2> QED BY <2>1 DEF Elements
<1>2. Cardinality(Elements(s)) = Len(s)
  BY DistinctCardinality
<1>3. Cardinality(Elements(s)) = Cardinality(S) => Elements(s) = S
  BY <1>1, FS_Subset
<1> QED BY <1>1, <1>2, <1>3

-----------------------------------------------------------------------------
LEMMA InductiveInit == Start /\ WellFormed(program) => Inductive
<1> SUFFICES ASSUME Start, WellFormed(program) PROVE Inductive
  OBVIOUS
<1>1. phase = "relations" /\ path = <<>> /\ finished = {} /\ order = <<>> /\ walk = <<>>
      /\ error = NoError
  BY DEF Start
<1>2. SearchState(DerivedRelations, SearchGraph, {}, <<>>)
  <2>1. /\ <<>> \in Seq([node : DerivedRelations, left : SUBSET DerivedRelations])
        /\ Len(<<>>) = 0 /\ 1..0 = {} /\ 1..(0 - 1) = {}
    OBVIOUS
  <2>2. Bare(SearchGraph, {})
    BY DEF Bare
  <2> QED BY <2>1, <2>2 DEF SearchState
<1>3. NamesCycle(Rules, Relations, Readers, NeedsGraph, NoError)
  BY DEF NamesCycle, NoError
<1> QED BY <1>1, <1>2, <1>3 DEF Inductive, Verdict, Phases

(* What every action that neither ends a pass nor refuses leaves to show.  *)
LEMMA RelationsPhase ==
    ASSUME Inductive, UNCHANGED <<program, phase, order, walk, error>>, phase = "relations",
           SearchState(DerivedRelations, SearchGraph, finished', path')
    PROVE  Inductive'
<1>1. /\ WellFormed(program)' /\ phase' = "relations" /\ order' = <<>> /\ walk' = <<>>
      /\ error' = NoError /\ NamesCycle(Rules, Relations, Readers, NeedsGraph, error)
  BY Kept DEF Inductive, Verdict
<1>2. SearchState(DerivedRelations', SearchGraph', finished', path')
  BY Kept
<1>3. NamesCycle(Rules, Relations, Readers', NeedsGraph', error')
  BY <1>1, Kept
<1>4. Verdict'
  BY <1>1, <1>3 DEF Verdict
<1> QED BY <1>1, <1>2, <1>4 DEF Inductive, Phases

LEMMA Refused ==
    ASSUME Inductive, NEW kind, NEW names, Refuse(kind, names),
           NamesCycle(Rules, Relations, Readers, NeedsGraph, [kind |-> kind, names |-> names])
    PROVE  Inductive'
<1>1. UNCHANGED program /\ phase' = "refused" /\ error' = [kind |-> kind, names |-> names]
  BY DEF Refuse
<1>2. WellFormed(program)'
  BY <1>1, Kept DEF Inductive
<1>3. NamesCycle(Rules, Relations, Readers', NeedsGraph', error')
  BY <1>1, Kept
<1>4. Verdict'
  BY <1>1, <1>3 DEF Verdict
<1> QED BY <1>1, <1>2, <1>4 DEF Inductive, Phases

-----------------------------------------------------------------------------
(* The search, and the path's top.                                         *)
LEMMA SearchFacts ==
    ASSUME Inductive, Searching
    PROVE  /\ WellFormed(program) /\ phase = "relations"
           /\ SearchState(DerivedRelations, SearchGraph, finished, path)
           /\ DerivedRelations \subseteq Nat
           /\ \A r \in DerivedRelations :
                  SearchGraph[r] = RelationWaits(r) \cap DerivedRelations
           /\ path # <<>> =>
                  /\ Top = path[Len(path)] /\ Len(path) \in 1..Len(path)
                  /\ Top.node \in DerivedRelations /\ Top.left \subseteq DerivedRelations
                  /\ Top.left # {} => Least(Top.left) \in Top.left
<1>1. /\ WellFormed(program) /\ phase = "relations"
      /\ SearchState(DerivedRelations, SearchGraph, finished, path)
  BY DEF Inductive, Searching
<1>2. DerivedRelations \subseteq Nat
  BY <1>1, ProgramFacts
<1>3. \A r \in DerivedRelations : SearchGraph[r] = RelationWaits(r) \cap DerivedRelations
  BY DEF SearchGraph
<1>4. ASSUME path # <<>>
      PROVE  /\ Top = path[Len(path)] /\ Len(path) \in 1..Len(path)
             /\ Top.node \in DerivedRelations /\ Top.left \subseteq DerivedRelations
             /\ Top.left # {} => Least(Top.left) \in Top.left
  <2>1. Top = path[Len(path)] /\ Len(path) \in 1..Len(path)
    BY <1>1, <1>4, PathFacts DEF Top
  <2>2. path[Len(path)].node \in DerivedRelations /\ path[Len(path)].left \subseteq DerivedRelations
    BY <1>1, <2>1, PathFacts
  <2>3. Top.left \in SUBSET Nat
    BY <1>2, <2>1, <2>2
  <2> QED BY <2>1, <2>2, <2>3, LeastFacts
<1> QED BY <1>1, <1>2, <1>3, <1>4

LEMMA SearchRootStep == ASSUME Inductive, SearchRoot PROVE Inductive'
<1>1. /\ Searching /\ path = <<>> /\ DerivedRelations \ finished # {}
      /\ path' = Entered(path, Least(DerivedRelations \ finished)) /\ finished' = finished
      /\ UNCHANGED <<program, phase, order, walk, error>>
  BY DEF SearchRoot
<1>2. PICK y : y = Least(DerivedRelations \ finished)
  OBVIOUS
<1>3. y \in DerivedRelations /\ y \notin finished
  <2>1. DerivedRelations \ finished \in SUBSET Nat
    BY <1>1, SearchFacts
  <2> QED BY <1>1, <1>2, <2>1, LeastFacts
<1>4. path' = Append(<<>>, [node |-> y, left |-> SearchGraph[y]])
  BY <1>1, <1>2, <1>3, SearchFacts DEF Entered
<1>5. SearchState(DerivedRelations, SearchGraph, finished, <<>>)
  BY <1>1, SearchFacts
<1>6. SearchState(DerivedRelations, SearchGraph, finished, path')
  BY <1>3, <1>4, <1>5, RootState, SearchGraphFacts
<1>7. phase = "relations"
  BY <1>1, SearchFacts
<1> QED BY <1>1, <1>6, <1>7, RelationsPhase

LEMMA PassFinishedStep == ASSUME Inductive, PassFinished PROVE Inductive'
<1>1. /\ Searching /\ path # <<>> /\ Top.left # {} /\ Least(Top.left) \in finished
      /\ path' = Followed /\ finished' = finished
      /\ UNCHANGED <<program, phase, order, walk, error>>
  BY DEF PassFinished
<1>2. path' = Follow(path, Least(Top.left))
  BY <1>1 DEF Followed, Follow, Top
<1>3. SearchState(DerivedRelations, SearchGraph, finished, path) /\ phase = "relations"
  BY <1>1, SearchFacts
<1>4. SearchState(DerivedRelations, SearchGraph, finished, path')
  BY <1>1, <1>2, <1>3, PassState
<1> QED BY <1>1, <1>3, <1>4, RelationsPhase

LEMMA EnterStep == ASSUME Inductive, Enter PROVE Inductive'
<1>1. /\ Searching /\ path # <<>> /\ Top.left # {}
      /\ Least(Top.left) \notin finished /\ Least(Top.left) \notin OnPath
      /\ path' = Entered(Followed, Least(Top.left)) /\ finished' = finished
      /\ UNCHANGED <<program, phase, order, walk, error>>
  BY DEF Enter
<1>2. PICK y : y = Least(Top.left)
  OBVIOUS
<1>3. /\ SearchState(DerivedRelations, SearchGraph, finished, path) /\ phase = "relations"
      /\ y \in path[Len(path)].left /\ y \in DerivedRelations
      /\ RelationWaits(y) \cap DerivedRelations = SearchGraph[y]
  BY <1>1, <1>2, SearchFacts
<1>4. \A i \in 1..Len(path) : path[i].node # y
  BY <1>1, <1>2 DEF OnPath
<1>5. path' = Append(Follow(path, y), [node |-> y, left |-> SearchGraph[y]])
  BY <1>1, <1>2, <1>3 DEF Entered, Followed, Follow, Top
<1>6. SearchState(DerivedRelations, SearchGraph, finished,
                  Append(Follow(path, y), [node |-> y, left |-> SearchGraph[y]]))
  BY <1>1, <1>2, <1>3, <1>4, EnterState, SearchGraphFacts
<1> QED BY <1>1, <1>3, <1>5, <1>6, RelationsPhase

LEMMA LeaveStep == ASSUME Inductive, Leave PROVE Inductive'
<1>1. /\ Searching /\ path # <<>> /\ Top.left = {}
      /\ finished' = finished \cup {path[Len(path)].node}
      /\ path' = SubSeq(path, 1, Len(path) - 1)
      /\ UNCHANGED <<program, phase, order, walk, error>>
  BY DEF Leave, FinishTop, Top
<1>2. /\ SearchState(DerivedRelations, SearchGraph, finished, path) /\ phase = "relations"
      /\ path[Len(path)].left = {}
  BY <1>1, SearchFacts
<1>3. SearchState(DerivedRelations, SearchGraph, finished \cup {path[Len(path)].node},
                  SubSeq(path, 1, Len(path) - 1))
  BY <1>1, <1>2, LeaveState, SearchGraphFacts
<1> QED BY <1>1, <1>2, <1>3, RelationsPhase

(* The relations from the one met again to the top of the path are a       *)
(* cycle: each leads to the next.                                          *)
LEMMA CloseCycleStep == ASSUME Inductive, CloseCycle PROVE Inductive'
<1>1. /\ Searching /\ path # <<>> /\ Top.left # {}
      /\ Least(Top.left) \in OnPath /\ Refuse("cyclic_relations", OnPath)
  BY DEF CloseCycle
<1>2. PICK y, n, s : y = Least(Top.left) /\ n = Len(path) /\ s = path
  OBVIOUS
<1>3. /\ WellFormed(program)
      /\ n \in Nat /\ n \in 1..n /\ y \in s[n].left
      /\ \A i \in 1..n : s[i].node \in DerivedRelations /\ s[i].left \subseteq SearchGraph[s[i].node]
      /\ \A i \in 1..(n - 1) : s[i + 1].node \in SearchGraph[s[i].node]
  <2>1. /\ SearchState(DerivedRelations, SearchGraph, finished, s) /\ WellFormed(program)
        /\ n \in 1..n /\ y \in s[n].left
    BY <1>1, <1>2, SearchFacts
  <2>2. n \in Nat /\ \A i \in 1..n : s[i].node \in DerivedRelations
    BY <1>2, <2>1, PathFacts
  <2>3. /\ \A i \in 1..n : s[i].left \subseteq SearchGraph[s[i].node]
        /\ \A i \in 1..(n - 1) : s[i + 1].node \in SearchGraph[s[i].node]
    BY <1>2, <2>1 DEF SearchState
  <2> QED BY <2>1, <2>2, <2>3
<1>4. PICK k \in 1..n : s[k].node = y
  BY <1>1, <1>2 DEF OnPath
<1>5. PICK S : S = {s[i].node : i \in k..n}
  OBVIOUS
<1>6. \A i \in k..n : i \in 1..n
  BY <1>3, <1>4
<1>7. S \subseteq DerivedRelations /\ S \subseteq OnPath /\ y \in S
  <2>1. k \in k..n
    BY <1>3, <1>4
  <2> QED BY <1>2, <1>3, <1>4, <1>5, <1>6, <2>1 DEF OnPath
<1>8. ASSUME NEW i \in k..n PROVE SearchGraph[s[i].node] \cap S # {}
  <2>1. CASE i = n
    BY <1>3, <1>7, <2>1
  <2>2. CASE i # n
    <3>1. i \in 1..(n - 1) /\ i + 1 \in k..n
      BY <1>3, <1>4, <2>2
    <3> QED BY <1>3, <1>5, <3>1
  <2> QED BY <2>1, <2>2
<1>9. /\ S \subseteq Readers /\ \A x \in S : x \notin Rules
      /\ S \subseteq Relations
      /\ \A x \in S : SearchGraph[x] = RelationWaits(x) \cap DerivedRelations
  BY <1>1, <1>3, <1>7, ProgramFacts, SearchFacts DEF Readers
<1>10. \A x \in S : Needs(x) \cap S # {}
  <2> TAKE x \in S
  <2>1. SearchGraph[x] \cap S # {}
    BY <1>5, <1>8
  <2>2. SearchGraph[x] \subseteq Needs(x)
    BY <1>3, <1>9, EdgesNeeded
  <2> QED BY <2>1, <2>2
<1>11. NamesCycle(Rules, Relations, Readers, NeedsGraph,
                  [kind |-> "cyclic_relations", names |-> OnPath])
  <2>1. S \cap Relations # {} /\ S \cap Relations \subseteq OnPath
    BY <1>7, <1>9
  <2> QED BY <1>3, <1>9, <1>10, <2>1, CycleNamed
<1> QED BY <1>1, <1>11, Refused

(* A name that is not declared is not a cycle.                             *)
LEMMA RefuseUnknownStep ==
    ASSUME Inductive, RefuseUnknownRelation \/ RefuseUnknownRule
    PROVE  Inductive'
<1>1. PICK kind \in {"unknown_relation", "unknown_rule"} : Refuse(kind, {})
  BY DEF RefuseUnknownRelation, RefuseUnknownRule
<1>2. NamesCycle(Rules, Relations, Readers, NeedsGraph, [kind |-> kind, names |-> {}])
  BY DEF NamesCycle
<1> QED BY <1>1, <1>2, Refused

-----------------------------------------------------------------------------
(* No rule is ordered before the search is through: nothing is met, since  *)
(* a relation node reads some rule.                                        *)
LEMMA StartOrderStep == ASSUME Inductive, StartOrder PROVE Inductive'
<1>1. /\ Searching /\ path = <<>> /\ DerivedRelations \subseteq finished /\ UnknownRules = {}
      /\ waiting' = [x \in Rules \cup RelationNodes |-> Cardinality(
                       IF x \in Rules THEN RuleWaits(x) ELSE Reads(program, x))]
      /\ ready' = {x \in Rules : waiting'[x] = 0}
      /\ phase' = "rules" /\ UNCHANGED <<program, order, walk, error>>
  BY DEF StartOrder, Searched
<1>2. /\ WellFormed(program) /\ phase = "relations" /\ order = <<>> /\ walk = <<>> /\ error = NoError
      /\ SearchState(DerivedRelations, SearchGraph, finished, path)
      /\ NamesCycle(Rules, Relations, Readers, NeedsGraph, error)
  BY <1>1 DEF Inductive, Searching, Verdict
<1>3. Bare(SearchGraph, DerivedRelations)
  <2>1. finished \subseteq DerivedRelations /\ Bare(SearchGraph, finished)
    BY <1>2 DEF SearchState
  <2>2. finished = DerivedRelations
    BY <1>1, <2>1
  <2> QED BY <2>1, <2>2
<1>4. OrderState(Rules, RelationNodes, OrderGraph, DirectWaits, RuleGraph, waiting', ready', <<>>)
  <2>1. <<>> \in Seq(Rules) /\ Len(<<>>) = 0 /\ 1..0 = {}
    OBVIOUS
  <2>2. Elements(<<>>) = {} /\ Distinct(<<>>)
    BY <2>1 DEF Elements, Distinct
  <2>3. \A r \in RelationNodes : OrderGraph[r] # {}
    <3>1. \A r \in RelationNodes : r \notin Rules /\ Reads(program, r) # {}
      BY <1>2, ProgramFacts DEF RelationNodes
    <3> QED BY <3>1 DEF OrderGraph
  <2>4. Met(RelationNodes, OrderGraph, <<>>) = {}
    BY <2>2, <2>3 DEF Met
  <2>5. waiting' = [x \in Rules \cup RelationNodes |-> Cardinality(OrderGraph[x])]
    BY <1>1 DEF OrderGraph
  <2>6. \A x \in Rules \cup RelationNodes :
            OrderGraph[x] \ (IF x \in Rules THEN Met(RelationNodes, OrderGraph, <<>>)
                             ELSE Elements(<<>>)) = OrderGraph[x]
    BY <2>2, <2>4
  <2>7. waiting' = [x \in Rules \cup RelationNodes |-> Cardinality(
            OrderGraph[x] \ (IF x \in Rules THEN Met(RelationNodes, OrderGraph, <<>>)
                             ELSE Elements(<<>>)))]
    BY <2>5, <2>6
  <2>8. Bare(RuleGraph, {}) /\ LeastFirst(Rules, DirectWaits, <<>>)
    BY <2>1 DEF Bare, LeastFirst
  <2>9. ready' = {x \in Rules \ Elements(<<>>) : waiting'[x] = 0}
    BY <1>1, <2>2
  <2> QED BY <2>1, <2>2, <2>7, <2>8, <2>9 DEF OrderState
<1>5. OrderState(Rules, RelationNodes', OrderGraph', DirectWaits', RuleGraph',
                 waiting', ready', order')
  BY <1>1, <1>2, <1>4, Kept
<1>6. /\ WellFormed(program)' /\ UnknownRules' = {} /\ Bare(SearchGraph', DerivedRelations')
      /\ NamesCycle(Rules, Relations, Readers', NeedsGraph', error')
  BY <1>1, <1>2, <1>3, Kept
<1>7. Verdict'
  BY <1>1, <1>2, <1>6 DEF Verdict
<1> QED BY <1>1, <1>2, <1>5, <1>6, <1>7 DEF Inductive, Phases

LEMMA OrderFacts ==
    ASSUME Inductive, phase = "rules"
    PROVE  /\ WellFormed(program) /\ UnknownRules = {} /\ walk = <<>> /\ error = NoError
           /\ Bare(SearchGraph, DerivedRelations)
           /\ OrderState(Rules, RelationNodes, OrderGraph, DirectWaits, RuleGraph,
                         waiting, ready, order)
           /\ NamesCycle(Rules, Relations, Readers, NeedsGraph, error)
           /\ OrderGraphs(Rules, RelationNodes, OrderGraph, DirectWaits, RuleGraph)
<1>1. /\ WellFormed(program) /\ UnknownRules = {} /\ walk = <<>> /\ error = NoError
      /\ Bare(SearchGraph, DerivedRelations)
      /\ OrderState(Rules, RelationNodes, OrderGraph, DirectWaits, RuleGraph,
                    waiting, ready, order)
      /\ NamesCycle(Rules, Relations, Readers, NeedsGraph, error)
  BY DEF Inductive, Verdict
<1> QED BY <1>1, OrderGraphsHold

LEMMA OrderRuleStep == ASSUME Inductive, OrderRule PROVE Inductive'
<1>0. PICK name : name = Least(ready)
  OBVIOUS
<1>1. /\ phase = "rules" /\ ready # {} /\ order' = Append(order, name)
      /\ waiting' = [x \in DOMAIN waiting |-> waiting[x] -
                       IF x \in Rules THEN Cardinality(RuleWaits(x) \cap Satisfied(name))
                       ELSE Cardinality(Reads(program, x) \cap {name})]
      /\ ready' = (ready \ {name}) \cup {x \in Rules : waiting'[x] = 0 /\ waiting[x] > 0}
      /\ UNCHANGED <<program, phase, walk, error>>
  BY <1>0 DEF OrderRule
<1>2. /\ WellFormed(program) /\ UnknownRules = {} /\ walk = <<>> /\ error = NoError
      /\ Bare(SearchGraph, DerivedRelations)
      /\ OrderState(Rules, RelationNodes, OrderGraph, DirectWaits, RuleGraph,
                    waiting, ready, order)
      /\ NamesCycle(Rules, Relations, Readers, NeedsGraph, error)
      /\ OrderGraphs(Rules, RelationNodes, OrderGraph, DirectWaits, RuleGraph)
  BY <1>1, OrderFacts
<1>3. DOMAIN waiting = Rules \cup RelationNodes
  BY <1>2 DEF OrderState
<1>4. Rules \cap RelationNodes = {}
  BY <1>2 DEF OrderGraphs
<1>5. Satisfied(name) = Meets(RelationNodes, OrderGraph, waiting, name)
  <2>1. \A r \in RelationNodes : OrderGraph[r] = Reads(program, r)
    BY <1>4 DEF OrderGraph
  <2> QED BY <2>1 DEF Satisfied, Meets
<1>6. waiting' = OrderCount(Rules, RelationNodes, OrderGraph, waiting, name)
  BY <1>1, <1>3, <1>5 DEF OrderCount, OrderGraph
<1>7. ready' = OrderReady(Rules, RelationNodes, OrderGraph, waiting, ready)
  BY <1>0, <1>1, <1>6 DEF OrderReady
<1>8. OrderState(Rules, RelationNodes, OrderGraph, DirectWaits, RuleGraph,
                 OrderCount(Rules, RelationNodes, OrderGraph, waiting, Least(ready)),
                 OrderReady(Rules, RelationNodes, OrderGraph, waiting, ready),
                 Append(order, Least(ready)))
  BY <1>1, <1>2, OrderStep
<1>9. OrderState(Rules, RelationNodes', OrderGraph', DirectWaits', RuleGraph',
                 waiting', ready', order')
  BY <1>0, <1>1, <1>6, <1>7, <1>8, Kept
<1>10. /\ WellFormed(program)' /\ UnknownRules' = {} /\ Bare(SearchGraph', DerivedRelations')
       /\ NamesCycle(Rules, Relations, Readers', NeedsGraph', error')
  BY <1>1, <1>2, Kept
<1>11. Verdict'
  BY <1>1, <1>2, <1>10 DEF Verdict
<1> QED BY <1>1, <1>2, <1>9, <1>10, <1>11 DEF Inductive, Phases

(* What the order leaves waits for what it leaves, directly or through a   *)
(* relation whose predicate reads some rule left.                          *)
LEMMA RefuseCycleStep == ASSUME Inductive, RefuseCycle PROVE Inductive'
<1>1. /\ phase = "rules" /\ ready = {} /\ Len(order) # Cardinality(Rules)
      /\ Refuse("cyclic_rules", {x \in Rules : waiting[x] > 0})
  BY DEF RefuseCycle
<1>2. /\ WellFormed(program) /\ UnknownRules = {}
      /\ OrderState(Rules, RelationNodes, OrderGraph, DirectWaits, RuleGraph,
                    waiting, ready, order)
      /\ OrderGraphs(Rules, RelationNodes, OrderGraph, DirectWaits, RuleGraph)
  BY <1>1, OrderFacts
<1>3. PICK E, M, B, C : /\ E = Elements(order) /\ M = Met(RelationNodes, OrderGraph, order)
                        /\ B = {x \in Rules : waiting[x] > 0}
                        /\ C = {r \in RelationNodes : Reads(program, r) \cap B # {}}
  OBVIOUS
<1>4. /\ IsFiniteSet(Rules) /\ Rules \subseteq Readers /\ RelationNodes \subseteq Readers
      /\ RelationNodes \subseteq DerivedRelations
      /\ Rules \cap RelationNodes = {}
      /\ \A x \in Readers : Reads(program, x) \subseteq Rules
  BY <1>2, ProgramFacts, ReadsAreRules DEF Readers
<1>5. E \subseteq Rules /\ E # Rules
  <2>1. order \in Seq(Rules) /\ Distinct(order)
    BY <1>2 DEF OrderState
  <2> QED BY <1>1, <1>3, <1>4, <2>1, AllOrdered
<1>6. /\ \A x \in Rules : waiting[x] = Cardinality(OrderGraph[x] \ M) /\ IsFiniteSet(OrderGraph[x])
      /\ \A x \in Rules \ E : waiting[x] # 0
      /\ \A x \in E : OrderGraph[x] \subseteq M
  BY <1>1, <1>2, <1>3 DEF OrderState, OrderGraphs
<1>7. \A x \in Rules : OrderGraph[x] = RuleWaits(x)
  BY DEF OrderGraph
<1>8. \A r \in RelationNodes : OrderGraph[r] = Reads(program, r)
  BY <1>4 DEF OrderGraph
<1>9. M = E \cup {r \in RelationNodes : Reads(program, r) \subseteq E}
  BY <1>3, <1>8 DEF Met
<1>10. ASSUME NEW x \in Rules
       PROVE  /\ waiting[x] \in Nat
              /\ waiting[x] = 0 <=> RuleWaits(x) \subseteq M
  <2>1. PICK A : A = RuleWaits(x) \ M
    OBVIOUS
  <2>2. IsFiniteSet(A) /\ waiting[x] = Cardinality(A)
    BY <1>6, <1>7, <2>1, FS_Difference
  <2>3. Cardinality(A) \in Nat /\ (Cardinality(A) = 0 <=> A = {})
    BY <2>2, FS_EmptySet, FS_CardinalityType
  <2> QED BY <2>1, <2>2, <2>3
<1>11. B = Rules \ E
  <2>1. \A x \in Rules : waiting[x] > 0 <=> waiting[x] # 0
    <3> TAKE x \in Rules
    <3>1. waiting[x] \in Nat
      BY <1>10
    <3> QED BY <3>1
  <2>2. \A x \in E : waiting[x] = 0
    BY <1>5, <1>6, <1>7, <1>10
  <2> QED BY <1>3, <1>6, <2>1, <2>2
<1>12. PICK S : S = B \cup C
  OBVIOUS
<1>13. S \subseteq Readers /\ S \cap Rules = B /\ B # {}
  BY <1>3, <1>4, <1>5, <1>11, <1>12
<1>14. ASSUME NEW x \in S PROVE Needs(x) \cap S # {}
  <2>0. /\ Reads(program, x) \subseteq Needs(x)
        /\ Aggregated(x) \cap DerivedRelations \subseteq Needs(x)
    BY <1>2, <1>13, EdgesNeeded
  <2>1. CASE x \in C
    BY <1>3, <1>12, <2>0, <2>1
  <2>2. CASE x \in B
    <3>1. x \in Rules /\ waiting[x] # 0
      BY <1>6, <1>11, <2>2
    <3>2. PICK z \in RuleWaits(x) : z \notin M
      BY <1>10, <3>1
    <3>3. CASE z \in Reads(program, x)
      <4>1. z \in Rules \ E
        BY <1>4, <1>9, <3>1, <3>2, <3>3
      <4> QED BY <1>11, <1>12, <2>0, <3>3, <4>1
    <3>4. CASE z \in Aggregated(x) \cap RelationNodes
      <4>1. PICK w \in Reads(program, z) : w \notin E
        BY <1>9, <3>2, <3>4
      <4>2. w \in B
        BY <1>4, <1>11, <3>4, <4>1
      <4>3. z \in C
        BY <1>3, <3>4, <4>1, <4>2
      <4> QED BY <1>4, <1>12, <2>0, <3>4, <4>3
    <3> QED BY <3>2, <3>3, <3>4 DEF RuleWaits
  <2> QED BY <1>12, <2>1, <2>2
<1>15. NamesCycle(Rules, Relations, Readers, NeedsGraph, [kind |-> "cyclic_rules", names |-> B])
  <2>1. S \cap Rules # {} /\ S \cap Rules \subseteq B
    BY <1>13
  <2> QED BY <1>2, <1>13, <1>14, <2>1, CycleNamed
<1> QED BY <1>1, <1>3, <1>15, Refused

(* The whole order, once it is as long as there are rules.                 *)
LEMMA WholeOrder ==
    ASSUME Inductive, phase = "rules", Len(order) = Cardinality(Rules)
    PROVE  Ordered(Rules, DirectWaits, order) /\ Bare(RuleGraph, Rules)
<1>1. /\ WellFormed(program)
      /\ OrderState(Rules, RelationNodes, OrderGraph, DirectWaits, RuleGraph,
                    waiting, ready, order)
  BY OrderFacts
<1>2. /\ order \in Seq(Rules) /\ Distinct(order) /\ LeastFirst(Rules, DirectWaits, order)
      /\ Bare(RuleGraph, Elements(order))
  BY <1>1 DEF OrderState
<1>3. IsFiniteSet(Rules)
  BY <1>1, ProgramFacts
<1>4. Elements(order) = Rules
  BY <1>2, <1>3, AllOrdered
<1> QED BY <1>2, <1>4 DEF Ordered

-----------------------------------------------------------------------------
(* Nothing is satisfied when the walk starts.                              *)
LEMMA StartWalkStep == ASSUME Inductive, StartWalk PROVE Inductive'
<1>1. /\ phase = "rules" /\ Len(order) = Cardinality(Rules)
      /\ waiting' = [x \in Readers |-> Cardinality(Waits(x))]
      /\ ready' = {x \in Readers : waiting'[x] = 0}
      /\ phase' = "routed" /\ UNCHANGED <<program, order, walk, error>>
  BY DEF StartWalk
<1>2. /\ WellFormed(program) /\ UnknownRules = {} /\ walk = <<>> /\ error = NoError
      /\ Bare(SearchGraph, DerivedRelations)
      /\ NamesCycle(Rules, Relations, Readers, NeedsGraph, error)
      /\ Ordered(Rules, DirectWaits, order)
  BY <1>1, OrderFacts, WholeOrder
<1>3. waiting' = [x \in Readers |-> Cardinality(WalkGraph[x])]
  BY <1>1 DEF WalkGraph
<1>4. Settled(Readers, waiting', ready') = {}
  BY <1>1 DEF Settled
<1>5. WalkState(Readers, WalkGraph, waiting', ready')
  <2>1. Bare(WalkGraph, {}) /\ \A A : A \ {} = A
    BY DEF Bare
  <2>2. waiting' = [x \in Readers |-> Cardinality(WalkGraph[x] \ {})]
    BY <1>3, <2>1
  <2>3. ready' \subseteq Readers /\ \A x \in ready' : waiting'[x] = 0
    BY <1>1
  <2> QED BY <1>4, <2>1, <2>2, <2>3 DEF WalkState
<1>6. WalkOrder(Rules, DerivedRelations, WalkGraph, RoutedWaits,
                Settled(Readers, waiting', ready'), <<>>)
  <2>1. <<>> \in Seq(Rules) /\ Len(<<>>) = 0 /\ 1..0 = {}
    OBVIOUS
  <2>2. Elements(<<>>) = {} /\ Distinct(<<>>) /\ LeastFirst(Rules, RoutedWaits, <<>>)
    BY <2>1 DEF Elements, Distinct, LeastFirst
  <2> QED BY <1>4, <2>1, <2>2 DEF WalkOrder
<1>7. /\ WalkState(Readers', WalkGraph', waiting', ready')
      /\ WalkOrder(Rules, DerivedRelations', WalkGraph', RoutedWaits',
                   Settled(Readers', waiting', ready'), walk')
      /\ Ordered(Rules, DirectWaits', order')
      /\ WellFormed(program)' /\ UnknownRules' = {} /\ Bare(SearchGraph', DerivedRelations')
      /\ NamesCycle(Rules, Relations, Readers', NeedsGraph', error')
  BY <1>1, <1>2, <1>5, <1>6, Kept
<1>8. Verdict'
  BY <1>1, <1>2, <1>7 DEF Verdict
<1> QED BY <1>1, <1>7, <1>8 DEF Inductive, Phases

LEMMA WalkFacts ==
    ASSUME Inductive, phase = "routed"
    PROVE  /\ WellFormed(program) /\ UnknownRules = {} /\ error = NoError
           /\ Bare(SearchGraph, DerivedRelations)
           /\ NamesCycle(Rules, Relations, Readers, NeedsGraph, error)
           /\ Ordered(Rules, DirectWaits, order)
           /\ WalkState(Readers, WalkGraph, waiting, ready)
           /\ HasAtoms => WalkOrder(Rules, DerivedRelations, WalkGraph, RoutedWaits,
                                    Settled(Readers, waiting, ready), walk)
           /\ WalkGraphs(Rules, DerivedRelations, WalkGraph, RoutedWaits)
           /\ \A x \in Readers : IsFiniteSet(WalkGraph[x]) /\ WalkGraph[x] = Waits(x)
<1>1. /\ WellFormed(program) /\ UnknownRules = {} /\ error = NoError
      /\ Bare(SearchGraph, DerivedRelations)
      /\ NamesCycle(Rules, Relations, Readers, NeedsGraph, error)
      /\ Ordered(Rules, DirectWaits, order)
      /\ WalkState(Readers, WalkGraph, waiting, ready)
      /\ HasAtoms => WalkOrder(Rules, DerivedRelations, WalkGraph, RoutedWaits,
                               Settled(Readers, waiting, ready), walk)
  BY DEF Inductive, Verdict
<1>2. WalkGraphs(Rules, DerivedRelations, WalkGraph, RoutedWaits)
  BY <1>1, WalkGraphsHold
<1>3. \A x \in Readers : IsFiniteSet(WalkGraph[x])
  BY <1>2 DEF WalkGraphs, Readers
<1> QED BY <1>1, <1>2, <1>3 DEF WalkGraph

LEMMA SatisfyStep == ASSUME Inductive, Satisfy PROVE Inductive'
<1>1. PICK x \in ready :
          /\ phase = "routed" /\ Chosen(x)
          /\ walk' = IF HasAtoms /\ x \in Rules THEN Append(walk, x) ELSE walk
          /\ waiting' = [y \in Readers |-> waiting[y] - IF x \in Waits(y) THEN 1 ELSE 0]
          /\ ready' = (ready \ {x}) \cup {y \in Readers : waiting'[y] = 0 /\ waiting[y] > 0}
          /\ UNCHANGED <<program, phase, order, error>>
  BY DEF Satisfy
<1>2. /\ WellFormed(program) /\ UnknownRules = {} /\ error = NoError
      /\ Bare(SearchGraph, DerivedRelations)
      /\ NamesCycle(Rules, Relations, Readers, NeedsGraph, error)
      /\ Ordered(Rules, DirectWaits, order)
      /\ WalkState(Readers, WalkGraph, waiting, ready)
      /\ HasAtoms => WalkOrder(Rules, DerivedRelations, WalkGraph, RoutedWaits,
                               Settled(Readers, waiting, ready), walk)
      /\ WalkGraphs(Rules, DerivedRelations, WalkGraph, RoutedWaits)
      /\ \A y \in Readers : IsFiniteSet(WalkGraph[y]) /\ WalkGraph[y] = Waits(y)
  BY <1>1, WalkFacts
<1>3. waiting' = WalkCount(Readers, WalkGraph, waiting, x)
  BY <1>1, <1>2 DEF WalkCount
<1>4. ready' = WalkReady(Readers, WalkGraph, waiting, ready, x)
  BY <1>1, <1>3 DEF WalkReady
<1>5. /\ WalkState(Readers, WalkGraph, waiting', ready')
      /\ Settled(Readers, waiting', ready') = Settled(Readers, waiting, ready) \cup {x}
  <2>1. \A y \in Readers : IsFiniteSet(WalkGraph[y])
    BY <1>2
  <2>2. /\ WalkState(Readers, WalkGraph, WalkCount(Readers, WalkGraph, waiting, x),
                     WalkReady(Readers, WalkGraph, waiting, ready, x))
        /\ Settled(Readers, WalkCount(Readers, WalkGraph, waiting, x),
                   WalkReady(Readers, WalkGraph, waiting, ready, x)) =
               Settled(Readers, waiting, ready) \cup {x}
    BY <1>2, <2>1, WalkStep
  <2> QED BY <1>3, <1>4, <2>2
<1>6. ASSUME HasAtoms
      PROVE  WalkOrder(Rules, DerivedRelations, WalkGraph, RoutedWaits,
                       Settled(Readers, waiting', ready'), walk')
  <2>1. x \in Rules => ready \cap DerivedRelations = {} /\ x = Least(ready)
    <3>1. x \in Rules => x \notin Relations
      BY <1>2 DEF WellFormed
    <3>2. DerivedRelations \subseteq Relations
      BY DEF DerivedRelations
    <3> QED BY <1>1, <1>6, <3>1, <3>2 DEF Chosen
  <2>2. /\ WalkState(Rules \cup DerivedRelations, WalkGraph, waiting, ready)
        /\ WalkOrder(Rules, DerivedRelations, WalkGraph, RoutedWaits,
                     Settled(Rules \cup DerivedRelations, waiting, ready), walk)
    BY <1>2, <1>6 DEF Readers
  <2>3. WalkOrder(Rules, DerivedRelations, WalkGraph, RoutedWaits,
                  Settled(Rules \cup DerivedRelations, waiting, ready) \cup {x},
                  IF x \in Rules THEN Append(walk, x) ELSE walk)
    BY <1>2, <2>1, <2>2, WalkOrderStep
  <2>4. walk' = IF x \in Rules THEN Append(walk, x) ELSE walk
    BY <1>1, <1>6
  <2> QED BY <1>5, <2>3, <2>4 DEF Readers
<1>7. /\ WalkState(Readers', WalkGraph', waiting', ready')
      /\ HasAtoms' => WalkOrder(Rules, DerivedRelations', WalkGraph', RoutedWaits',
                                Settled(Readers', waiting', ready'), walk')
      /\ Ordered(Rules, DirectWaits', order')
      /\ WellFormed(program)' /\ UnknownRules' = {} /\ Bare(SearchGraph', DerivedRelations')
      /\ NamesCycle(Rules, Relations, Readers', NeedsGraph', error')
  BY <1>1, <1>2, <1>5, <1>6, Kept
<1>8. Verdict'
  BY <1>1, <1>2, <1>7 DEF Verdict
<1> QED BY <1>1, <1>7, <1>8 DEF Inductive, Phases

(* What stays blocked when nothing is ready waits for what is blocked, and *)
(* the rest is bare of cycles.                                             *)
LEMMA BlockedFacts ==
    ASSUME Inductive, phase = "routed", ready = {}
    PROVE  /\ Blocked \subseteq Readers
           /\ \A x \in Blocked : Waits(x) \cap Blocked # {}
           /\ Bare(WalkGraph, Readers \ Blocked)
           /\ Settled(Readers, waiting, ready) = Readers \ Blocked
<1>1. PICK done : done = Settled(Readers, waiting, ready)
  OBVIOUS
<1>2. /\ WellFormed(program) /\ UnknownRules = {}
      /\ WalkState(Readers, WalkGraph, waiting, ready)
      /\ \A x \in Readers : IsFiniteSet(WalkGraph[x]) /\ WalkGraph[x] = Waits(x)
  BY WalkFacts
<1>3. /\ Bare(WalkGraph, done)
      /\ \A x \in Readers : waiting[x] = Cardinality(WalkGraph[x] \ done)
  BY <1>1, <1>2 DEF WalkState
<1>4. ASSUME NEW x \in Readers
      PROVE  /\ waiting[x] \in Nat
             /\ waiting[x] = 0 <=> Waits(x) \subseteq done
  <2>1. PICK A : A = Waits(x) \ done
    OBVIOUS
  <2>2. IsFiniteSet(A) /\ waiting[x] = Cardinality(A)
    BY <1>2, <1>3, <2>1, FS_Difference
  <2>3. Cardinality(A) \in Nat /\ (Cardinality(A) = 0 <=> A = {})
    BY <2>2, FS_EmptySet, FS_CardinalityType
  <2> QED BY <2>1, <2>2, <2>3
<1>5. done = Readers \ Blocked
  <2>1. \A x \in Readers : waiting[x] > 0 <=> waiting[x] # 0
    <3> TAKE x \in Readers
    <3>1. waiting[x] \in Nat
      BY <1>4
    <3> QED BY <3>1
  <2> QED BY <1>1, <2>1 DEF Settled, Blocked
<1>6. Blocked \subseteq Readers
  BY DEF Blocked
<1>7. \A x \in Readers : Waits(x) \subseteq Readers
  <2> TAKE x \in Readers
  <2>1. Reads(program, x) \subseteq Rules
    BY <1>2, ReadsAreRules
  <2> QED BY <2>1 DEF Waits, Readers
<1>8. ASSUME NEW x \in Blocked PROVE Waits(x) \cap Blocked # {}
  <2>1. x \in Readers /\ x \notin done
    BY <1>5, <1>6
  <2>2. waiting[x] # 0
    BY <1>1, <2>1 DEF Settled
  <2>3. PICK z \in Waits(x) : z \notin done
    BY <1>4, <2>1, <2>2
  <2>4. z \in Blocked
    BY <1>5, <1>7, <2>1, <2>3
  <2> QED BY <2>4
<1> QED BY <1>1, <1>3, <1>5, <1>6, <1>8

LEMMA RefuseWalkedStep ==
    ASSUME Inductive, RefuseRoutedCycle \/ RefuseUnusedCycle
    PROVE  Inductive'
<1>1. phase = "routed" /\ ready = {}
  BY DEF RefuseRoutedCycle, RefuseUnusedCycle
<1>2. /\ WellFormed(program) /\ Blocked \subseteq Readers
      /\ \A x \in Blocked : Waits(x) \cap Blocked # {}
  BY <1>1, WalkFacts, BlockedFacts
<1>3. \A x \in Blocked : Needs(x) \cap Blocked # {}
  <2> TAKE x \in Blocked
  <2>1. Waits(x) \subseteq Needs(x)
    BY <1>2, EdgesNeeded
  <2> QED BY <1>2, <2>1
<1>4. CASE RefuseRoutedCycle
  <2>1. Blocked \cap Rules # {} /\ Refuse("cyclic_rules", Blocked \cap Rules)
    BY <1>4 DEF RefuseRoutedCycle
  <2>2. NamesCycle(Rules, Relations, Readers, NeedsGraph,
                   [kind |-> "cyclic_rules", names |-> Blocked \cap Rules])
    BY <1>2, <1>3, <2>1, CycleNamed
  <2> QED BY <2>1, <2>2, Refused
<1>5. CASE RefuseUnusedCycle
  <2>1. /\ Blocked \cap Rules = {} /\ Blocked # {}
        /\ Refuse("cyclic_relations", Blocked)
    BY <1>5 DEF RefuseUnusedCycle
  <2>2. Blocked \cap Relations # {} /\ Blocked \cap Relations \subseteq Blocked
    BY <1>2, <2>1 DEF Readers, DerivedRelations
  <2>3. NamesCycle(Rules, Relations, Readers, NeedsGraph,
                   [kind |-> "cyclic_relations", names |-> Blocked])
    BY <1>2, <1>3, <2>2, CycleNamed
  <2> QED BY <2>1, <2>3, Refused
<1> QED BY <1>4, <1>5

(* What is accepted is bare of cycles, and ordered.                        *)
LEMMA Accepted ==
    ASSUME Inductive, phase # "refused", NEW published, Accept(published),
           Bare(WalkGraph, Readers),
           Ordered(Rules, IF HasAtoms THEN RoutedWaits ELSE DirectWaits, published)
    PROVE  Inductive'
<1>1. /\ UNCHANGED <<program, error>> /\ phase' = "accepted" /\ order' = published
  BY DEF Accept
<1>2. /\ WellFormed(program) /\ error = NoError
      /\ NamesCycle(Rules, Relations, Readers, NeedsGraph, error)
  BY DEF Inductive, Verdict
<1>3. /\ WellFormed(program)' /\ NamesCycle(Rules, Relations, Readers', NeedsGraph', error')
      /\ Bare(WalkGraph', Readers')
      /\ Ordered(Rules, IF HasAtoms' THEN RoutedWaits' ELSE DirectWaits', order')
  BY <1>1, <1>2, Kept
<1>4. Verdict'
  BY <1>1, <1>2, <1>3 DEF Verdict
<1> QED BY <1>1, <1>3, <1>4 DEF Inductive, Phases

(* Without derived relations rules wait for nothing but rules.             *)
LEMMA AcceptWithoutRelationsStep ==
    ASSUME Inductive, AcceptWithoutRelations
    PROVE  Inductive'
<1>1. /\ phase = "rules" /\ Len(order) = Cardinality(Rules) /\ DerivedRelations = {}
      /\ Accept(order)
  BY DEF AcceptWithoutRelations
<1>2. Ordered(Rules, DirectWaits, order) /\ Bare(RuleGraph, Rules)
  BY <1>1, WholeOrder
<1>3. Readers = Rules
  BY <1>1 DEF Readers
<1>4. WalkGraph = RuleGraph
  <2>1. \A x : Waits(x) = Reads(program, x)
    BY <1>1 DEF Waits
  <2> QED BY <1>3, <2>1 DEF WalkGraph, RuleGraph
<1>5. RoutedWaits = DirectWaits
  <2>1. \A x : Through(x) = {} /\ Aggregated(x) \cap DerivedRelations = {}
    BY <1>1 DEF Through
  <2>2. \A x : PrecedesRouted(x) = Precedes(x)
    BY <2>1 DEF PrecedesRouted, Precedes
  <2> QED BY <2>2 DEF RoutedWaits, DirectWaits
<1> QED BY <1>1, <1>2, <1>3, <1>4, <1>5, Accepted

(* Without atoms what stays blocked are relations; the search has found    *)
(* that they form no cycle, so nothing is.                                 *)
LEMMA AcceptWalkedStep == ASSUME Inductive, AcceptWalked PROVE Inductive'
<1>1. /\ phase = "routed" /\ ready = {} /\ Blocked \cap Rules = {}
      /\ HasAtoms => Blocked = {}
      /\ Accept(IF HasAtoms THEN walk ELSE order)
  BY DEF AcceptWalked, Accept
<1>2. /\ WellFormed(program) /\ UnknownRules = {}
      /\ Bare(SearchGraph, DerivedRelations) /\ Ordered(Rules, DirectWaits, order)
      /\ HasAtoms => WalkOrder(Rules, DerivedRelations, WalkGraph, RoutedWaits,
                               Settled(Readers, waiting, ready), walk)
  BY <1>1, WalkFacts
<1>3. /\ Blocked \subseteq Readers
      /\ \A x \in Blocked : Waits(x) \cap Blocked # {}
      /\ Bare(WalkGraph, Readers \ Blocked)
      /\ Settled(Readers, waiting, ready) = Readers \ Blocked
  BY <1>1, BlockedFacts
<1>4. Blocked = {}
  <2>1. CASE HasAtoms
    BY <1>1, <2>1
  <2>2. CASE ~HasAtoms
    <3>1. Blocked \subseteq DerivedRelations
      BY <1>1, <1>3 DEF Readers
    <3>2. ASSUME NEW x \in Blocked PROVE SearchGraph[x] \cap Blocked # {}
      <4>1. x \in DerivedRelations /\ x \in Readers /\ x \notin Rules
        BY <1>1, <1>3, <3>1
      <4>2. SearchGraph[x] = (Sources(program, x) \cup Walked(x)) \cap DerivedRelations
        BY <4>1 DEF SearchGraph, RelationWaits
      <4>3. Reads(program, x) \subseteq Rules
        BY <1>2, <4>1, ReadsAreRules
      <4>4. Waits(x) = Reads(program, x) \cup SearchGraph[x]
        BY <2>2, <4>1, <4>2 DEF Waits, Extra
      <4> QED BY <1>1, <1>3, <4>3, <4>4
    <3> QED BY <1>2, <3>1, <3>2 DEF Bare
  <2> QED BY <2>1, <2>2
<1>5. Bare(WalkGraph, Readers)
  <2>1. Readers \ Blocked = Readers
    BY <1>4
  <2> QED BY <1>3, <2>1
<1>6. CASE HasAtoms
  <2>1. WalkOrder(Rules, DerivedRelations, WalkGraph, RoutedWaits, Readers, walk)
    <3>1. Settled(Readers, waiting, ready) = Readers
      BY <1>3, <1>4
    <3> QED BY <1>2, <1>6, <3>1
  <2>2. Bare(WalkGraph, DerivedRelations)
    BY <1>5, BareSubset DEF Readers
  <2>3. Readers \cap Rules = Rules
    BY DEF Readers
  <2>4. Ordered(Rules, RoutedWaits, walk)
    BY <2>1, <2>2, <2>3 DEF WalkOrder, Ordered
  <2> QED BY <1>1, <1>5, <1>6, <2>4, Accepted
<1>7. CASE ~HasAtoms
  BY <1>1, <1>2, <1>5, <1>7, Accepted
<1> QED BY <1>6, <1>7

-----------------------------------------------------------------------------
LEMMA InductiveNext == Inductive /\ [Next]_vars => Inductive'
<1> SUFFICES ASSUME Inductive, [Next]_vars PROVE Inductive'
  OBVIOUS
<1>1. CASE RefuseUnknownRelation \/ RefuseUnknownRule
  BY <1>1, RefuseUnknownStep
<1>2. CASE SearchRoot
  BY <1>2, SearchRootStep
<1>3. CASE PassFinished
  BY <1>3, PassFinishedStep
<1>4. CASE CloseCycle
  BY <1>4, CloseCycleStep
<1>5. CASE Enter
  BY <1>5, EnterStep
<1>6. CASE Leave
  BY <1>6, LeaveStep
<1>7. CASE StartOrder
  BY <1>7, StartOrderStep
<1>8. CASE OrderRule
  BY <1>8, OrderRuleStep
<1>9. CASE RefuseCycle
  BY <1>9, RefuseCycleStep
<1>10. CASE StartWalk
  BY <1>10, StartWalkStep
<1>11. CASE AcceptWithoutRelations
  BY <1>11, AcceptWithoutRelationsStep
<1>12. CASE Satisfy
  BY <1>12, SatisfyStep
<1>13. CASE RefuseRoutedCycle \/ RefuseUnusedCycle
  BY <1>13, RefuseWalkedStep
<1>14. CASE AcceptWalked
  BY <1>14, AcceptWalkedStep
<1>15. CASE UNCHANGED vars
  <2>1. UNCHANGED <<program, phase, path, finished, waiting, ready, order, walk, error>>
    BY <1>15 DEF vars
  <2>2. /\ WellFormed(program)' = WellFormed(program)
        /\ DerivedRelations' = DerivedRelations /\ Readers' = Readers
        /\ RelationNodes' = RelationNodes /\ HasAtoms' = HasAtoms
        /\ SearchGraph' = SearchGraph /\ RuleGraph' = RuleGraph
        /\ OrderGraph' = OrderGraph /\ WalkGraph' = WalkGraph
        /\ DirectWaits' = DirectWaits /\ RoutedWaits' = RoutedWaits
        /\ NeedsGraph' = NeedsGraph /\ UnknownRules' = UnknownRules
    BY <2>1, Kept
  <2>3. Verdict' = Verdict
    BY <2>1, <2>2 DEF Verdict
  <2> QED BY <2>1, <2>2, <2>3 DEF Inductive
<1> QED BY <1>1, <1>2, <1>3, <1>4, <1>5, <1>6, <1>7, <1>8, <1>9, <1>10, <1>11, <1>12, <1>13,
           <1>14, <1>15 DEF Next

(* Cycles are refused and named as the invariant has it.                   *)
LEMMA CyclesHold == Inductive => CyclesExact
<1> SUFFICES ASSUME Inductive PROVE CyclesExact
  OBVIOUS
<1>1. CyclesRefused
  <2> SUFFICES ASSUME phase = "accepted", NEW S \in SUBSET Readers, Circular(S, Noticed)
               PROVE  FALSE
    BY DEF CyclesRefused
  <2>1. Bare(WalkGraph, Readers)
    BY DEF Inductive, Verdict
  <2>2. S # {} /\ \A x \in S : Noticed(x) \cap S # {}
    BY DEF Circular
  <2>3. \A x \in S : WalkGraph[x] = Noticed(x)
    BY NoticedWaited DEF WalkGraph
  <2> QED BY <2>1, <2>2, <2>3 DEF Bare
<1>2. RefusalNamesCycle
  <2> SUFFICES ASSUME error.kind \in {"cyclic_rules", "cyclic_relations"}
               PROVE  \E S \in SUBSET Readers :
                          LET named == S \cap IF error.kind = "cyclic_rules" THEN Rules
                                              ELSE Relations
                          IN  Circular(S, Needs) /\ named # {} /\ named \subseteq error.names
    BY DEF RefusalNamesCycle
  <2>1. NamesCycle(Rules, Relations, Readers, NeedsGraph, error)
    BY DEF Inductive, Verdict
  <2>2. PICK S \in SUBSET Readers :
            /\ \A x \in S : NeedsGraph[x] \cap S # {}
            /\ S \cap (IF error.kind = "cyclic_rules" THEN Rules ELSE Relations) # {}
            /\ S \cap (IF error.kind = "cyclic_rules" THEN Rules ELSE Relations)
                   \subseteq error.names
    BY <2>1 DEF NamesCycle
  <2>3. \A x \in S : NeedsGraph[x] = Needs(x)
    BY DEF NeedsGraph
  <2>4. Circular(S, Needs)
    BY <2>2, <2>3 DEF Circular
  <2> QED BY <2>2, <2>4
<1> QED BY <1>1, <1>2 DEF CyclesExact

(* So is the order of the artifact.                                        *)
LEMMA OrderHolds == Inductive => OrderExact
<1> SUFFICES ASSUME Inductive, phase = "accepted" PROVE OrderExact
  BY DEF OrderExact
<1>1. PICK waits : waits = IF HasAtoms THEN RoutedWaits ELSE DirectWaits
  OBVIOUS
<1>2. WellFormed(program) /\ Ordered(Rules, waits, order)
  BY <1>1 DEF Inductive, Verdict
<1>3. Len(order) = Cardinality(Rules)
  <2>1. IsFiniteSet(Rules) /\ order \in Seq(Rules) /\ Distinct(order) /\ Elements(order) = Rules
    BY <1>2, ProgramFacts DEF Ordered
  <2> QED BY <2>1, AllOrdered
<1>4. \A x \in Rules : waits[x] = IF HasAtoms THEN PrecedesRouted(x) ELSE Precedes(x)
  BY <1>1 DEF RoutedWaits, DirectWaits
<1>5. ASSUME NEW i \in 1..Cardinality(Rules)
      PROVE  order[i] = Least({x \in Rules \ Listed(order, i) :
                 (IF HasAtoms THEN PrecedesRouted(x) ELSE Precedes(x)) \subseteq Listed(order, i)})
  <2>1. order[i] = Least({x \in Rules \ Listed(order, i) : waits[x] \subseteq Listed(order, i)})
    BY <1>2, <1>3 DEF Ordered, LeastFirst
  <2>2. {x \in Rules \ Listed(order, i) : waits[x] \subseteq Listed(order, i)} =
            {x \in Rules \ Listed(order, i) :
                (IF HasAtoms THEN PrecedesRouted(x) ELSE Precedes(x)) \subseteq Listed(order, i)}
    BY <1>4
  <2> QED BY <2>1, <2>2
<1> QED BY <1>5 DEF OrderExact, Listed

(* For every program: a program is accepted only without a cycle and a     *)
(* refusal as cyclic names one, and each rule of the artifact's order is   *)
(* the least whose waits, direct ones or those through any relations, are  *)
(* listed before it (`evaluation_order` in compile.rs).                    *)
THEOREM OrderCorrect == OrderSpec => [](CyclesExact /\ OrderExact)
<1>1. Start /\ WellFormed(program) => Inductive
  BY InductiveInit
<1>2. Inductive /\ [Next]_vars => Inductive'
  BY InductiveNext
<1>3. Inductive => CyclesExact /\ OrderExact
  BY CyclesHold, OrderHolds
<1> QED BY <1>1, <1>2, <1>3, PTL DEF OrderSpec
=============================================================================
