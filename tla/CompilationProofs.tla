-------------------------- MODULE CompilationProofs --------------------------
(***************************************************************************)
(* Theorems about Compilation for every program: the order its passes find *)
(* stays exact while lowering, typing, the interface and evaluation run    *)
(* around them (OrderExact); the typing check keeps its promise to         *)
(* evaluation: in an accepted program ids and slots only meet on one kind  *)
(* (KindsMeet); the relations the walk collects are those evaluation can   *)
(* come to read, none fewer and none more (ExecutedExact); the tables of   *)
(* kinds are what each relation's and each entity's own chain leads to     *)
(* (KindsExact); and the published interface names every kind an input is  *)
(* read on and every slot a relation is looked up by (InterfaceCovers).    *)
(***************************************************************************)
EXTENDS Compilation, SequenceTheorems, FiniteSetTheorems, WellFoundedInduction, TLAPS

-----------------------------------------------------------------------------
(* Every nonempty set of numbers has a least one. *)
LEMMA LeastNumber ==
    ASSUME NEW S \in SUBSET Nat, S # {}
    PROVE  \E m \in S : \A k \in S : m <= k
<1> DEFINE R == OpToRel(<, Nat)
<1>1. IsWellFoundedOn(R, Nat) BY NatLessThanWellFounded
<1>2. \A x, y \in Nat : x < y => <<x, y>> \in R BY DEF OpToRel
<1> HIDE DEF R
<1>3. PICK m \in S : \A k \in S : <<k, m>> \notin R BY <1>1, WFMin
<1>4. \A k \in S : m <= k
  <2> TAKE k \in S
  <2>1. k \in Nat /\ m \in Nat /\ ~(k < m) BY <1>2, <1>3
  <2> QED BY <2>1
<1> QED BY <1>4

(* ... and what each number has when all after it have, all have. *)
LEMMA Downward ==
    ASSUME NEW N \in Nat, NEW A,
           \A i \in 1..N : (\A j \in 1..N : j > i => j \in A) => i \in A
    PROVE  1..N \subseteq A
<1> DEFINE Out == {n \in Nat : \E i \in 1..N : i \notin A /\ n = N - i}
<1> SUFFICES ASSUME NEW k \in 1..N, k \notin A PROVE FALSE OBVIOUS
<1>1. N - k \in Out OBVIOUS
<1>2. PICK m \in Out : \A n \in Out : m <= n BY <1>1, LeastNumber
<1>3. PICK i \in 1..N : i \notin A /\ m = N - i BY <1>2
<1>4. \A j \in 1..N : j > i => j \in A
  <2> SUFFICES ASSUME NEW j \in 1..N, j > i, j \notin A PROVE FALSE OBVIOUS
  <2>1. N - j \in Out OBVIOUS
  <2> HIDE DEF Out
  <2> QED BY <1>2, <1>3, <2>1
<1> QED BY <1>3, <1>4

(* What is computed of each node from what its body's nodes give, `below`. *)
Gathers(lo, N, below, h, f) ==
    \A i \in lo..N : f[i] = h[<<i, UNION {f[j] : j \in below[i]}>>]

LEMMA Gathering ==
    ASSUME NEW N \in Nat, NEW V, NEW below \in [1..N -> SUBSET (1..N)],
           \A i \in 1..N : \A j \in below[i] : j > i,
           NEW h \in [(1..N) \X SUBSET V -> SUBSET V]
    PROVE  \E f \in [1..N -> SUBSET V] : Gathers(1, N, below, h, f)
<1> DEFINE Given(n) == \E f \in [(N - n + 1)..N -> SUBSET V] : Gathers(N - n + 1, N, below, h, f)
           Missing == {n \in 0..N : ~Given(n)}
<1> SUFFICES ASSUME Missing # {} PROVE FALSE
  <2>1. N \in 0..N /\ N - N + 1 = 1 OBVIOUS
  <2>2. Given(N) BY <2>1
  <2> QED BY <2>1, <2>2
<1>1. Missing \in SUBSET Nat OBVIOUS
<1> HIDE DEF Missing
<1>2. PICK m \in Missing : \A k \in Missing : m <= k BY <1>1, LeastNumber
<1>3. m \in 0..N /\ ~Given(m) BY <1>2 DEF Missing
<1>4. CASE m = 0
  <2> DEFINE f == [i \in (N - m + 1)..N |-> {}]
  <2>1. f \in [(N - m + 1)..N -> SUBSET V] OBVIOUS
  <2>2. \A i : i \notin (N - m + 1)..N BY <1>4
  <2>3. Gathers(N - m + 1, N, below, h, f) BY <2>2 DEF Gathers
  <2> QED BY <1>3, <2>1, <2>3
<1>5. CASE m # 0
  <2>1. m - 1 \in 0..N /\ m - 1 < m /\ N - (m - 1) + 1 = N - m + 2 BY <1>3, <1>5
  <2>2. m - 1 \notin Missing BY <1>2, <1>1, <2>1
  <2>3. Given(m - 1) BY <2>1, <2>2 DEF Missing
  <2>4. PICK g \in [(N - m + 2)..N -> SUBSET V] : Gathers(N - m + 2, N, below, h, g)
    BY <2>1, <2>3
  <2> DEFINE lo == N - m + 1
  <2>5. lo \in 1..N /\ lo \in Nat /\ lo + 1 = N - m + 2 BY <1>3, <1>5
  <2>6. \A i \in 1..N : \A j \in below[i] : i >= lo => j \in (lo + 1)..N BY <2>5
  <2> HIDE DEF lo
  <2> DEFINE first == h[<<lo, UNION {g[j] : j \in below[lo]}>>]
             f == [i \in lo..N |-> IF i = lo THEN first ELSE g[i]]
  <2>7. \A i \in (lo + 1)..N : g[i] \in SUBSET V BY <2>4, <2>5
  <2>8. first \in SUBSET V
    <3>1. UNION {g[j] : j \in below[lo]} \in SUBSET V BY <2>5, <2>6, <2>7
    <3> QED BY <2>5, <3>1
  <2>9. \A i \in lo..N : i = lo \/ i \in (lo + 1)..N BY <2>5
  <2>10. f \in [lo..N -> SUBSET V] BY <2>7, <2>8, <2>9
  <2>11. f[lo] = first /\ \A i \in (lo + 1)..N : f[i] = g[i] BY <2>5
  <2> HIDE DEF f
  <2>12. \A i \in lo..N : {f[j] : j \in below[i]} = {g[j] : j \in below[i]}
    <3> TAKE i \in lo..N
    <3>1. i \in 1..N /\ i >= lo BY <2>5
    <3>2. \A j \in below[i] : f[j] = g[j] BY <2>6, <2>11, <3>1
    <3> QED BY <3>2
  <2>13. Gathers(lo, N, below, h, f)
    <3> SUFFICES ASSUME NEW i \in lo..N
                 PROVE  f[i] = h[<<i, UNION {f[j] : j \in below[i]}>>]
      BY DEF Gathers
    <3>1. UNION {f[j] : j \in below[i]} = UNION {g[j] : j \in below[i]} BY <2>12
    <3>2. CASE i = lo BY <2>11, <3>1, <3>2
    <3>3. CASE i \in (lo + 1)..N BY <2>4, <2>5, <2>11, <3>1, <3>3 DEF Gathers
    <3> QED BY <2>9, <3>2, <3>3
  <2> QED BY <1>3, <2>10, <2>13 DEF lo
<1> QED BY <1>4, <1>5

(* What is computed by going on N times. *)
Follows(N, start, h, f) == f[0] = start /\ \A k \in 1..N : f[k] = h[<<k, f[k - 1]>>]

LEMMA Iterating ==
    ASSUME NEW N \in Nat, NEW V, NEW start \in V, NEW h \in [(1..N) \X V -> V]
    PROVE  \E f \in [0..N -> V] : Follows(N, start, h, f)
<1> DEFINE Undefined == {n \in 0..N : ~\E f \in [0..n -> V] : Follows(n, start, h, f)}
<1> SUFFICES ASSUME Undefined # {} PROVE FALSE
  <2>1. N \notin Undefined => \E f \in [0..N -> V] : Follows(N, start, h, f) OBVIOUS
  <2> QED BY <2>1
<1>1. Undefined \in SUBSET Nat OBVIOUS
<1> HIDE DEF Undefined
<1>2. PICK m \in Undefined : \A k \in Undefined : m <= k BY <1>1, LeastNumber
<1>3. /\ m \in 0..N /\ m \in Nat
      /\ \A f \in [0..m -> V] : ~Follows(m, start, h, f)
  BY <1>1, <1>2 DEF Undefined
<1>4. CASE m = 0
  <2> DEFINE f == [k \in 0..m |-> start]
  <2>1. f \in [0..m -> V] /\ f[0] = start /\ 1..m = {} BY <1>4
  <2>2. Follows(m, start, h, f) BY <2>1 DEF Follows
  <2> QED BY <1>3, <2>1, <2>2
<1>5. CASE m # 0
  <2>1. m - 1 \in 0..N /\ m - 1 \in Nat /\ m - 1 < m BY <1>3, <1>5
  <2>2. m - 1 \notin Undefined BY <1>2, <1>3, <2>1
  <2>3. PICK g \in [0..(m - 1) -> V] : Follows(m - 1, start, h, g)
    BY <2>1, <2>2 DEF Undefined
  <2>4. g[m - 1] \in V /\ h[<<m, g[m - 1]>>] \in V BY <1>3, <1>5, <2>1, <2>3
  <2> DEFINE f == [k \in 0..m |-> IF k = m THEN h[<<m, g[m - 1]>>] ELSE g[k]]
  <2>5. \A k \in 0..(m - 1) : f[k] = g[k] /\ g[k] \in V BY <1>3, <2>1, <2>3
  <2>6. f[m] = h[<<m, g[m - 1]>>] BY <1>3
  <2>7. f \in [0..m -> V] BY <1>3, <2>4, <2>5
  <2> HIDE DEF f
  <2>8. f[0] = start BY <2>1, <2>3, <2>5 DEF Follows
  <2>9. \A k \in 1..m : f[k] = h[<<k, f[k - 1]>>]
    <3> TAKE k \in 1..m
    <3>1. CASE k = m BY <1>3, <2>1, <2>5, <2>6, <3>1
    <3>2. CASE k # m
      <4>1. k \in 1..(m - 1) /\ k - 1 \in 0..(m - 1) /\ k \in 0..(m - 1) BY <1>3, <3>2
      <4>2. f[k] = g[k] /\ f[k - 1] = g[k - 1] BY <2>5, <4>1
      <4> QED BY <2>3, <4>1, <4>2 DEF Follows
    <3> QED BY <3>1, <3>2
  <2> QED BY <1>3, <2>7, <2>8, <2>9 DEF Follows
<1> QED BY <1>4, <1>5

(* The form of a program's nodes. *)
LEMMA NodeFacts ==
    ASSUME NEW p, ProgramForm(p)
    PROVE  /\ Len(p.nodes) \in Nat /\ DOMAIN p.nodes = 1..Len(p.nodes)
           /\ \A i \in 1..Len(p.nodes) :
                  /\ p.nodes[i] \in NodeForm(p) /\ p.nodes[i].body \in Bodies(p)
                  /\ Elements(p.nodes[i].body) \subseteq 1..Len(p.nodes)
                  /\ \A j \in Elements(p.nodes[i].body) : j > i
<1>1. p.nodes \in Seq(NodeForm(p)) BY DEF ProgramForm
<1>2. Len(p.nodes) \in Nat /\ DOMAIN p.nodes = 1..Len(p.nodes)
      /\ \A i \in 1..Len(p.nodes) : p.nodes[i] \in NodeForm(p)
  BY <1>1
<1>3. \A i \in 1..Len(p.nodes) : p.nodes[i].body \in Bodies(p) BY <1>2 DEF NodeForm
<1>4. \A b \in Bodies(p) : Elements(b) \subseteq 1..Len(p.nodes) BY DEF Bodies, Elements
<1> QED BY <1>2, <1>3, <1>4 DEF ProgramForm

LEMMA BodyElements ==
    ASSUME NEW p, NEW b \in Bodies(p)
    PROVE  Elements(b) \subseteq 1..Len(p.nodes)
BY DEF Bodies, Elements

(* What a body reads includes what its nodes read. *)
LEMMA RulesReadWithin ==
    ASSUME ProgramForm(program), NEW body \in Bodies(program), NEW k \in Elements(body)
    PROVE  LET n == program.nodes[k]
           IN  /\ n.op = "rule" => n.value \in RulesRead(body)
               /\ n.op \in {"unbound", "exists"} => RulesRead(n.body) \subseteq RulesRead(body)
<1> DEFINE N == Len(program.nodes)
           Gen(f) == [i \in DOMAIN program.nodes |->
               LET n == program.nodes[i]
               IN  IF n.op = "rule" THEN {n.value}
                   ELSE IF n.op \in {"unbound", "exists"} THEN UNION {f[j] : j \in Elements(n.body)}
                   ELSE {}]
           read == CHOOSE f : f = Gen(f)
           of(i, below) ==
               LET n == program.nodes[i]
               IN  IF n.op = "rule" THEN {n.value}
                   ELSE IF n.op \in {"unbound", "exists"} THEN below
                   ELSE {}
           below == [i \in 1..N |-> Elements(program.nodes[i].body)]
           h == [x \in (1..N) \X SUBSET Nat |-> of(x[1], x[2])]
<1>1. \A b : RulesRead(b) = UNION {read[i] : i \in Elements(b)} BY DEF RulesRead
<1>2. /\ N \in Nat /\ DOMAIN program.nodes = 1..N
      /\ \A i \in 1..N : /\ program.nodes[i] \in NodeForm(program)
                         /\ Elements(program.nodes[i].body) \subseteq 1..N
                         /\ \A j \in Elements(program.nodes[i].body) : j > i
  BY NodeFacts
<1>3. \A i \in 1..N : program.nodes[i].value \in Nat BY <1>2 DEF NodeForm
<1>4. \A f : Gen(f) = [i \in 1..N |-> of(i, UNION {f[j] : j \in Elements(program.nodes[i].body)})]
  BY <1>2
<1>5. \A i \in 1..N : \A S \in SUBSET Nat : of(i, S) \in SUBSET Nat BY <1>3
<1> HIDE DEF of, Gen, N
<1>6. below \in [1..N -> SUBSET (1..N)] /\ \A i \in 1..N : \A j \in below[i] : j > i
  BY <1>2
<1>7. h \in [(1..N) \X SUBSET Nat -> SUBSET Nat] BY <1>5
<1>8. \A i \in 1..N : below[i] = Elements(program.nodes[i].body) OBVIOUS
<1>9. \A i \in 1..N : \A S \in SUBSET Nat : h[<<i, S>>] = of(i, S) OBVIOUS
<1> HIDE DEF h, below
<1>10. PICK f \in [1..N -> SUBSET Nat] : Gathers(1, N, below, h, f)
  BY <1>2, <1>6, <1>7, Gathering
<1>11. f = Gen(f)
  <2>1. \A i \in 1..N : UNION {f[j] : j \in below[i]} \in SUBSET Nat BY <1>6, <1>10
  <2>2. \A i \in 1..N : f[i] = of(i, UNION {f[j] : j \in Elements(program.nodes[i].body)})
    BY <1>8, <1>9, <1>10, <2>1 DEF Gathers
  <2> QED BY <1>4, <1>10, <2>2
<1>12. read = Gen(read) BY <1>11
<1> HIDE DEF read
<1>13. \A i \in 1..N : read[i] = of(i, UNION {read[j] : j \in Elements(program.nodes[i].body)})
  BY <1>4, <1>12
<1>14. k \in 1..N /\ read[k] \subseteq RulesRead(body) BY <1>1, BodyElements DEF N
<1> QED BY <1>1, <1>13, <1>14 DEF of

(* The terms gathered of a body, node by node. *)
TermUseForm == [node : NodeForm(program), clause : Nat, bindings : Seq([relation : Nat, slot : Nat])]

LEMMA TermUsesGathered ==
    ASSUME ProgramForm(program)
    PROVE  \E uses :
               /\ \A b : TermUses(b) = UNION {uses[i] : i \in Elements(b)}
               /\ \A i \in 1..Len(program.nodes) :
                      /\ uses[i] \subseteq TermUseForm
                      /\ program.nodes[i].op \in TermOps =>
                             [node |-> program.nodes[i], clause |-> 0, bindings |-> <<>>] \in uses[i]
                      /\ \A use \in TermUses(program.nodes[i].body) :
                             Around(program.nodes[i], use) \in uses[i]
<1> DEFINE N == Len(program.nodes)
           Gen(f) == [i \in DOMAIN program.nodes |->
               LET n == program.nodes[i]
               IN  (IF n.op \in TermOps THEN {[node |-> n, clause |-> 0, bindings |-> <<>>]} ELSE {})
                   \cup {Around(n, use) : use \in UNION {f[j] : j \in Elements(n.body)}}]
           uses == CHOOSE f : f = Gen(f)
           of(i, below) ==
               LET n == program.nodes[i]
               IN  (IF n.op \in TermOps THEN {[node |-> n, clause |-> 0, bindings |-> <<>>]} ELSE {})
                   \cup {Around(n, use) : use \in below}
           Uses == TermUseForm
           below == [i \in 1..N |-> Elements(program.nodes[i].body)]
           h == [x \in (1..N) \X SUBSET Uses |-> of(x[1], x[2])]
<1>1. \A b : TermUses(b) = UNION {uses[i] : i \in Elements(b)} BY DEF TermUses
<1>2. /\ N \in Nat /\ DOMAIN program.nodes = 1..N
      /\ \A i \in 1..N : /\ program.nodes[i] \in NodeForm(program)
                         /\ Elements(program.nodes[i].body) \subseteq 1..N
                         /\ \A j \in Elements(program.nodes[i].body) : j > i
  BY NodeFacts
<1>3. \A i \in 1..N : program.nodes[i].relation \in Nat /\ program.nodes[i].slot \in Nat
  BY <1>2 DEF NodeForm
<1>4. \A f : Gen(f) = [i \in 1..N |-> of(i, UNION {f[j] : j \in Elements(program.nodes[i].body)})]
  BY <1>2
<1>5. \A i \in 1..N : \A S \in SUBSET Uses : of(i, S) \in SUBSET Uses
  <2> SUFFICES ASSUME NEW i \in 1..N, NEW S \in SUBSET Uses, NEW u \in of(i, S) PROVE u \in Uses
    OBVIOUS
  <2> DEFINE n == program.nodes[i]
  <2>1. [node |-> n, clause |-> 0, bindings |-> <<>>] \in Uses BY <1>2 DEF TermUseForm
  <2>2. ASSUME NEW use \in Uses PROVE Around(n, use) \in Uses
    <3>1. [relation |-> n.relation, slot |-> n.slot] \in [relation : Nat, slot : Nat]
      BY <1>3
    <3>2. use.bindings \in Seq([relation : Nat, slot : Nat]) /\ use.clause \in Nat /\ use.node \in NodeForm(program)
      BY DEF TermUseForm
    <3>3. <<[relation |-> n.relation, slot |-> n.slot]>> \o use.bindings \in Seq([relation : Nat, slot : Nat])
      BY <3>1, <3>2
    <3> QED BY <1>3, <3>2, <3>3 DEF Around, TermUseForm
  <2> QED BY <2>1, <2>2
<1> HIDE DEF of, Gen, N, Uses
<1>6. below \in [1..N -> SUBSET (1..N)] /\ \A i \in 1..N : \A j \in below[i] : j > i
  BY <1>2
<1>7. h \in [(1..N) \X SUBSET Uses -> SUBSET Uses] BY <1>5
<1>8. \A i \in 1..N : below[i] = Elements(program.nodes[i].body) OBVIOUS
<1>9. \A i \in 1..N : \A S \in SUBSET Uses : h[<<i, S>>] = of(i, S) OBVIOUS
<1> HIDE DEF h, below
<1>10. PICK f \in [1..N -> SUBSET Uses] : Gathers(1, N, below, h, f)
  BY <1>2, <1>6, <1>7, Gathering
<1>11. f = Gen(f)
  <2>1. \A i \in 1..N : UNION {f[j] : j \in below[i]} \in SUBSET Uses BY <1>6, <1>10
  <2>2. \A i \in 1..N : f[i] = of(i, UNION {f[j] : j \in Elements(program.nodes[i].body)})
    BY <1>8, <1>9, <1>10, <2>1 DEF Gathers
  <2> QED BY <1>4, <1>10, <2>2
<1>12. uses = Gen(uses) BY <1>11
<1> HIDE DEF uses
<1>13. \A i \in 1..N : uses[i] = of(i, UNION {uses[j] : j \in Elements(program.nodes[i].body)})
  BY <1>4, <1>12
<1>14. \A i \in 1..N : uses[i] = of(i, TermUses(program.nodes[i].body)) BY <1>1, <1>13
<1> DEFINE A == {i \in 1..N : uses[i] \subseteq Uses}
<1>15. ASSUME NEW i \in 1..N, \A j \in 1..N : j > i => j \in A PROVE i \in A
  <2>1. UNION {uses[j] : j \in Elements(program.nodes[i].body)} \in SUBSET Uses
    BY <1>2, <1>15
  <2>2. uses[i] \in SUBSET Uses BY <1>5, <1>13, <2>1
  <2> QED BY <2>2
<1> HIDE DEF A
<1>16. 1..N \subseteq A BY <1>2, <1>15, Downward
<1>17. \A i \in 1..N :
           /\ program.nodes[i].op \in TermOps =>
                  [node |-> program.nodes[i], clause |-> 0, bindings |-> <<>>] \in uses[i]
           /\ \A use \in TermUses(program.nodes[i].body) : Around(program.nodes[i], use) \in uses[i]
  BY <1>14 DEF of
<1> QED BY <1>1, <1>16, <1>17 DEF A, Uses, N

LEMMA TermUsesForm ==
    ASSUME ProgramForm(program), NEW body \in Bodies(program)
    PROVE  TermUses(body) \subseteq TermUseForm
<1>1. PICK uses : /\ \A b : TermUses(b) = UNION {uses[i] : i \in Elements(b)}
                  /\ \A i \in 1..Len(program.nodes) : uses[i] \subseteq TermUseForm
  BY TermUsesGathered
<1>2. \A i \in Elements(body) : uses[i] \subseteq TermUseForm BY <1>1, BodyElements
<1> QED BY <1>1, <1>2

(* The terms of a body include those of its nodes, seen from outside them. *)
LEMMA TermUsesWithin ==
    ASSUME ProgramForm(program), NEW body \in Bodies(program), NEW k \in Elements(body)
    PROVE  LET n == program.nodes[k]
           IN  /\ n.op \in TermOps =>
                      [node |-> n, clause |-> 0, bindings |-> <<>>] \in TermUses(body)
               /\ \A use \in TermUses(n.body) : Around(n, use) \in TermUses(body)
<1>1. k \in 1..Len(program.nodes) BY BodyElements
<1>2. PICK uses :
          /\ \A b : TermUses(b) = UNION {uses[i] : i \in Elements(b)}
          /\ \A i \in 1..Len(program.nodes) :
                 /\ program.nodes[i].op \in TermOps =>
                        [node |-> program.nodes[i], clause |-> 0, bindings |-> <<>>] \in uses[i]
                 /\ \A use \in TermUses(program.nodes[i].body) : Around(program.nodes[i], use) \in uses[i]
  BY TermUsesGathered
<1>3. uses[k] \subseteq TermUses(body) BY <1>2
<1> QED BY <1>1, <1>2, <1>3

(* The graph of a program of the given form is well formed. *)
LEMMA FiniteImage ==
    ASSUME NEW S, IsFiniteSet(S), NEW f
    PROVE  IsFiniteSet({f[x] : x \in S})
<1> DEFINE T == {f[x] : x \in S}
           g == [x \in S |-> f[x]]
<1>1. g \in Surjection(S, T) BY DEF Surjection
<1> QED BY <1>1, FS_Surjection

(* What is gathered from the nodes is among what they have of their own. *)
Amasses(N, below, own, f) == \A i \in 1..N : f[i] = own[i] \cup UNION {f[j] : j \in below[i]}

LEMMA GatheredWithin ==
    ASSUME NEW N \in Nat, NEW V, NEW below \in [1..N -> SUBSET (1..N)],
           \A i \in 1..N : \A j \in below[i] : j > i,
           NEW own \in [1..N -> SUBSET V], NEW f, Amasses(N, below, own, f)
    PROVE  \A i \in 1..N : f[i] \subseteq V
<1> DEFINE A == {i \in 1..N : f[i] \subseteq V}
<1>1. ASSUME NEW i \in 1..N, \A j \in 1..N : j > i => j \in A PROVE i \in A
  <2>1. \A j \in below[i] : f[j] \subseteq V BY <1>1
  <2>2. own[i] \subseteq V OBVIOUS
  <2>3. f[i] \subseteq V BY <2>1, <2>2 DEF Amasses
  <2> QED BY <2>3
<1> HIDE DEF A
<1>2. 1..N \subseteq A BY <1>1, Downward
<1> QED BY <1>2 DEF A

LEMMA RulesNamedFinite ==
    ASSUME NEW p, ProgramForm(p), NEW body \in Bodies(p)
    PROVE  RulesNamed(p, body) \subseteq Nat /\ IsFiniteSet(RulesNamed(p, body))
<1> DEFINE N == Len(p.nodes)
           Gen(f) == [i \in DOMAIN p.nodes |->
               ({p.nodes[i].value} \ {0}) \cup UNION {f[j] : j \in Elements(p.nodes[i].body)}]
           named == CHOOSE f : f = Gen(f)
           of(i, below) == ({p.nodes[i].value} \ {0}) \cup below
           value == [i \in 1..N |-> p.nodes[i].value]
           V == {value[i] : i \in 1..N}
           own == [i \in 1..N |-> {p.nodes[i].value} \ {0}]
           below == [i \in 1..N |-> Elements(p.nodes[i].body)]
           h == [x \in (1..N) \X SUBSET V |-> of(x[1], x[2])]
<1>1. \A b : RulesNamed(p, b) = UNION {named[i] : i \in Elements(b)} BY DEF RulesNamed
<1>2. /\ N \in Nat /\ DOMAIN p.nodes = 1..N
      /\ \A i \in 1..N : /\ p.nodes[i] \in NodeForm(p)
                         /\ Elements(p.nodes[i].body) \subseteq 1..N
                         /\ \A j \in Elements(p.nodes[i].body) : j > i
  BY NodeFacts
<1>3. V \subseteq Nat BY <1>2 DEF NodeForm
<1>4. IsFiniteSet(V)
  <2> HIDE DEF value
  <2>1. IsFiniteSet(1..N) BY <1>2, FS_Interval
  <2> QED BY <2>1, FiniteImage
<1>5. \A f : Gen(f) = [i \in 1..N |-> of(i, UNION {f[j] : j \in Elements(p.nodes[i].body)})]
  BY <1>2
<1>6. /\ \A i \in 1..N : \A S \in SUBSET V : of(i, S) \in SUBSET V
      /\ own \in [1..N -> SUBSET V]
  OBVIOUS
<1>7. \A i \in 1..N : \A S : of(i, S) = own[i] \cup S OBVIOUS
<1> HIDE DEF of, Gen, N, V, own
<1>8. below \in [1..N -> SUBSET (1..N)] /\ \A i \in 1..N : \A j \in below[i] : j > i
  BY <1>2
<1>9. h \in [(1..N) \X SUBSET V -> SUBSET V] BY <1>6
<1>10. \A i \in 1..N : below[i] = Elements(p.nodes[i].body) OBVIOUS
<1>11. \A i \in 1..N : \A S \in SUBSET V : h[<<i, S>>] = of(i, S) OBVIOUS
<1> HIDE DEF h, below
<1>12. PICK f \in [1..N -> SUBSET V] : Gathers(1, N, below, h, f)
  BY <1>2, <1>8, <1>9, Gathering
<1>13. f = Gen(f)
  <2>1. \A i \in 1..N : UNION {f[j] : j \in below[i]} \in SUBSET V BY <1>8, <1>12
  <2>2. \A i \in 1..N : f[i] = of(i, UNION {f[j] : j \in Elements(p.nodes[i].body)})
    BY <1>10, <1>11, <1>12, <2>1 DEF Gathers
  <2> QED BY <1>5, <1>12, <2>2
<1>14. named = Gen(named) BY <1>13
<1> HIDE DEF named
<1>15. Amasses(N, below, own, named) BY <1>5, <1>7, <1>10, <1>14 DEF Amasses
<1>16. \A i \in 1..N : named[i] \subseteq V BY <1>2, <1>6, <1>8, <1>15, GatheredWithin
<1>17. RulesNamed(p, body) \subseteq V BY <1>1, <1>16, BodyElements DEF N
<1> QED BY <1>3, <1>4, <1>17, FS_Subset

LEMMA RelationsNamedFinite ==
    ASSUME NEW p, ProgramForm(p), NEW body \in Bodies(p)
    PROVE  /\ \A rd \in RelationsNamed(p, body) :
                  rd.relation \in Nat /\ rd.kind \in {"count", "only", "member", "atom"}
           /\ IsFiniteSet(RelationsNamed(p, body))
<1> DEFINE N == Len(p.nodes)
           Reading(i) == [relation |-> RelationNode(p.nodes[i].relation), kind |-> ReadAs(p.nodes[i].op)]
           Gen(f) == [i \in DOMAIN p.nodes |->
               LET n == p.nodes[i]
               IN  (IF n.op \in {"aggregate", "only", "member", "atom", "exists"}
                    THEN {[relation |-> RelationNode(n.relation), kind |-> ReadAs(n.op)]} ELSE {})
                   \cup UNION {f[j] : j \in Elements(n.body)}]
           named == CHOOSE f : f = Gen(f)
           mine(i) == IF p.nodes[i].op \in {"aggregate", "only", "member", "atom", "exists"}
                      THEN {Reading(i)} ELSE {}
           of(i, below) == mine(i) \cup below
           reading == [i \in 1..N |-> Reading(i)]
           readers == {i \in 1..N : p.nodes[i].op \in {"aggregate", "only", "member", "atom", "exists"}}
           V == {reading[i] : i \in readers}
           own == [i \in 1..N |-> mine(i)]
           below == [i \in 1..N |-> Elements(p.nodes[i].body)]
           h == [x \in (1..N) \X SUBSET V |-> of(x[1], x[2])]
<1>1. \A b : RelationsNamed(p, b) = UNION {named[i] : i \in Elements(b)}
  BY DEF RelationsNamed
<1>2. /\ N \in Nat /\ DOMAIN p.nodes = 1..N
      /\ \A i \in 1..N : /\ p.nodes[i] \in NodeForm(p)
                         /\ Elements(p.nodes[i].body) \subseteq 1..N
                         /\ \A j \in Elements(p.nodes[i].body) : j > i
  BY NodeFacts
<1>3. \A rd \in V : rd.relation \in Nat /\ rd.kind \in {"count", "only", "member", "atom"}
  <2>1. \A i \in 1..N : Reading(i).relation \in Nat BY <1>2 DEF NodeForm, RelationNode
  <2>2. \A i \in readers : Reading(i).kind \in {"count", "only", "member", "atom"}
    BY DEF ReadAs
  <2> HIDE DEF Reading
  <2>3. \A rd \in V : \E i \in readers : rd = Reading(i) OBVIOUS
  <2> QED BY <2>1, <2>2, <2>3
<1>4. IsFiniteSet(V)
  <2> HIDE DEF reading
  <2>1. IsFiniteSet(1..N) BY <1>2, FS_Interval
  <2>2. readers \in SUBSET (1..N) OBVIOUS
  <2>3. IsFiniteSet(readers) BY <2>1, <2>2, FS_Subset
  <2> QED BY <2>3, FiniteImage
<1>5. \A f : Gen(f) = [i \in 1..N |-> of(i, UNION {f[j] : j \in Elements(p.nodes[i].body)})]
  BY <1>2
<1>6. /\ \A i \in 1..N : \A S \in SUBSET V : of(i, S) \in SUBSET V
      /\ own \in [1..N -> SUBSET V]
  <2>1. \A i \in 1..N : mine(i) \in SUBSET V
    <3> TAKE i \in 1..N
    <3>1. CASE i \in readers BY <3>1
    <3>2. CASE i \notin readers BY <3>2
    <3> QED BY <3>1, <3>2
  <2> HIDE DEF mine, V
  <2> QED BY <2>1
<1>7. \A i \in 1..N : \A S : of(i, S) = own[i] \cup S
  <2> HIDE DEF mine
  <2> QED OBVIOUS
<1> HIDE DEF of, Gen, N, V, own
<1>8. below \in [1..N -> SUBSET (1..N)] /\ \A i \in 1..N : \A j \in below[i] : j > i
  BY <1>2
<1>9. h \in [(1..N) \X SUBSET V -> SUBSET V] BY <1>6
<1>10. \A i \in 1..N : below[i] = Elements(p.nodes[i].body) OBVIOUS
<1>11. \A i \in 1..N : \A S \in SUBSET V : h[<<i, S>>] = of(i, S) OBVIOUS
<1> HIDE DEF h, below
<1>12. PICK f \in [1..N -> SUBSET V] : Gathers(1, N, below, h, f)
  BY <1>2, <1>8, <1>9, Gathering
<1>13. f = Gen(f)
  <2>1. \A i \in 1..N : UNION {f[j] : j \in below[i]} \in SUBSET V BY <1>8, <1>12
  <2>2. \A i \in 1..N : f[i] = of(i, UNION {f[j] : j \in Elements(p.nodes[i].body)})
    BY <1>10, <1>11, <1>12, <2>1 DEF Gathers
  <2> QED BY <1>5, <1>12, <2>2
<1>14. named = Gen(named) BY <1>13
<1> HIDE DEF named
<1>15. Amasses(N, below, own, named) BY <1>5, <1>7, <1>10, <1>14 DEF Amasses
<1>16. \A i \in 1..N : named[i] \subseteq V BY <1>2, <1>6, <1>8, <1>15, GatheredWithin
<1>17. RelationsNamed(p, body) \subseteq V BY <1>1, <1>16, BodyElements DEF N
<1> QED BY <1>3, <1>4, <1>17, FS_Subset

-----------------------------------------------------------------------------
(* The evaluation order, as it is proved about. *)
OrderNodes == {RelationNode(r) : r \in Relations}

OrderProofs == INSTANCE EvaluationOrderProofs WITH
    Relations <- OrderNodes,
    Reads <- NodeReads, RelationReads <- NodeRelationReads,
    Derives <- IsDerivedNode, Sources <- NodeSources, ByPath <- IsPathNode,
    phase <- pass, error <- blame

LEMMA RelationForm ==
    ASSUME NEW p, ProgramForm(p), NEW r \in Relations
    PROVE  /\ p.relations[r] \in DataForm \cup DerivedForm(p)
           /\ p.relations[r].derived \in BOOLEAN
           /\ p.relations[r].arity \in Nat /\ p.relations[r].kinds \in Seq(EntityKinds)
           /\ p.relations[r].entity \in EntityKinds \cup {NoKind}
           /\ p.relations[r].derived =>
                  /\ p.relations[r] \in DerivedForm(p)
                  /\ p.relations[r].predicate \in Bodies(p)
                  /\ p.relations[r].source \in Nat
                  /\ p.relations[r].path \in Seq(StepForm)
                  /\ p.relations[r].current \in Nat /\ p.relations[r].related \in Nat
                  /\ p.relations[r].current # p.relations[r].related
                  /\ p.relations[r].own \in Seq(EntityKinds)
           /\ ~p.relations[r].derived => p.relations[r] \in DataForm
<1>1. p.relations[r] \in DataForm \cup DerivedForm(p) BY DEF ProgramForm
<1>2. CASE p.relations[r] \in DataForm BY <1>1, <1>2 DEF DataForm
<1>3. CASE p.relations[r] \in DerivedForm(p) BY <1>1, <1>3 DEF DerivedForm, ProgramForm
<1> QED BY <1>1, <1>2, <1>3

LEMMA RuleForms ==
    ASSUME NEW p, ProgramForm(p), NEW x \in Rules
    PROVE  /\ p.rules[x].base \in Bodies(p) /\ p.rules[x].versions \in Bodies(p)
           /\ p.rules[x].base \o p.rules[x].versions \in Bodies(p)
           /\ p.rules[x].entity \in EntityKinds
<1>1. p.rules[x] \in RuleForm(p) BY DEF ProgramForm
<1> QED BY <1>1 DEF RuleForm, Bodies

LEMMA FormulaForm ==
    ASSUME NEW p, ProgramForm(p), NEW x
    PROVE  FormulaOf(p, x) \in Bodies(p)
<1>1. CASE x \in Rules BY <1>1, RuleForms DEF FormulaOf
<1>2. CASE x \notin Rules /\ IsDerivedNode(p, x)
  BY <1>2, RelationForm DEF FormulaOf, IsDerivedNode
<1>3. CASE x \notin Rules /\ ~IsDerivedNode(p, x)
  <2>1. <<>> \in Bodies(p) BY DEF Bodies
  <2> QED BY <1>3, <2>1 DEF FormulaOf
<1> QED BY <1>1, <1>2, <1>3

LEMMA SourcesForm ==
    ASSUME NEW p, ProgramForm(p), NEW x
    PROVE  NodeSources(p, x) \subseteq Nat /\ IsFiniteSet(NodeSources(p, x))
<1>1. CASE ~IsDerivedNode(p, x) BY <1>1, FS_EmptySet DEF NodeSources
<1>2. CASE IsDerivedNode(p, x)
  <2> DEFINE s == p.relations[RelationOf(x)]
  <2>1. s.source \in Nat /\ s.path \in Seq(StepForm)
    BY <1>2, RelationForm DEF IsDerivedNode
  <2>2. CASE s.path = <<>>
    <3>1. NodeSources(p, x) = {RelationNode(s.source)} BY <1>2, <2>2 DEF NodeSources
    <3>2. RelationNode(s.source) \in Nat BY <2>1 DEF RelationNode
    <3>3. IsFiniteSet({RelationNode(s.source)}) BY FS_Singleton
    <3> QED BY <3>1, <3>2, <3>3
  <2>3. CASE s.path # <<>>
    <3> DEFINE f == [i \in 1..Len(s.path) |-> RelationNode(s.path[i].relation)]
    <3>1. NodeSources(p, x) = {f[i] : i \in 1..Len(s.path)}
      BY <1>2, <2>3 DEF NodeSources, Elements
    <3>2. \A i \in 1..Len(s.path) : f[i] \in Nat
      <4> HIDE DEF s
      <4>1. \A i \in 1..Len(s.path) : s.path[i] \in StepForm BY <2>1
      <4> QED BY <4>1 DEF StepForm, RelationNode
    <3>3. IsFiniteSet(1..Len(s.path))
      <4> HIDE DEF s
      <4>1. Len(s.path) \in Nat BY <2>1
      <4> QED BY <4>1, FS_Interval
    <3> HIDE DEF f
    <3>4. IsFiniteSet({f[i] : i \in 1..Len(s.path)}) BY <3>3, FiniteImage
    <3> QED BY <3>1, <3>2, <3>4
  <2> QED BY <2>2, <2>3
<1> QED BY <1>1, <1>2

LEMMA FiniteAlike == \A S : OrderProofs!IsFiniteSet(S) <=> IsFiniteSet(S)
BY DEF OrderProofs!IsFiniteSet, IsFiniteSet

LEMMA GraphWellFormed ==
    ASSUME NEW p, ProgramForm(p)
    PROVE  OrderProofs!WellFormed(p)
<1>1. IsFiniteSet(Rules) /\ Rules \subseteq Nat /\ IsFiniteSet(Relations) /\ Relations \subseteq Nat
  BY NamesAssumption
<1>2. IsFiniteSet(OrderNodes) /\ OrderNodes \subseteq Nat
  <2> DEFINE f == [r \in Relations |-> RelationNode(r)]
  <2>1. OrderNodes = {f[r] : r \in Relations} BY DEF OrderNodes
  <2>2. OrderNodes \subseteq Nat BY <1>1 DEF OrderNodes, RelationNode
  <2> HIDE DEF f
  <2> QED BY <1>1, <2>1, <2>2, FiniteImage
<1>3. Rules \cap OrderNodes = {} BY OrderAssumption DEF OrderNodes
<1>4. ASSUME NEW x
      PROVE  /\ NodeReads(p, x) \subseteq Nat /\ IsFiniteSet(NodeReads(p, x))
             /\ \A rd \in NodeRelationReads(p, x) :
                    rd.relation \in Nat /\ rd.kind \in {"count", "only", "member", "atom"}
             /\ IsFiniteSet(NodeRelationReads(p, x))
  BY FormulaForm, RulesNamedFinite, RelationsNamedFinite DEF NodeReads, NodeRelationReads
<1>5. ASSUME NEW x PROVE IsDerivedNode(p, x) \in BOOLEAN /\ IsPathNode(p, x) \in BOOLEAN
  BY RelationForm DEF IsDerivedNode, IsPathNode
<1>6. \A x : NodeSources(p, x) \subseteq Nat /\ IsFiniteSet(NodeSources(p, x))
  BY SourcesForm
<1> QED BY <1>1, <1>2, <1>3, <1>4, <1>5, <1>6, FiniteAlike DEF OrderProofs!WellFormed, OrderProofs!ReadKinds

(* The order composed here and the one proved about are the same. *)
LEMMA CardinalAlike == \A S : OrderProofs!Cardinality(S) = Order!Cardinality(S)
BY DEF OrderProofs!Cardinality, Order!Cardinality

LEMMA StartAlike == Order!Start <=> OrderProofs!Start
BY DEF Order!Start, OrderProofs!Start, Order!NoError, OrderProofs!NoError

LEMMA ReadersAlike ==
    /\ Order!DerivedRelations = OrderProofs!DerivedRelations
    /\ Order!Readers = OrderProofs!Readers
    /\ \A x, kinds : Order!Named(x, kinds) = OrderProofs!Named(x, kinds)
    /\ \A x : Order!Aggregated(x) = OrderProofs!Aggregated(x)
    /\ \A x : Order!Walked(x) = OrderProofs!Walked(x)
    /\ Order!HasAtoms <=> OrderProofs!HasAtoms
    /\ Order!RelationNodes = OrderProofs!RelationNodes
    /\ \A x : Order!RelationWaits(x) = OrderProofs!RelationWaits(x)
    /\ Order!UnknownRelations = OrderProofs!UnknownRelations
    /\ Order!UnknownRules = OrderProofs!UnknownRules
<1>1. Order!DerivedRelations = OrderProofs!DerivedRelations
  BY DEF Order!DerivedRelations, OrderProofs!DerivedRelations, OrderNodes
<1>2. Order!Readers = OrderProofs!Readers BY <1>1 DEF Order!Readers, OrderProofs!Readers
<1>3. \A x, kinds : Order!Named(x, kinds) = OrderProofs!Named(x, kinds)
  BY DEF Order!Named, OrderProofs!Named
<1>4. \A x : Order!Aggregated(x) = OrderProofs!Aggregated(x) /\ Order!Walked(x) = OrderProofs!Walked(x)
  BY <1>3 DEF Order!Aggregated, OrderProofs!Aggregated, Order!Walked, OrderProofs!Walked
<1>5. Order!HasAtoms <=> OrderProofs!HasAtoms
  BY <1>1, <1>2, <1>3 DEF Order!HasAtoms, OrderProofs!HasAtoms
<1>6. Order!RelationNodes = OrderProofs!RelationNodes
  BY <1>1 DEF Order!RelationNodes, OrderProofs!RelationNodes
<1>7. \A x : Order!RelationWaits(x) = OrderProofs!RelationWaits(x)
  BY <1>4 DEF Order!RelationWaits, OrderProofs!RelationWaits
<1>8. Order!UnknownRelations = OrderProofs!UnknownRelations
  BY <1>1, <1>7 DEF Order!UnknownRelations, OrderProofs!UnknownRelations, OrderNodes
<1>9. Order!UnknownRules = OrderProofs!UnknownRules
  BY <1>2 DEF Order!UnknownRules, OrderProofs!UnknownRules
<1> QED BY <1>1, <1>2, <1>3, <1>4, <1>5, <1>6, <1>7, <1>8, <1>9

LEMMA WaitsAlike ==
    /\ \A x : Order!RuleWaits(x) = OrderProofs!RuleWaits(x)
    /\ \A x : Order!Extra(x) = OrderProofs!Extra(x)
    /\ \A x : Order!Waits(x) = OrderProofs!Waits(x)
    /\ \A x : Order!Satisfied(x) = OrderProofs!Satisfied(x)
    /\ \A S : Order!Least(S) = OrderProofs!Least(S)
    /\ Order!Blocked = OrderProofs!Blocked
<1>1. \A x : Order!RuleWaits(x) = OrderProofs!RuleWaits(x)
  BY ReadersAlike DEF Order!RuleWaits, OrderProofs!RuleWaits
<1>2. \A x : Order!Extra(x) = OrderProofs!Extra(x)
  BY ReadersAlike DEF Order!Extra, OrderProofs!Extra
<1>3. \A x : Order!Waits(x) = OrderProofs!Waits(x)
  BY <1>2, ReadersAlike DEF Order!Waits, OrderProofs!Waits
<1>4. \A x : Order!Satisfied(x) = OrderProofs!Satisfied(x)
  BY ReadersAlike DEF Order!Satisfied, OrderProofs!Satisfied
<1>5. \A S : Order!Least(S) = OrderProofs!Least(S) BY DEF Order!Least, OrderProofs!Least
<1>6. Order!Blocked = OrderProofs!Blocked
  BY ReadersAlike DEF Order!Blocked, OrderProofs!Blocked
<1> QED BY <1>1, <1>2, <1>3, <1>4, <1>5, <1>6

LEMMA CyclesAlike == Order!CyclesExact <=> OrderProofs!CyclesExact
<1>2. \A x : Order!Noticed(x) = OrderProofs!Noticed(x)
  BY ReadersAlike DEF Order!Noticed, OrderProofs!Noticed, Order!ReadKinds, OrderProofs!ReadKinds
<1>3. \A x : Order!Needs(x) = OrderProofs!Needs(x)
  BY ReadersAlike DEF Order!Needs, OrderProofs!Needs, Order!ReadKinds, OrderProofs!ReadKinds
<1>4. Order!CyclesRefused <=> OrderProofs!CyclesRefused
  BY <1>2, ReadersAlike DEF Order!CyclesRefused, OrderProofs!CyclesRefused, Order!Circular, OrderProofs!Circular
<1>5. Order!RefusalNamesCycle <=> OrderProofs!RefusalNamesCycle
  BY <1>3, ReadersAlike DEF Order!RefusalNamesCycle, OrderProofs!RefusalNamesCycle,
     Order!Circular, OrderProofs!Circular, OrderNodes
<1> QED BY <1>4, <1>5 DEF Order!CyclesExact, OrderProofs!CyclesExact

LEMMA OrderAlike == Order!OrderExact <=> OrderProofs!OrderExact
<1>1. \A x : Order!Through(x) = OrderProofs!Through(x)
  BY ReadersAlike, WaitsAlike DEF Order!Through, OrderProofs!Through
<1>2. \A x : Order!PrecedesRouted(x) = OrderProofs!PrecedesRouted(x)
  BY <1>1 DEF Order!PrecedesRouted, OrderProofs!PrecedesRouted
<1>3. \A x : Order!Precedes(x) = OrderProofs!Precedes(x)
  BY ReadersAlike DEF Order!Precedes, OrderProofs!Precedes
<1>4. Order!Cardinality(Rules) = OrderProofs!Cardinality(Rules) BY CardinalAlike
<1> QED BY <1>2, <1>3, <1>4, ReadersAlike, WaitsAlike DEF Order!OrderExact, OrderProofs!OrderExact

LEMMA NextAlike == Order!Next <=> OrderProofs!Next
<1>1. (Order!RefuseUnknownRelation <=> OrderProofs!RefuseUnknownRelation)
      /\ (Order!RefuseUnknownRule <=> OrderProofs!RefuseUnknownRule)
  BY ReadersAlike DEF Order!RefuseUnknownRelation, OrderProofs!RefuseUnknownRelation,
     Order!RefuseUnknownRule, OrderProofs!RefuseUnknownRule, Order!Refuse, OrderProofs!Refuse,
     Order!Searched, OrderProofs!Searched, Order!Searching, OrderProofs!Searching
<1>2. \A s, r : Order!Entered(s, r) = OrderProofs!Entered(s, r)
  BY ReadersAlike DEF Order!Entered, OrderProofs!Entered
<1>3. (Order!Searching <=> OrderProofs!Searching) /\ Order!Top = OrderProofs!Top
      /\ Order!OnPath = OrderProofs!OnPath
  BY ReadersAlike DEF Order!Searching, OrderProofs!Searching, Order!Top, OrderProofs!Top,
     Order!OnPath, OrderProofs!OnPath
<1>4. Order!Followed = OrderProofs!Followed
  BY WaitsAlike DEF Order!Followed, OrderProofs!Followed
<1>5. (Order!SearchRoot <=> OrderProofs!SearchRoot) /\ (Order!PassFinished <=> OrderProofs!PassFinished)
  BY <1>2, <1>3, <1>4, ReadersAlike, WaitsAlike
     DEF Order!SearchRoot, OrderProofs!SearchRoot, Order!PassFinished, OrderProofs!PassFinished
<1>6. (Order!Enter <=> OrderProofs!Enter) /\ (Order!Leave <=> OrderProofs!Leave)
  BY <1>2, <1>3, <1>4, ReadersAlike, WaitsAlike
     DEF Order!Enter, OrderProofs!Enter, Order!Leave, OrderProofs!Leave,
         Order!FinishTop, OrderProofs!FinishTop
<1>7. Order!CloseCycle <=> OrderProofs!CloseCycle
  BY <1>3, WaitsAlike DEF Order!CloseCycle, OrderProofs!CloseCycle, Order!Refuse, OrderProofs!Refuse
<1>8. Order!StartOrder <=> OrderProofs!StartOrder
  BY <1>3, ReadersAlike, WaitsAlike, CardinalAlike
     DEF Order!StartOrder, OrderProofs!StartOrder, Order!Searched, OrderProofs!Searched
<1>9. Order!OrderRule <=> OrderProofs!OrderRule
  BY ReadersAlike, WaitsAlike, CardinalAlike DEF Order!OrderRule, OrderProofs!OrderRule
<1>10. Order!RefuseCycle <=> OrderProofs!RefuseCycle
  BY CardinalAlike DEF Order!RefuseCycle, OrderProofs!RefuseCycle, Order!Refuse, OrderProofs!Refuse
<1>11. Order!StartWalk <=> OrderProofs!StartWalk
  BY ReadersAlike, WaitsAlike, CardinalAlike DEF Order!StartWalk, OrderProofs!StartWalk
<1>12. (Order!AcceptWithoutRelations <=> OrderProofs!AcceptWithoutRelations)
       /\ (Order!AcceptWalked <=> OrderProofs!AcceptWalked)
  BY ReadersAlike, WaitsAlike, CardinalAlike
     DEF Order!AcceptWithoutRelations, OrderProofs!AcceptWithoutRelations, Order!AcceptWalked,
         OrderProofs!AcceptWalked, Order!Accept, OrderProofs!Accept
<1>13. \A x : Order!Chosen(x) <=> OrderProofs!Chosen(x)
  BY ReadersAlike, WaitsAlike DEF Order!Chosen, OrderProofs!Chosen, OrderNodes
<1>14. Order!Satisfy <=> OrderProofs!Satisfy
  BY <1>13, ReadersAlike, WaitsAlike DEF Order!Satisfy, OrderProofs!Satisfy
<1>15. (Order!RefuseRoutedCycle <=> OrderProofs!RefuseRoutedCycle)
       /\ (Order!RefuseUnusedCycle <=> OrderProofs!RefuseUnusedCycle)
  BY ReadersAlike, WaitsAlike
     DEF Order!RefuseRoutedCycle, OrderProofs!RefuseRoutedCycle, Order!RefuseUnusedCycle,
         OrderProofs!RefuseUnusedCycle, Order!Refuse, OrderProofs!Refuse
<1> QED BY <1>1, <1>5, <1>6, <1>7, <1>8, <1>9, <1>10, <1>11, <1>12, <1>14, <1>15
        DEF Order!Next, OrderProofs!Next

(* The program keeps its form and the order its invariant: while lowering *)
(* still rewrites the program, the order is not begun. *)
Lowered == {"declared", "directing", "refused"}

Forms ==
    /\ ProgramForm(program)
    /\ phase = "declared" =>
           \A n \in DOMAIN chain.resolved : chain.resolved[n] \in Seq(EntityKinds)
    /\ phase = "directing" => \A r \in Relations : effective[r] \in Seq(EntityKinds)

Ordering ==
    /\ phase \in Lowered => OrderProofs!Start
    /\ phase \notin Lowered => OrderProofs!Inductive
    /\ phase \notin Lowered \cup {"kinds"} => pass = "accepted"

(* What each step leaves alone. *)
Lowering == Direct /\ UNCHANGED <<checker, here, interface, order_vars>>

LEMMA OwnKindsForm ==
    ASSUME ProgramForm(program), NEW r, OwnKinds(r).ends
    PROVE  OwnKinds(r).result \in Seq(EntityKinds)
<1>1. Unknown \in Seq(EntityKinds) BY DEF Unknown
<1>2. CASE r \notin Relations BY <1>1, <1>2 DEF OwnKinds, Ends, IsDerived, Derived
<1>3. CASE r \in Relations /\ IsDerived(r) /\ Schema(r).own # Unknown
  BY <1>3, RelationForm DEF OwnKinds, Ends, IsDerived, Derived, Schema
<1>4. CASE r \in Relations /\ IsDerived(r) /\ Schema(r).own = Unknown /\ Schema(r).kinds = Unknown
  BY <1>1, <1>4 DEF OwnKinds, Ends, Passes
<1>5. CASE r \in Relations /\ ~(IsDerived(r) /\ Schema(r).own # Unknown)
           /\ ~(IsDerived(r) /\ Schema(r).own = Unknown /\ Schema(r).kinds = Unknown)
  <2>1. OwnKinds(r) = Ends(Schema(r).kinds) BY <1>5 DEF OwnKinds
  <2> QED BY <1>5, <2>1, RelationForm DEF Ends, Schema
<1> QED BY <1>2, <1>3, <1>4, <1>5

(* Slots given to an aggregation or a membership test are slots. *)
LEMMA RewriteForm ==
    ASSUME ProgramForm(program), NEW slots, slots[1] \in Nat, slots[2] \in Nat, Rewrite(slots)
    PROVE  ProgramForm(program')
<1> DEFINE k == Visited.node
           N == Len(program.nodes)
<1>1. /\ program.nodes \in Seq(NodeForm(program)) /\ N \in Nat /\ DOMAIN program.nodes = 1..N
      /\ \A i \in 1..N : program.nodes[i] \in NodeForm(program)
  BY NodeFacts DEF ProgramForm
<1> DEFINE new == [program.nodes EXCEPT ![k].current = slots[1], ![k].related = slots[2]]
<1>2. program' = [program EXCEPT !.nodes = new] BY DEF Rewrite
<1>3. DOMAIN new = 1..N BY <1>1
<1>4. \A i \in 1..N : /\ new[i] \in NodeForm(program) /\ new[i].body = program.nodes[i].body
                      /\ new[i].op = program.nodes[i].op /\ new[i].terms = program.nodes[i].terms
  <2> TAKE i \in 1..N
  <2>1. CASE i = k
    <3>1. new[i] = [program.nodes[i] EXCEPT !.current = slots[1], !.related = slots[2]]
      BY <1>1, <2>1
    <3> HIDE DEF new
    <3> QED BY <1>1, <3>1 DEF NodeForm
  <2>2. CASE i # k BY <1>1, <2>2
  <2> QED BY <2>1, <2>2
<1> HIDE DEF new
<1>5. new \in Seq(NodeForm(program)) /\ Len(new) = N
  <2>1. new \in [1..N -> NodeForm(program)] BY <1>2, <1>3, <1>4 DEF Rewrite, new
  <2> QED BY <1>1, <2>1
<1>6. program \in [rules : [Rules -> RuleForm(program)],
                   relations : [Relations -> DataForm \cup DerivedForm(program)],
                   nodes : Seq(NodeForm(program))]
  BY DEF ProgramForm
<1>7. program'.nodes = new /\ program'.rules = program.rules /\ program'.relations = program.relations
  BY <1>2, <1>6
<1>8. Bodies(program') = Bodies(program) BY <1>5, <1>7 DEF Bodies
<1>9. NodeForm(program') = NodeForm(program) /\ RuleForm(program') = RuleForm(program)
      /\ DerivedForm(program') = DerivedForm(program)
  BY <1>8 DEF NodeForm, RuleForm, DerivedForm
<1>10. program' \in [rules : [Rules -> RuleForm(program)],
                     relations : [Relations -> DataForm \cup DerivedForm(program)],
                     nodes : Seq(NodeForm(program))]
  BY <1>2, <1>5, <1>6
<1>11. program' \in [rules : [Rules -> RuleForm(program')],
                     relations : [Relations -> DataForm \cup DerivedForm(program')],
                     nodes : Seq(NodeForm(program'))]
  BY ONLY <1>9, <1>10
<1>12. \A i \in 1..Len(program'.nodes) :
           /\ \A j \in Elements(program'.nodes[i].body) : j > i
           /\ program'.nodes[i].op = "read" => Len(program'.nodes[i].terms) = 1
           /\ program'.nodes[i].op = "same" => Len(program'.nodes[i].terms) = 2
           /\ program'.nodes[i].op \in {"only", "member"} => program'.nodes[i].body = <<>>
  BY <1>4, <1>5, <1>7 DEF ProgramForm
<1>13. \A r \in Relations :
           program'.relations[r].derived =>
               program'.relations[r].current # program'.relations[r].related
  BY <1>7 DEF ProgramForm
<1> QED BY ONLY <1>11, <1>12, <1>13 DEF ProgramForm

LEMMA StampForm ==
    ASSUME ProgramForm(program), \A r \in Relations : effective[r] \in Seq(EntityKinds), StampKinds
    PROVE  ProgramForm(program')
<1> DEFINE new == [r \in Relations |->
                IF r \in Derived /\ Stamped(r)
                THEN [Schema(r) EXCEPT !.own = Stamp(r), !.kinds = IF @ = Unknown THEN Stamp(r) ELSE @]
                ELSE Schema(r)]
<1>1. program' = [program EXCEPT !.relations = new] BY DEF StampKinds
<1>2. program \in [rules : [Rules -> RuleForm(program)],
                   relations : [Relations -> DataForm \cup DerivedForm(program)],
                   nodes : Seq(NodeForm(program))]
  BY DEF ProgramForm
<1>3. \A r \in Relations :
          /\ new[r] \in DataForm \cup DerivedForm(program)
          /\ new[r].derived = program.relations[r].derived
          /\ program.relations[r].derived =>
                 new[r].current = program.relations[r].current /\ new[r].related = program.relations[r].related
  <2> TAKE r \in Relations
  <2>1. CASE r \in Derived /\ Stamped(r)
    <3>1. Schema(r) \in DerivedForm(program) BY <2>1, RelationForm DEF Derived, Schema
    <3>2. effective[r] \in Seq(EntityKinds) OBVIOUS
    <3> DEFINE kinds == IF Schema(r).kinds = Unknown THEN effective[r] ELSE Schema(r).kinds
    <3>3. kinds \in Seq(EntityKinds) BY <3>1, <3>2 DEF DerivedForm
    <3>4. new[r] = [Schema(r) EXCEPT !.own = effective[r], !.kinds = kinds]
      BY <2>1, <3>1 DEF Stamp, DerivedForm
    <3> HIDE DEF kinds
    <3> DEFINE one == [Schema(r) EXCEPT !.own = effective[r]]
               two == [one EXCEPT !.kinds = kinds]
    <3>5. one \in DerivedForm(program) /\ one.derived = Schema(r).derived
          /\ one.current = Schema(r).current /\ one.related = Schema(r).related
      BY <3>1, <3>2 DEF DerivedForm
    <3>6. new[r] = two BY <3>4
    <3> HIDE DEF one
    <3>7. two \in DerivedForm(program) /\ two.derived = one.derived
          /\ two.current = one.current /\ two.related = one.related
      BY <3>3, <3>5 DEF DerivedForm
    <3> QED BY <3>5, <3>6, <3>7 DEF Schema
  <2>2. CASE ~(r \in Derived /\ Stamped(r)) BY <2>2, RelationForm DEF Schema
  <2> QED BY <2>1, <2>2
<1>4. new \in [Relations -> DataForm \cup DerivedForm(program)] BY <1>3
<1> HIDE DEF new
<1>5. program'.nodes = program.nodes /\ program'.rules = program.rules /\ program'.relations = new
  BY <1>1, <1>2
<1>6. Bodies(program') = Bodies(program) BY <1>5 DEF Bodies
<1>7. NodeForm(program') = NodeForm(program) /\ RuleForm(program') = RuleForm(program)
      /\ DerivedForm(program') = DerivedForm(program)
  BY <1>6 DEF NodeForm, RuleForm, DerivedForm
<1>8. program' \in [rules : [Rules -> RuleForm(program)],
                     relations : [Relations -> DataForm \cup DerivedForm(program)],
                     nodes : Seq(NodeForm(program))]
  BY <1>1, <1>2, <1>4
<1> QED BY <1>3, <1>5, <1>7, <1>8 DEF ProgramForm

(* How each step of the program's lowering keeps its form. *)
LEMMA FormsInit == Init => Forms
<1> SUFFICES ASSUME Init PROVE Forms OBVIOUS
<1>1. \E family \in Programs \cup WrittenPrograms : program \in family
  BY DEF Init, TypingInit
<1>2. ProgramForm(program) BY <1>1, ProgramAssumption
<1>3. chain.resolved = <<>> /\ DOMAIN chain.resolved = {}
  BY DEF Init, TypingInit, NoWalk
<1>4. phase # "directing" BY DEF Init, TypingInit
<1> QED BY <1>2, <1>3, <1>4 DEF Forms

LEMMA DeclaringForms ==
    ASSUME Forms, phase = "declared", FollowChains(Relations, OwnKinds, Unknown)
    PROVE  \A n \in DOMAIN chain'.resolved : chain'.resolved[n] \in Seq(EntityKinds)
<1>1. ProgramForm(program) /\ \A n \in DOMAIN chain.resolved : chain.resolved[n] \in Seq(EntityKinds)
  BY DEF Forms
<1>2. CASE StartWalk(Relations)
  <2>1. chain'.resolved = chain.resolved BY <1>2 DEF StartWalk
  <2> QED BY <1>1, <2>1
<1>3. ASSUME NEW passed, NEW result, CloseWalk(passed, result), result \in Seq(EntityKinds)
      PROVE  \A n \in DOMAIN chain'.resolved : chain'.resolved[n] \in Seq(EntityKinds)
  BY <1>1, <1>3 DEF CloseWalk
<1>4. Unknown \in Seq(EntityKinds) BY DEF Unknown
<1>5. CASE EndWalk(OwnKinds, Unknown)
  BY <1>1, <1>3, <1>4, <1>5, OwnKindsForm DEF EndWalk, Resolved
<1>6. CASE ExtendWalk(OwnKinds)
  <2>1. chain'.resolved = chain.resolved BY <1>6 DEF ExtendWalk
  <2> QED BY <1>1, <2>1
<1> QED BY <1>2, <1>5, <1>6 DEF FollowChains

LEMMA SlotsOfForm ==
    ASSUME NEW r, NEW kind, Cardinality(SlotsOf(r, kind)) = 1
    PROVE  (CHOOSE s \in SlotsOf(r, kind) : TRUE) \in {0, 1}
<1>1. IsFiniteSet({0, 1})
  <2>1. \A n \in Int : IsFiniteSet(0..n) BY FS_Interval
  <2>2. \E n \in Int : {0, 1} = 0..n
    <3>1. \A n \in Int : n = 1 => {0, 1} = 0..n OBVIOUS
    <3> QED BY <3>1
  <2> QED BY <2>1, <2>2
<1>2. SlotsOf(r, kind) \in SUBSET {0, 1} BY DEF SlotsOf
<1>3. IsFiniteSet(SlotsOf(r, kind)) BY <1>1, <1>2, FS_Subset
<1>4. SlotsOf(r, kind) # {}
  <2>1. Cardinality({}) = 0 BY FS_EmptySet
  <2> QED BY <2>1
<1> QED BY <1>2, <1>4

LEMMA DirectedSlotsForm ==
    ASSUME NEW entity, Node.current \in Nat, Node.related \in Nat,
           \A r : IsDerived(r) => Schema(r).current \in Nat /\ Schema(r).related \in Nat
    PROVE  /\ DirectedSlots(Node.relation, entity)[1] \in Nat
           /\ DirectedSlots(Node.relation, entity)[2] \in Nat
<1> DEFINE r == Node.relation
           one == CHOOSE s \in SlotsOf(r, SourceKind(entity)) : TRUE
           slots == <<Schema(r).current, Schema(r).related>>
<1>1. CASE IsDerived(r)
  <2>1. DirectedSlots(r, entity) = slots
    <3> HIDE DEF slots
    <3>1. DirectedSlots(r, entity) = IF IsDerived(r) THEN slots ELSE
             IF Typed(r) /\ Cardinality(SlotsOf(r, SourceKind(entity))) = 1
             THEN <<one, 1 - one>> ELSE <<Node.current, Node.related>>
      BY <1>1 DEF DirectedSlots, slots, Typed, IsDerived
    <3> QED BY <1>1, <3>1
  <2> QED BY <2>1, <1>1
<1>2. CASE ~IsDerived(r) /\ Typed(r) /\ Cardinality(SlotsOf(r, SourceKind(entity))) = 1
  <2>1. DirectedSlots(r, entity) = <<one, 1 - one>> BY <1>2 DEF DirectedSlots
  <2>2. one \in {0, 1} BY <1>2, SlotsOfForm
  <2> HIDE DEF one
  <2>3. one \in Nat /\ 1 - one \in Nat BY <2>2
  <2> QED BY <2>1, <2>3
<1>3. CASE ~IsDerived(r) /\ ~(Typed(r) /\ Cardinality(SlotsOf(r, SourceKind(entity))) = 1)
  <2>1. DirectedSlots(r, entity) = <<Node.current, Node.related>>
    BY <1>3 DEF DirectedSlots
  <2> QED BY <2>1
<1> QED BY <1>1, <1>2, <1>3

LEMMA MemberSlotsForm ==
    ASSUME Node.current \in Nat, Node.related \in Nat,
           \A r : IsDerived(r) => Schema(r).current \in Nat /\ Schema(r).related \in Nat
    PROVE  MemberSlots[1] \in Nat /\ MemberSlots[2] \in Nat
<1> DEFINE r == Node.relation
           m == Visited.member
           one == CHOOSE s \in SlotsOf(r, m.current) : TRUE
           other == CHOOSE s \in SlotsOf(r, m.related) : TRUE
           Told == /\ Typed(r) /\ m.bound
                   /\ m.current # NoKind /\ m.related # NoKind /\ m.current # m.related
                   /\ Cardinality(SlotsOf(r, m.current)) = 1
                   /\ Cardinality(SlotsOf(r, m.related)) = 1
<1>1. CASE IsDerived(r)
  <2>1. MemberSlots = <<Schema(r).current, Schema(r).related>> BY <1>1 DEF MemberSlots
  <2> QED BY <2>1, <1>1
<1>2. CASE ~IsDerived(r) /\ Told
  <2>1. MemberSlots = <<one, other>> BY <1>2 DEF MemberSlots
  <2>2. one \in {0, 1} /\ other \in {0, 1} BY <1>2, SlotsOfForm
  <2> HIDE DEF one, other
  <2>3. one \in Nat /\ other \in Nat BY <2>2
  <2> QED BY <2>1, <2>3
<1>3. CASE ~IsDerived(r) /\ ~Told
  <2>1. MemberSlots = <<Node.current, Node.related>> BY <1>3 DEF MemberSlots
  <2> QED BY <2>1
<1> QED BY <1>1, <1>2, <1>3

LEMMA DirectForms ==
    ASSUME Forms, phase = "directing", DirectAggregate \/ DirectMember
    PROVE  ProgramForm(program')
<1>1. ProgramForm(program) BY DEF Forms
<1>2. CASE Visited.node \notin DOMAIN program.nodes
  <2>1. \A slots : Rewrite(slots) => program' = program
    <3> TAKE slots
    <3> SUFFICES ASSUME Rewrite(slots) PROVE program' = program OBVIOUS
    <3>1. program.nodes \in Seq(NodeForm(program)) BY <1>1 DEF ProgramForm
    <3>2. [program.nodes EXCEPT ![Visited.node].current = slots[1], ![Visited.node].related = slots[2]]
            = program.nodes
      BY <1>2, <3>1
    <3>3. program' = [program EXCEPT !.nodes = program.nodes] BY <3>2 DEF Rewrite
    <3> QED BY <1>1, <3>3 DEF ProgramForm
  <2>2. \E slots : Rewrite(slots) BY DEF DirectAggregate, DirectMember
  <2> QED BY <1>1, <2>1, <2>2
<1>3. CASE Visited.node \in DOMAIN program.nodes
  <2>1. Node \in NodeForm(program) BY <1>1, <1>3, NodeFacts DEF Node
  <2>2. Node.current \in Nat /\ Node.related \in Nat BY <2>1 DEF NodeForm
  <2>3. \A r : IsDerived(r) => Schema(r).current \in Nat /\ Schema(r).related \in Nat
    BY <1>1, RelationForm DEF IsDerived, Derived, Schema
  <2>4. CASE DirectAggregate
    <3> DEFINE slots == DirectedSlots(Node.relation, Visited.entity)
    <3>1. slots[1] \in Nat /\ slots[2] \in Nat BY <2>2, <2>3, DirectedSlotsForm
    <3>2. Rewrite(slots) BY <2>4 DEF DirectAggregate
    <3> HIDE DEF slots
    <3> QED BY <1>1, <3>1, <3>2, RewriteForm
  <2>5. CASE DirectMember
    <3>1. MemberSlots[1] \in Nat /\ MemberSlots[2] \in Nat
      BY <2>2, <2>3, MemberSlotsForm
    <3>2. Rewrite(MemberSlots) BY <2>5 DEF DirectMember
    <3> QED BY <1>1, <3>1, <3>2, RewriteForm
  <2> QED BY <2>4, <2>5
<1> QED BY <1>2, <1>3

LEMMA FormsNext == Forms /\ [Next]_vars => Forms'
<1> SUFFICES ASSUME Forms, [Next]_vars PROVE Forms' OBVIOUS
<1>1. CASE UNCHANGED vars BY <1>1 DEF Forms, vars, typing_vars
<1>2. CASE Lowering
  <2>1. CASE phase = "declared" /\ FollowChains(Relations, OwnKinds, Unknown)
             /\ UNCHANGED <<program, phase, direction>>
    BY <2>1, DeclaringForms DEF Forms
  <2>2. CASE DeclareKinds
    <3>1. \A r \in Relations : effective'[r] \in Seq(EntityKinds)
      BY <2>2 DEF DeclareKinds, AllFollowed, Forms
    <3>2. program' = program /\ phase' # "declared" BY <2>2 DEF DeclareKinds
    <3> QED BY <3>1, <3>2 DEF Forms
  <2>3. CASE DirectAggregate \/ DirectMember
    <3>1. phase = "directing" /\ phase' = phase /\ effective' = effective
      BY <2>3 DEF DirectAggregate, DirectMember, Directing, Onward
    <3> QED BY <2>3, <3>1, DirectForms DEF Forms
  <2>4. CASE RefuseAggregate \/ RefuseMember
    <3>1. program' = program /\ phase' = "refused"
      BY <2>4 DEF RefuseAggregate, RefuseMember, Refuse
    <3> QED BY <3>1 DEF Forms
  <2>5. CASE DirectTerms \/ DirectOther
    <3>1. program' = program /\ phase' = phase /\ effective' = effective /\ phase = "directing"
      BY <2>5 DEF DirectTerms, DirectOther, Directing, Onward
    <3> QED BY <3>1 DEF Forms
  <2>6. CASE StampKinds
    <3>1. phase = "directing" /\ phase' = "kinds" BY <2>6 DEF StampKinds, Directing
    <3> QED BY <2>6, <3>1, StampForm DEF Forms
  <2> QED BY <1>2, <2>1, <2>2, <2>3, <2>4, <2>5, <2>6 DEF Lowering, Direct
<1>3. CASE FindOrder \/ DeriveInterface \/ Evaluate
  <2>1. UNCHANGED <<program, phase, chain, effective>>
    BY <1>3 DEF FindOrder, DeriveInterface, Evaluate, Query, Read, Traverse, typing_vars
  <2> QED BY <2>1 DEF Forms
<1>4. CASE Check
  <2>1. program' = program /\ phase \notin Lowered /\ phase' \notin Lowered
    BY <1>4 DEF Check, ReadKinds, StartChecking, CheckAggregate, CheckMember, CheckTerms, CheckOther,
       CheckDerived, CheckRoles, ReturnUsed, Keep, Walking, Checked, Lowered
  <2> QED BY <2>1 DEF Forms, Lowered
<1> QED BY <1>1, <1>2, <1>3, <1>4 DEF Next, Compile, Lowering

(* Once lowering is done the order's invariant holds of the lowered program. *)
LEMMA OrderBegins ==
    ASSUME ProgramForm(program'), OrderProofs!Start'
    PROVE  OrderProofs!Inductive'
<1>1. OrderProofs!WellFormed(program') BY GraphWellFormed
<1>2. (OrderProofs!Start /\ OrderProofs!WellFormed(program) => OrderProofs!Inductive)'
  BY OrderProofs!InductiveInit, PTL
<1> QED BY <1>1, <1>2

LEMMA OrderingInit == Init => Ordering
<1> SUFFICES ASSUME Init PROVE Ordering OBVIOUS
<1>1. ProgramForm(program) BY FormsInit DEF Forms
<1>2. OrderProofs!Start BY StartAlike DEF Init
<1>3. OrderProofs!Inductive BY <1>1, <1>2, GraphWellFormed, OrderProofs!InductiveInit
<1>4. phase \in {"declared", "kinds"} BY DEF Init, TypingInit
<1> QED BY <1>2, <1>3, <1>4 DEF Ordering, Lowered

LEMMA OrderingKept ==
    ASSUME OrderProofs!Inductive, program' = program, UNCHANGED order_vars
    PROVE  OrderProofs!Inductive'
<1>1. UNCHANGED OrderProofs!vars BY DEF order_vars, OrderProofs!vars
<1> QED BY <1>1, OrderProofs!InductiveNext

LEMMA LoweringOrders ==
    ASSUME Forms', Ordering, Lowering
    PROVE  Ordering'
<1>1. UNCHANGED order_vars BY DEF Lowering
<1>2. phase \in Lowered
  BY DEF Lowering, Direct, Lowered, DeclareKinds, DirectAggregate, RefuseAggregate, DirectMember,
     RefuseMember, DirectTerms, DirectOther, StampKinds, Directing
<1>3. OrderProofs!Start' BY <1>1, <1>2 DEF Ordering, order_vars, OrderProofs!Start
<1>4. phase' \in Lowered \cup {"kinds"}
  BY DEF Lowering, Direct, Lowered, DeclareKinds, DirectAggregate, RefuseAggregate, DirectMember,
     RefuseMember, DirectTerms, DirectOther, StampKinds, Directing, Onward, Refuse
<1>5. OrderProofs!Inductive' BY <1>3, OrderBegins DEF Forms
<1> QED BY <1>3, <1>4, <1>5 DEF Ordering

LEMMA CheckingPhase ==
    ASSUME Check
    PROVE  /\ program' = program
           /\ phase \in {"kinds", "innermost", "walking"}
           /\ phase' \in {"kinds", "innermost", "walking", "accepted", "ill-typed", "executed"}
BY DEF Check, ReadKinds, StartChecking, CheckAggregate, CheckMember, CheckTerms, CheckOther,
   CheckDerived, CheckRoles, ReturnUsed, Keep, Walking, Checked

LEMMA OrderingNext == Forms /\ Forms' /\ Ordering /\ [Next]_vars => Ordering'
<1> SUFFICES ASSUME Forms, Forms', Ordering, [Next]_vars PROVE Ordering' OBVIOUS
<1>1. CASE program' = program /\ phase' = phase /\ UNCHANGED order_vars
  <2>1. phase \in Lowered => OrderProofs!Start'
    BY <1>1 DEF Ordering, order_vars, OrderProofs!Start
  <2>2. phase \notin Lowered => OrderProofs!Inductive'
    BY <1>1, OrderingKept DEF Ordering
  <2> QED BY <1>1, <2>1, <2>2 DEF Ordering, order_vars
<1>2. CASE Lowering BY <1>2, LoweringOrders
<1>3. CASE FindOrder
  <2>1. phase = "kinds" /\ phase' = phase BY <1>3 DEF FindOrder, typing_vars
  <2>2. OrderProofs!Inductive BY <2>1 DEF Ordering, Lowered
  <2>3. OrderProofs!Next BY <1>3, NextAlike DEF FindOrder
  <2>4. OrderProofs!Inductive' BY <2>2, <2>3, OrderProofs!InductiveNext
  <2> QED BY <2>1, <2>4 DEF Ordering, Lowered
<1>4. CASE pass = "accepted" /\ Check /\ UNCHANGED <<here, interface, order_vars>>
  <2>1. phase \notin Lowered /\ phase' \notin Lowered /\ program' = program
    BY <1>4, CheckingPhase DEF Lowered
  <2>2. OrderProofs!Inductive' BY <1>4, <2>1, OrderingKept DEF Ordering
  <2>3. pass' = "accepted" BY <1>4 DEF order_vars
  <2> QED BY <2>1, <2>2, <2>3 DEF Ordering
<1>5. CASE DeriveInterface /\ UNCHANGED order_vars
  BY <1>1, <1>5 DEF DeriveInterface, typing_vars
<1>6. CASE interface # Underived /\ Evaluate /\ UNCHANGED <<interface, order_vars>>
  BY <1>1, <1>6 DEF Evaluate, Query, Read, Traverse, typing_vars
<1>7. CASE UNCHANGED vars BY <1>1, <1>7 DEF vars, typing_vars, order_vars
<1> QED BY <1>2, <1>3, <1>4, <1>5, <1>6, <1>7 DEF Next, Compile, Lowering

LEMMA FormsHold == Spec => [](Forms /\ Ordering)
<1>1. Init => Forms /\ Ordering BY FormsInit, OrderingInit
<1>2. Forms /\ Ordering /\ [Next]_vars => Forms' /\ Ordering' BY FormsNext, OrderingNext
<1> QED BY <1>1, <1>2, PTL DEF Spec

(* In the compiler as a whole, whose program lowering rewrites and whose *)
(* order reads what formulas and derivations name: exactly the programs *)
(* with a cycle are refused as cyclic, and every other's rules come after *)
(* what they wait on, smallest name first. *)
THEOREM OrderSound == Spec => []OrderExact
<1>1. Ordering => OrderExact
  <2> SUFFICES ASSUME Ordering, OrderDecided PROVE Order!CyclesExact /\ Order!OrderExact
    BY DEF OrderExact
  <2>1. OrderProofs!Inductive BY DEF Ordering, OrderDecided, Lowered
  <2> QED BY <2>1, OrderProofs!CyclesHold, OrderProofs!OrderHolds, CyclesAlike, OrderAlike
<1> QED BY <1>1, FormsHold, PTL

(* Chains: each node followed has the result its link gives or its *)
(* successor's, and a walk's path is of links that pass on. *)
Links(N, V, link) ==
    \A n \in N : /\ link[n].ends => link[n].result \in V
                 /\ ~link[n].ends => link[n].next \in N

Followed(N, V, link) ==
    /\ DOMAIN chain.resolved \subseteq N
    /\ \A n \in DOMAIN chain.resolved :
           /\ chain.resolved[n] \in V
           /\ link[n].ends => chain.resolved[n] = link[n].result
           /\ ~link[n].ends => /\ link[n].next \in DOMAIN chain.resolved
                               /\ chain.resolved[link[n].next] = chain.resolved[n]
    /\ chain.walking =>
           /\ chain = [walking |-> TRUE, at |-> chain.at, path |-> chain.path,
                       resolved |-> chain.resolved]
           /\ chain.at \in N /\ chain.path \subseteq N
           /\ chain.path \cap DOMAIN chain.resolved = {}
           /\ \A n \in chain.path : ~link[n].ends /\ link[n].next \in chain.path \cup {chain.at}

(* The steps of `FollowChains`, by a function. *)
EndBy(link, on_cycle) ==
    /\ chain.walking
    /\ \/ Resolved(chain.at) /\ CloseWalk(chain.path, chain.resolved[chain.at])
       \/ ~Resolved(chain.at) /\ chain.at \in chain.path /\ CloseWalk(chain.path, on_cycle)
       \/ /\ ~Resolved(chain.at) /\ chain.at \notin chain.path
          /\ link[chain.at].ends
          /\ CloseWalk(chain.path \cup {chain.at}, link[chain.at].result)

ExtendBy(link) ==
    /\ chain.walking /\ ~Resolved(chain.at) /\ chain.at \notin chain.path
    /\ ~link[chain.at].ends
    /\ chain' = [chain EXCEPT !.at = link[chain.at].next, !.path = @ \cup {chain.at}]

LEMMA WalkStarted ==
    ASSUME NEW N, NEW V, NEW link, Followed(N, V, link), NEW starts \in SUBSET N, StartWalk(starts)
    PROVE  Followed(N, V, link)'
<1>1. PICK s \in starts \ DOMAIN chain.resolved :
          chain' = [walking |-> TRUE, at |-> s, path |-> {}, resolved |-> chain.resolved]
  BY DEF StartWalk
<1>2. /\ chain'.resolved = chain.resolved /\ chain'.at = s /\ chain'.path = {} /\ s \in N
      /\ chain' = [walking |-> TRUE, at |-> chain'.at, path |-> chain'.path, resolved |-> chain'.resolved]
  BY <1>1
<1> QED BY <1>2 DEF Followed

LEMMA WalkExtended ==
    ASSUME NEW N, NEW V, NEW link, Links(N, V, link), Followed(N, V, link), ExtendBy(link)
    PROVE  Followed(N, V, link)'
<1>1. /\ chain'.resolved = chain.resolved /\ chain'.at = link[chain.at].next
      /\ chain'.path = chain.path \cup {chain.at}
      /\ chain' = [walking |-> TRUE, at |-> chain'.at, path |-> chain'.path, resolved |-> chain'.resolved]
  <2> DEFINE at == chain.at
             path_ == chain.path
             known == chain.resolved
  <2>1. chain = [walking |-> TRUE, at |-> at, path |-> path_, resolved |-> known]
    BY DEF Followed, ExtendBy
  <2> HIDE DEF at, path_, known
  <2>2. chain.at = at /\ chain.path = path_ /\ chain.resolved = known
    BY DEF at, path_, known
  <2>3. chain' = [walking |-> TRUE, at |-> link[at].next, path |-> path_ \cup {at}, resolved |-> known]
    BY <2>1, <2>2 DEF ExtendBy
  <2> QED BY <2>2, <2>3
<1>2. chain.at \in N /\ ~link[chain.at].ends /\ chain.at \notin DOMAIN chain.resolved
  BY DEF Followed, ExtendBy, Resolved
<1> QED BY <1>1, <1>2 DEF Followed, Links, ExtendBy

LEMMA WalkClosed ==
    ASSUME NEW N, NEW V, NEW link, Followed(N, V, link), NEW passed \in SUBSET N, NEW result \in V,
           passed \cap DOMAIN chain.resolved = {},
           \A n \in passed :
               /\ link[n].ends => result = link[n].result
               /\ ~link[n].ends => \/ link[n].next \in passed
                                   \/ /\ link[n].next \in DOMAIN chain.resolved
                                      /\ chain.resolved[link[n].next] = result,
           CloseWalk(passed, result)
    PROVE  Followed(N, V, link)'
<1> DEFINE old == chain.resolved
           new == chain'.resolved
<1>1. /\ DOMAIN new = DOMAIN old \cup passed /\ ~chain'.walking
      /\ \A n \in DOMAIN old \cup passed : new[n] = IF n \in passed THEN result ELSE old[n]
  BY DEF CloseWalk
<1>2. \A n \in DOMAIN old : new[n] = old[n] BY <1>1
<1>3. \A n \in passed : new[n] = result BY <1>1
<1> HIDE DEF new
<1>4. ASSUME NEW n \in DOMAIN new
      PROVE  /\ new[n] \in V
             /\ link[n].ends => new[n] = link[n].result
             /\ ~link[n].ends => link[n].next \in DOMAIN new /\ new[link[n].next] = new[n]
  <2>1. CASE n \in DOMAIN old BY <1>1, <1>2, <2>1 DEF Followed
  <2>2. CASE n \in passed BY <1>1, <1>2, <1>3, <2>2
  <2> QED BY <1>1, <2>1, <2>2
<1>5. DOMAIN new \subseteq N BY <1>1 DEF Followed
<1> QED BY <1>1, <1>4, <1>5 DEF Followed, new

LEMMA WalkEnded ==
    ASSUME NEW N, NEW V, NEW link, Links(N, V, link), Followed(N, V, link),
           NEW on_cycle \in V, EndBy(link, on_cycle)
    PROVE  Followed(N, V, link)'
<1>1. /\ chain.at \in N /\ chain.path \in SUBSET N /\ chain.path \cap DOMAIN chain.resolved = {}
      /\ \A n \in chain.path : ~link[n].ends /\ link[n].next \in chain.path \cup {chain.at}
  BY DEF Followed, EndBy
<1>2. CASE Resolved(chain.at) /\ CloseWalk(chain.path, chain.resolved[chain.at])
  <2>1. chain.at \in DOMAIN chain.resolved /\ chain.resolved[chain.at] \in V
    BY <1>2 DEF Resolved, Followed
  <2> QED BY <1>1, <1>2, <2>1, WalkClosed
<1>3. CASE ~Resolved(chain.at) /\ chain.at \in chain.path /\ CloseWalk(chain.path, on_cycle)
  BY <1>1, <1>3, WalkClosed
<1>4. CASE /\ ~Resolved(chain.at) /\ chain.at \notin chain.path /\ link[chain.at].ends
           /\ CloseWalk(chain.path \cup {chain.at}, link[chain.at].result)
  <2> DEFINE passed == chain.path \cup {chain.at}
             result == link[chain.at].result
  <2>1. passed \in SUBSET N /\ result \in V /\ passed \cap DOMAIN chain.resolved = {}
    BY <1>1, <1>4 DEF Links, Resolved
  <2>2. \A n \in passed : /\ link[n].ends => result = link[n].result
                          /\ ~link[n].ends => link[n].next \in passed
    BY <1>1, <1>4
  <2> HIDE DEF passed, result
  <2>3. CloseWalk(passed, result) BY <1>4 DEF passed, result
  <2> QED BY <2>1, <2>2, <2>3, WalkClosed
<1> QED BY <1>2, <1>3, <1>4 DEF EndBy

-----------------------------------------------------------------------------
(* The tables the check reads: each relation's kinds are those its link *)
(* ends with or its source's, and no entity that stands for its own ids is *)
(* taken for another. *)
DeclaredLinks == [n \in Nat |-> OwnKinds(n)]
FilterLinks == [k \in EntityKinds |-> InnermostLink(k)]

SlotKindsRight ==
    \A r \in Relations :
        /\ slot_kinds[r] \in Seq(EntityKinds)
        /\ OwnKinds(r).ends => slot_kinds[r] = OwnKinds(r).result
        /\ ~OwnKinds(r).ends => slot_kinds[r] = Kinds(OwnKinds(r).next)

FiltersRight == purpose = "typing" => \A e : e \notin Aliases => IdKind(e) = e

Tables ==
    /\ phase = "directing" => chain = NoWalk
    /\ phase = "kinds" => Followed(Nat, Seq(EntityKinds), DeclaredLinks)
    /\ phase = "innermost" => Followed(EntityKinds, EntityKinds \cup {NoKind}, FilterLinks)
    /\ phase \notin Lowered \cup {"kinds"} => SlotKindsRight
    /\ phase \notin Lowered \cup {"kinds", "innermost"} => FiltersRight
    /\ phase \in Lowered \cup {"kinds", "innermost"} => used = {} /\ unchecked = <<>>
    /\ phase # "accepted" => here = Nowhere
    /\ phase = "accepted" => purpose = "typing"

LEMMA NothingFollowed ==
    ASSUME NEW N, NEW V, NEW link, chain = NoWalk
    PROVE  Followed(N, V, link)
<1>1. chain.resolved = <<>> /\ ~chain.walking BY DEF NoWalk
<1>2. DOMAIN chain.resolved = {} BY <1>1
<1> QED BY <1>1, <1>2 DEF Followed

LEMMA OwnKindsKept == program' = program => \A r : OwnKinds(r)' = OwnKinds(r)
<1> SUFFICES ASSUME program' = program, NEW r PROVE OwnKinds(r)' = OwnKinds(r) OBVIOUS
<1>1. \A s : Schema(s)' = Schema(s) BY DEF Schema
<1>2. IsDerived(r)' = IsDerived(r) BY <1>1 DEF IsDerived, Derived
<1> QED BY <1>1, <1>2 DEF OwnKinds

LEMMA FilterLinksKept == program' = program /\ slot_kinds' = slot_kinds => FilterLinks' = FilterLinks
<1> SUFFICES ASSUME program' = program, slot_kinds' = slot_kinds PROVE FilterLinks' = FilterLinks
  OBVIOUS
<1>1. \A s : Schema(s)' = Schema(s) BY DEF Schema
<1>2. Derived' = Derived BY <1>1 DEF Derived
<1>3. \A e : Filters(e)' = Filters(e) BY <1>1, <1>2 DEF Filters
<1>4. Entities' = Entities BY <1>1, <1>2 DEF Entities
<1>5. \A kinds, e : CurrentKinds(kinds, e)' = CurrentKinds(kinds, e)
  BY <1>1, <1>3 DEF CurrentKinds
<1>6. \A kinds : Agreed(kinds)' = Agreed(kinds) BY <1>4, <1>5 DEF Agreed
<1>7. Agreed(slot_kinds)' = Agreed(slot_kinds) BY <1>6
<1> QED BY <1>7 DEF FilterLinks, InnermostLink

(* What a declaration passes on to. *)
LEMMA DeclaredLinksForm ==
    ASSUME ProgramForm(program)
    PROVE  Links(Nat, Seq(EntityKinds), DeclaredLinks)
<1> SUFFICES ASSUME NEW n \in Nat
             PROVE  /\ OwnKinds(n).ends => OwnKinds(n).result \in Seq(EntityKinds)
                    /\ ~OwnKinds(n).ends => OwnKinds(n).next \in Nat
  BY DEF Links, DeclaredLinks
<1>1. CASE n \notin Relations
  BY <1>1, OwnKindsForm DEF OwnKinds, Ends, IsDerived, Derived
<1>2. CASE n \in Relations
  BY <1>2, OwnKindsForm, RelationForm DEF OwnKinds, Ends, Passes, IsDerived, Derived, Schema
<1> QED BY <1>1, <1>2

LEMMA AgreedForm ==
    ASSUME ProgramForm(program), SlotKindsRight, NEW e \in DOMAIN Agreed(slot_kinds)
    PROVE  /\ e \in Entities /\ e \in EntityKinds
           /\ Agreed(slot_kinds)[e] \in CurrentKinds(slot_kinds, e)
           /\ Agreed(slot_kinds)[e] \in EntityKinds
<1>1. e \in Entities /\ Cardinality(CurrentKinds(slot_kinds, e)) = 1
      /\ Agreed(slot_kinds)[e] = CHOOSE k \in CurrentKinds(slot_kinds, e) : TRUE
  BY DEF Agreed
<1>2. e \in EntityKinds BY <1>1, RelationForm DEF Entities, Derived, Schema
<1>3. CurrentKinds(slot_kinds, e) # {}
  <2>1. Cardinality({}) = 0 BY FS_EmptySet
  <2> QED BY <1>1, <2>1
<1>4. Agreed(slot_kinds)[e] \in CurrentKinds(slot_kinds, e) BY <1>1, <1>3
<1>5. CurrentKinds(slot_kinds, e) \subseteq EntityKinds
  <2> SUFFICES ASSUME NEW r \in Filters(e), At(slot_kinds[r], Schema(r).current) # NoKind
               PROVE  At(slot_kinds[r], Schema(r).current) \in EntityKinds
    BY DEF CurrentKinds
  <2>1. r \in Relations /\ Schema(r).current \in Nat /\ slot_kinds[r] \in Seq(EntityKinds)
    BY RelationForm DEF Filters, Derived, Schema, SlotKindsRight
  <2> QED BY <2>1 DEF At
<1> QED BY <1>1, <1>2, <1>4, <1>5

LEMMA FilterLinksForm ==
    ASSUME ProgramForm(program), SlotKindsRight
    PROVE  Links(EntityKinds, EntityKinds \cup {NoKind}, FilterLinks)
<1> SUFFICES ASSUME NEW k \in EntityKinds
             PROVE  /\ InnermostLink(k).ends => InnermostLink(k).result \in EntityKinds
                    /\ ~InnermostLink(k).ends => InnermostLink(k).next \in EntityKinds
  BY DEF Links, FilterLinks
<1>1. CASE k \notin DOMAIN Agreed(slot_kinds)
  BY <1>1 DEF InnermostLink, FilterLink, Ends
<1>2. CASE k \in DOMAIN Agreed(slot_kinds)
  BY <1>2, AgreedForm DEF InnermostLink, FilterLink, Ends, Passes
<1> QED BY <1>1, <1>2

LEMMA NextByNameForm == NextByName \subseteq Nat
<1> DEFINE left == Relations \ DOMAIN chain.resolved
<1>1. CASE left = {} BY <1>1 DEF NextByName
<1>2. CASE left # {}
  <2>1. left \in SUBSET Nat BY NamesAssumption
  <2>2. \E x \in left : \A y \in left : x <= y
    <3> HIDE DEF left
    <3> QED BY <1>2, <2>1, LeastNumber
  <2>3. Least(left) \in left
    <3> HIDE DEF left
    <3> QED BY <2>2 DEF Least
  <2> QED BY <1>2, <2>1, <2>3 DEF NextByName
<1> QED BY <1>1, <1>2

LEMMA KindsStep ==
    ASSUME ProgramForm(program), program' = program,
           Followed(Nat, Seq(EntityKinds), DeclaredLinks),
           FollowChains(NextByName, OwnKinds, Unknown)
    PROVE  Followed(Nat, Seq(EntityKinds), DeclaredLinks)'
<1>1. PICK link : link = DeclaredLinks OBVIOUS
<1>2. DeclaredLinks' = link BY <1>1, OwnKindsKept DEF DeclaredLinks
<1>3. Links(Nat, Seq(EntityKinds), link) /\ Followed(Nat, Seq(EntityKinds), link)
  BY <1>1, DeclaredLinksForm
<1>4. \A n \in Nat : link[n] = OwnKinds(n) BY <1>1 DEF DeclaredLinks
<1>5. Unknown \in Seq(EntityKinds) BY DEF Unknown
<1>6. CASE StartWalk(NextByName)
  <2>1. PICK starts : starts = NextByName OBVIOUS
  <2>2. Followed(Nat, Seq(EntityKinds), link)'
    BY <1>3, <1>6, <2>1, NextByNameForm, WalkStarted
  <2> QED BY <1>2, <2>2
<1>7. CASE EndWalk(OwnKinds, Unknown)
  <2>1. chain.at \in Nat BY <1>3, <1>7 DEF EndWalk, Followed
  <2>2. EndBy(link, Unknown) BY <1>4, <1>7, <2>1 DEF EndWalk, EndBy
  <2>3. Followed(Nat, Seq(EntityKinds), link)' BY <1>3, <1>5, <2>2, WalkEnded
  <2> QED BY <1>2, <2>3
<1>8. CASE ExtendWalk(OwnKinds)
  <2>1. chain.at \in Nat BY <1>3, <1>8 DEF ExtendWalk, Followed
  <2>2. ExtendBy(link) BY <1>4, <1>8, <2>1 DEF ExtendWalk, ExtendBy
  <2>3. Followed(Nat, Seq(EntityKinds), link)' BY <1>3, <2>2, WalkExtended
  <2> QED BY <1>2, <2>3
<1> QED BY <1>6, <1>7, <1>8 DEF FollowChains

LEMMA InnermostStep ==
    ASSUME ProgramForm(program), SlotKindsRight, program' = program, slot_kinds' = slot_kinds,
           Followed(EntityKinds, EntityKinds \cup {NoKind}, FilterLinks),
           FollowChains(DOMAIN Agreed(slot_kinds), InnermostLink, NoKind)
    PROVE  Followed(EntityKinds, EntityKinds \cup {NoKind}, FilterLinks)'
<1> DEFINE V == EntityKinds \cup {NoKind}
<1>1. PICK link : link = FilterLinks OBVIOUS
<1>2. FilterLinks' = link BY <1>1, FilterLinksKept
<1>3. Links(EntityKinds, V, link) /\ Followed(EntityKinds, V, link)
  BY <1>1, FilterLinksForm
<1>4. \A n \in EntityKinds : link[n] = InnermostLink(n) BY <1>1 DEF FilterLinks
<1>5. CASE StartWalk(DOMAIN Agreed(slot_kinds))
  <2>1. PICK starts : starts = DOMAIN Agreed(slot_kinds) OBVIOUS
  <2>2. starts \in SUBSET EntityKinds BY <2>1, AgreedForm
  <2>3. Followed(EntityKinds, V, link)' BY <1>3, <1>5, <2>1, <2>2, WalkStarted
  <2> QED BY <1>2, <2>3
<1>6. CASE EndWalk(InnermostLink, NoKind)
  <2>1. chain.at \in EntityKinds BY <1>3, <1>6 DEF EndWalk, Followed
  <2>2. EndBy(link, NoKind) BY <1>4, <1>6, <2>1 DEF EndWalk, EndBy
  <2>3. Followed(EntityKinds, V, link)' BY <1>3, <2>2, WalkEnded
  <2> QED BY <1>2, <2>3
<1>7. CASE ExtendWalk(InnermostLink)
  <2>1. chain.at \in EntityKinds BY <1>3, <1>7 DEF ExtendWalk, Followed
  <2>2. ExtendBy(link) BY <1>4, <1>7, <2>1 DEF ExtendWalk, ExtendBy
  <2>3. Followed(EntityKinds, V, link)' BY <1>3, <2>2, WalkExtended
  <2> QED BY <1>2, <2>3
<1> QED BY <1>5, <1>6, <1>7 DEF FollowChains

(* The walk changes no table: what it says of a program stays. *)
typing_tables == <<program, slot_kinds, filtered, purpose>>

LEMMA TablesKept ==
    ASSUME UNCHANGED typing_tables
    PROVE  /\ \A r : Schema(r)' = Schema(r)
           /\ Derived' = Derived
           /\ \A r : IsDerived(r)' = IsDerived(r)
           /\ Entities' = Entities
           /\ \A kinds, e : CurrentKinds(kinds, e)' = CurrentKinds(kinds, e)
           /\ \A r : Kinds(r)' = Kinds(r)
           /\ Aliases' = Aliases
           /\ \A e : IdKind(e)' = IdKind(e)
           /\ \A e, k : Fits(e, k)' = Fits(e, k)
           /\ \A r : OwnKinds(r)' = OwnKinds(r)
           /\ \A r : SlotFaults(r)' = SlotFaults(r)
           /\ \A r : TypedSlots(r)' = TypedSlots(r)
           /\ \A r : Own(r)' = Own(r)
           /\ \A r, slots : Diverges(r, slots)' = Diverges(r, slots)
           /\ \A x : Entity(x)' = Entity(x)
           /\ \A x : Formulas(x)' = Formulas(x)
           /\ \A n : TraversedSlots(n)' = TraversedSlots(n)
           /\ \A n : ClauseKind(n)' = ClauseKind(n)
           /\ \A r : WrittenKinds(r)' = WrittenKinds(r)
           /\ \A r : Sources(r)' = Sources(r)
           /\ \A r, e : RoutesToCurrent(r, e)' = RoutesToCurrent(r, e)
<1>0. program' = program /\ slot_kinds' = slot_kinds /\ filtered' = filtered /\ purpose' = purpose
  BY DEF typing_tables
<1>1. \A s : Schema(s)' = Schema(s) BY <1>0 DEF Schema
<1>2. Derived' = Derived BY <1>0, <1>1 DEF Derived
<1>3. \A r : IsDerived(r)' = IsDerived(r) BY <1>0, <1>2 DEF IsDerived
<1>4. \A e : Filters(e)' = Filters(e) BY <1>1, <1>2 DEF Filters
<1>5. Entities' = Entities BY <1>1, <1>2 DEF Entities
<1>6. \A kinds, e : CurrentKinds(kinds, e)' = CurrentKinds(kinds, e)
  BY <1>1, <1>4 DEF CurrentKinds
<1>7. \A r : Kinds(r)' = Kinds(r) BY <1>0 DEF Kinds, Declared
<1>8. Aliases' = Aliases
  <2>1. \A e : CurrentKinds(slot_kinds, e)' = CurrentKinds(slot_kinds, e) BY <1>0, <1>6
  <2> QED BY <1>0, <1>5, <2>1 DEF Aliases
<1>9. \A e : IdKind(e)' = IdKind(e) BY <1>0 DEF IdKind
<1>10. \A e, k : Fits(e, k)' = Fits(e, k) BY <1>9 DEF Fits
<1>11. \A r : OwnKinds(r)' = OwnKinds(r) BY <1>0, OwnKindsKept
<1>12. \A r : SlotFaults(r)' = SlotFaults(r)
  BY <1>1, <1>7, <1>8 DEF SlotFaults, Declared
<1>13. \A r : TypedSlots(r)' = TypedSlots(r) BY <1>7, <1>12 DEF TypedSlots
<1>14. \A r : Own(r)' = Own(r) BY <1>1 DEF Own
<1>15. \A r, slots : Diverges(r, slots)' = Diverges(r, slots)
  BY <1>3, <1>14 DEF Diverges
<1>16. \A x : Entity(x)' = Entity(x) /\ Formulas(x)' = Formulas(x)
  BY <1>0 DEF Entity, Formulas
<1>17. \A n : TraversedSlots(n)' = TraversedSlots(n) BY <1>3, <1>14 DEF TraversedSlots
<1>18. \A n : ClauseKind(n)' = ClauseKind(n) BY <1>13, <1>17 DEF ClauseKind
<1>19. \A r : WrittenKinds(r)' = WrittenKinds(r)
  BY <1>1, <1>3 DEF WrittenKinds, Declared
<1>20. \A r : Sources(r)' = Sources(r) BY <1>1 DEF Sources
<1>21. \A r, e : RoutesToCurrent(r, e)' = RoutesToCurrent(r, e)
  BY <1>1 DEF RoutesToCurrent
<1> QED BY <1>1, <1>2, <1>3, <1>5, <1>6, <1>7, <1>8, <1>9, <1>10, <1>11, <1>12, <1>13, <1>14, <1>15,
           <1>16, <1>17, <1>18, <1>19, <1>20, <1>21

(* ... and what is read and used in bodies. *)
LEMMA BodiesKept ==
    ASSUME program' = program
    PROVE  /\ \A b : RulesRead(b)' = RulesRead(b)
           /\ \A b : TermUses(b)' = TermUses(b)
<1>1. \A b : RulesRead(b)' = RulesRead(b) BY DEF RulesRead
<1>2. \A n, use : Around(n, use)' = Around(n, use) BY DEF Around
<1>3. \A b : TermUses(b)' = TermUses(b) BY <1>2 DEF TermUses
<1> QED BY <1>1, <1>3

LEMMA CodesKept ==
    ASSUME UNCHANGED typing_tables
    PROVE  /\ \A n, e : AggregateCodes(n, e)' = AggregateCodes(n, e)
           /\ \A n, m : MemberCodes(n, m)' = MemberCodes(n, m)
           /\ \A r : SourceFaults(r)' = SourceFaults(r)
           /\ \A r : PredicateStrays(r)' = PredicateStrays(r)
           /\ \A r : PathFaults(r)' = PathFaults(r)
<1>0. program' = program BY DEF typing_tables
<1>1. \A n, e, kinds : KeyedWrong(n, e, kinds)' = KeyedWrong(n, e, kinds)
  BY TablesKept DEF KeyedWrong
<1>2. \A n : RelatedRules(n)' = RelatedRules(n) BY <1>0, BodiesKept DEF RelatedRules
<1>3. \A n, kinds : Strays(n, kinds)' = Strays(n, kinds) BY <1>2, TablesKept DEF Strays
<1>4. \A n, e : AggregateCodes(n, e)' = AggregateCodes(n, e)
  BY <1>1, <1>3, TablesKept DEF AggregateCodes, Declared
<1>5. \A n, m : MemberCodes(n, m)' = MemberCodes(n, m) BY TablesKept DEF MemberCodes
<1>6. \A r : SourceFaults(r)' = SourceFaults(r) BY TablesKept DEF SourceFaults
<1>7. \A r : PredicateStrays(r)' = PredicateStrays(r)
  BY <1>0, BodiesKept, TablesKept DEF PredicateStrays
<1>8. \A r, i : Reached(r, i)' = Reached(r, i) BY TablesKept DEF Reached
<1>9. \A r, i : StepFaults(r, i)' = StepFaults(r, i)
  <2> TAKE r, i
  <2>1. PICK step : step = Schema(r).path[i] OBVIOUS
  <2>2. /\ Schema(r)' = Schema(r) /\ Reached(r, i)' = Reached(r, i)
        /\ Schema(step.relation)' = Schema(step.relation)
        /\ SlotFaults(step.relation)' = SlotFaults(step.relation)
        /\ TypedSlots(step.relation)' = TypedSlots(step.relation)
        /\ Diverges(step.relation, <<step.from, step.to>>)' =
               Diverges(step.relation, <<step.from, step.to>>)
    BY <1>8, TablesKept
  <2> QED BY ONLY <2>1, <2>2 DEF StepFaults, Declared
<1>10. \A r : PathDeclared(r)' = PathDeclared(r) BY TablesKept DEF PathDeclared
<1>11. \A r : PathFaults(r)' = PathFaults(r)
  <2> TAKE r
  <2>1. Schema(r)' = Schema(r) /\ PathDeclared(r)' = PathDeclared(r)
        /\ \A i : StepFaults(r, i)' = StepFaults(r, i) /\ Reached(r, i)' = Reached(r, i)
    BY <1>8, <1>9, <1>10, TablesKept
  <2> QED BY <2>1 DEF PathFaults
<1> QED BY <1>4, <1>5, <1>6, <1>7, <1>11

LEMMA TermsKept ==
    ASSUME UNCHANGED typing_tables
    PROVE  /\ \A r, use : UseFaults(r, use)' = UseFaults(r, use)
           /\ TermViolations' = TermViolations
<1>0. program' = program BY DEF typing_tables
<1>1. \A r, t, bs : TermKind(r, t, bs)' = TermKind(r, t, bs) BY TablesKept DEF TermKind
<1>2. \A r, t, bs : TermFaults(r, t, bs)' = TermFaults(r, t, bs) BY <1>1 DEF TermFaults
<1>3. \A r, n, free, bs : AtomFaults(r, n, free, bs)' = AtomFaults(r, n, free, bs)
  <2> TAKE r, n, free, bs
  <2>1. /\ WrittenKinds(n.relation)' = WrittenKinds(n.relation) /\ Schema(n.relation)' = Schema(n.relation)
        /\ IsDerived(n.relation)' = IsDerived(n.relation) /\ SlotFaults(n.relation)' = SlotFaults(n.relation)
        /\ \A t : TermKind(r, t, bs)' = TermKind(r, t, bs) /\ TermFaults(r, t, bs)' = TermFaults(r, t, bs)
    BY <1>1, <1>2, TablesKept
  <2> DEFINE checked == {i \in 1..Len(n.terms) : i - 1 # free}
             Off == \E i \in checked : /\ TermKind(r, n.terms[i], bs) # NoKind
                                      /\ At(WrittenKinds(n.relation), i - 1) \notin
                                             {NoKind, TermKind(r, n.terms[i], bs)}
             of == UNION {TermFaults(r, n.terms[i], bs) : i \in checked}
  <2>2. (Off <=> Off') /\ of' = of BY <2>1
  <2> DEFINE kinds == WrittenKinds(n.relation)
             All(derived, arity, typed, faults, found, off) ==
                 found \cup
                 Fault(Code("derived_relation_atom_arity_unsupported", derived /\ arity # 2) \cup
                       Code("relation_atom_arity_mismatch", Len(n.terms) # arity) \cup
                       (IF typed THEN faults ELSE {"relation_atom_needs_typed_relation"}) \cup
                       Code("relation_atom_kind_mismatch", off), n.relation, r)
             all == IF ~Declared(n.relation) THEN Fault({"unknown_relation"}, n.relation, r)
                    ELSE All(IsDerived(n.relation), Schema(n.relation).arity, kinds # Unknown,
                             SlotFaults(n.relation), of, Off)
  <2>3. AtomFaults(r, n, free, bs) = all BY DEF AtomFaults
  <2>4. AtomFaults(r, n, free, bs)' = all' BY DEF AtomFaults
  <2>5. all' = all
    <3> HIDE DEF Off, of, checked, All
    <3>1. kinds' = kinds BY <2>1
    <3>2. (IsDerived(n.relation) <=> IsDerived(n.relation)') /\ (Off <=> Off')
          /\ ((kinds # Unknown) <=> (kinds # Unknown)')
      BY <2>1, <2>2, <3>1
    <3> HIDE DEF kinds
    <3> QED BY <2>1, <2>2, <3>2 DEF Declared, All, Fault, Code
  <2> QED BY <2>3, <2>4, <2>5
<1>4. \A r, n, bs : ExistsFaults(r, n, bs)' = ExistsFaults(r, n, bs)
  <2> TAKE r, n, bs
  <2>1. /\ Schema(n.relation)' = Schema(n.relation) /\ Schema(r)' = Schema(r)
        /\ IsDerived(n.relation)' = IsDerived(n.relation)
        /\ AtomFaults(r, n, n.slot, bs)' = AtomFaults(r, n, n.slot, bs)
    BY <1>3, TablesKept
  <2> QED BY <2>1 DEF ExistsFaults
<1>5. \A r, n, bs : ReadFaults(r, n, bs)' = ReadFaults(r, n, bs)
  BY <1>1, <1>2, TablesKept DEF ReadFaults
<1>6. \A r, n, bs : SameFaults(r, n, bs)' = SameFaults(r, n, bs)
  BY <1>1, <1>2 DEF SameFaults
<1>7. \A r, use : UseFaults(r, use)' = UseFaults(r, use)
  BY <1>3, <1>4, <1>5, <1>6 DEF UseFaults
<1>8. TermViolations' = TermViolations
  BY <1>0, <1>7, BodiesKept, CodesKept, TablesKept DEF TermViolations
<1> QED BY <1>7, <1>8

LEMMA RightKept ==
    ASSUME UNCHANGED typing_tables
    PROVE  (SlotKindsRight <=> SlotKindsRight') /\ (FiltersRight <=> FiltersRight')
<1>1. purpose' = purpose /\ slot_kinds' = slot_kinds BY DEF typing_tables
<1>2. SlotKindsRight <=> SlotKindsRight' BY <1>1, TablesKept DEF SlotKindsRight
<1>3. FiltersRight <=> FiltersRight' BY <1>1, TablesKept DEF FiltersRight
<1> QED BY <1>2, <1>3

LEMMA TablesInit == Init => Tables
<1> SUFFICES ASSUME Init PROVE Tables OBVIOUS
<1>1. /\ phase \in {"declared", "kinds"} /\ chain = NoWalk /\ used = {} /\ unchecked = <<>>
      /\ here = Nowhere
  BY DEF Init, TypingInit
<1>2. Followed(Nat, Seq(EntityKinds), DeclaredLinks) BY <1>1, NothingFollowed
<1> QED BY <1>1, <1>2 DEF Tables, Lowered

(* Reading the kinds the chains have found. *)
LEMMA KindsRead ==
    ASSUME Followed(Nat, Seq(EntityKinds), DeclaredLinks), ReadKinds
    PROVE  SlotKindsRight'
<1>1. /\ \A r \in Relations : r \in DOMAIN chain.resolved /\ slot_kinds'[r] = chain.resolved[r]
      /\ program' = program
  BY DEF ReadKinds, AllFollowed
<1>2. \A n \in Nat : DeclaredLinks[n] = OwnKinds(n) BY DEF DeclaredLinks
<1> SUFFICES ASSUME NEW r \in Relations
             PROVE  /\ slot_kinds'[r] \in Seq(EntityKinds)
                    /\ OwnKinds(r).ends => slot_kinds'[r] = OwnKinds(r).result
                    /\ ~OwnKinds(r).ends => slot_kinds'[r] = Kinds(OwnKinds(r).next)'
  BY <1>1, OwnKindsKept DEF SlotKindsRight
<1>3. r \in Nat BY NamesAssumption
<1>4. slot_kinds'[r] \in Seq(EntityKinds) /\ (OwnKinds(r).ends => slot_kinds'[r] = OwnKinds(r).result)
  BY <1>1, <1>2, <1>3 DEF Followed
<1>5. ASSUME ~OwnKinds(r).ends PROVE slot_kinds'[r] = Kinds(OwnKinds(r).next)'
  <2> DEFINE s == OwnKinds(r).next
  <2>1. s \in DOMAIN chain.resolved /\ chain.resolved[s] = chain.resolved[r] /\ s \in Nat
    BY <1>1, <1>2, <1>3, <1>5 DEF Followed
  <2> HIDE DEF s
  <2>2. PICK t : t = s OBVIOUS
  <2>3. CASE t \in Relations
    <3>1. Kinds(t)' = slot_kinds'[t] BY <2>3 DEF Kinds, Declared
    <3>2. s' = s BY <1>1, OwnKindsKept DEF s
    <3> QED BY <1>1, <2>1, <2>2, <2>3, <3>1, <3>2 DEF s
  <2>4. CASE t \notin Relations
    <3>1. Kinds(t)' = Unknown BY <2>4 DEF Kinds, Declared
    <3>2. OwnKinds(t) = Ends(Unknown) BY <2>4 DEF OwnKinds, IsDerived, Derived
    <3>3. chain.resolved[t] = Unknown BY <1>2, <2>1, <2>2, <3>2 DEF Followed, Ends
    <3>4. s' = s BY <1>1, OwnKindsKept DEF s
    <3> QED BY <1>1, <2>1, <2>2, <3>1, <3>3, <3>4 DEF s
  <2> QED BY <2>3, <2>4
<1> QED BY <1>4, <1>5

(* An entity all of whose filters are queried with its own ids ends its *)
(* chain itself. *)
LEMMA FiltersRead ==
    ASSUME ProgramForm(program), SlotKindsRight,
           Followed(EntityKinds, EntityKinds \cup {NoKind}, FilterLinks), StartChecking
    PROVE  FiltersRight'
<1>1. program' = program /\ slot_kinds' = slot_kinds BY DEF StartChecking
<1> SUFFICES ASSUME purpose' = "typing", NEW e, (e \notin Aliases)'
             PROVE  IdKind(e)' = e
  BY DEF FiltersRight
<1>2. CASE e \notin DOMAIN filtered' BY <1>2 DEF IdKind
<1>3. CASE e \in DOMAIN filtered'
  <2>1. filtered' = [d \in {d \in DOMAIN Agreed(slot_kinds) : chain.resolved[d] # NoKind} |->
                         chain.resolved[d]]
    BY DEF StartChecking
  <2>2. e \in DOMAIN Agreed(slot_kinds) /\ filtered'[e] = chain.resolved[e]
        /\ e \in DOMAIN chain.resolved
    BY <1>3, <2>1 DEF StartChecking, AllFollowed
  <2>3. e \in Entities /\ e \in EntityKinds
        /\ Agreed(slot_kinds)[e] \in CurrentKinds(slot_kinds, e)
    BY <2>2, AgreedForm
  <2>4. CurrentKinds(slot_kinds, e) \ {e} = {}
    <3>1. Schema(e)' = Schema(e) /\ \A r : Schema(r)' = Schema(r) BY <1>1 DEF Schema
    <3>2. Derived' = Derived BY <3>1 DEF Derived
    <3>3. Entities' = Entities /\ Filters(e)' = Filters(e)
      BY <3>1, <3>2 DEF Entities, Filters
    <3>4. CurrentKinds(slot_kinds, e)' = CurrentKinds(slot_kinds, e)
      BY <1>1, <3>1, <3>3 DEF CurrentKinds
    <3> QED BY <2>3, <3>3, <3>4 DEF Aliases
  <2>5. Agreed(slot_kinds)[e] = e BY <2>3, <2>4
  <2>6. FilterLinks[e] = Ends(e)
    BY <2>2, <2>3, <2>5 DEF FilterLinks, InnermostLink, FilterLink
  <2>7. chain.resolved[e] = e BY <2>2, <2>6 DEF Followed, Ends
  <2> QED BY <1>3, <2>2, <2>7 DEF IdKind
<1> QED BY <1>2, <1>3

LEMMA ChainsBegin ==
    (chain = NoWalk => /\ Followed(Nat, Seq(EntityKinds), DeclaredLinks)
                       /\ Followed(EntityKinds, EntityKinds \cup {NoKind}, FilterLinks))'
<1>1. chain = NoWalk => /\ Followed(Nat, Seq(EntityKinds), DeclaredLinks)
                        /\ Followed(EntityKinds, EntityKinds \cup {NoKind}, FilterLinks)
  BY NothingFollowed
<1> QED BY <1>1, PTL

LEMMA TablesLowering ==
    ASSUME Forms, Forms', Tables, Lowering
    PROVE  Tables'
<1>1. /\ UNCHANGED <<here, used, unchecked>> /\ phase \in Lowered
      /\ phase' \in Lowered \cup {"kinds"}
  BY DEF Lowering, checker, Direct, Lowered, DeclareKinds, DirectAggregate, RefuseAggregate,
     DirectMember, RefuseMember, DirectTerms, DirectOther, StampKinds, Directing, Onward, Refuse
<1>2. phase' = "directing" => chain' = NoWalk
  BY DEF Lowering, Direct, DeclareKinds, DirectAggregate, RefuseAggregate, DirectMember, Tables,
     RefuseMember, DirectTerms, DirectOther, StampKinds, Directing, Onward, Refuse
<1>3. phase' = "kinds" => chain' = NoWalk
  BY <1>1 DEF Lowering, Direct, DeclareKinds, DirectAggregate, RefuseAggregate, DirectMember, Tables,
     RefuseMember, DirectTerms, DirectOther, StampKinds, Directing, Onward, Refuse, Lowered
<1>4. here' = Nowhere /\ used' = {} /\ unchecked' = <<>> BY <1>1 DEF Tables, Lowered
<1> QED BY <1>1, <1>2, <1>3, <1>4, ChainsBegin DEF Tables, Lowered

LEMMA TablesChecking ==
    ASSUME Forms, Tables, Check, UNCHANGED here
    PROVE  Tables'
<1>0. ProgramForm(program) /\ program' = program BY CheckingPhase DEF Forms
<1>1. CASE phase = "kinds" /\ FollowChains(NextByName, OwnKinds, Unknown)
           /\ UNCHANGED <<program, phase, direction, checker>>
  <2>1. Followed(Nat, Seq(EntityKinds), DeclaredLinks)'
    BY <1>0, <1>1, KindsStep DEF Tables
  <2> QED BY <1>1, <2>1 DEF Tables, Lowered, checker
<1>2. CASE phase = "innermost" /\ FollowChains(DOMAIN Agreed(slot_kinds), InnermostLink, NoKind)
           /\ UNCHANGED <<program, phase, direction, checker>>
  <2>1. SlotKindsRight /\ Followed(EntityKinds, EntityKinds \cup {NoKind}, FilterLinks)
    BY <1>2 DEF Tables, Lowered
  <2>2. slot_kinds' = slot_kinds BY <1>2 DEF checker
  <2>3. Followed(EntityKinds, EntityKinds \cup {NoKind}, FilterLinks)'
    BY <1>0, <1>2, <2>1, <2>2, InnermostStep
  <2>4. SlotKindsRight' BY <1>2, <2>1, RightKept DEF typing_tables, checker
  <2> QED BY <1>2, <2>3, <2>4 DEF Tables, Lowered, checker
<1>3. CASE ReadKinds
  <2>1. SlotKindsRight' BY <1>3, KindsRead DEF Tables, ReadKinds
  <2>2. phase = "kinds" /\ phase' = "innermost" /\ chain' = NoWalk /\ UNCHANGED <<used, unchecked>>
    BY <1>3 DEF ReadKinds
  <2> QED BY <2>1, <2>2, ChainsBegin DEF Tables, Lowered
<1>4. CASE StartChecking
  <2>1. /\ phase = "innermost" /\ phase' = "walking" /\ UNCHANGED <<program, slot_kinds>>
    BY <1>4 DEF StartChecking
  <2>2. SlotKindsRight /\ Followed(EntityKinds, EntityKinds \cup {NoKind}, FilterLinks)
    BY <2>1 DEF Tables, Lowered
  <2>3. FiltersRight' BY <1>0, <1>4, <2>2, FiltersRead
  <2>4. SlotKindsRight'
    <3>1. \A r : OwnKinds(r)' = OwnKinds(r) BY <2>1, OwnKindsKept
    <3>2. \A r : Kinds(r)' = Kinds(r) BY <2>1 DEF Kinds, Declared
    <3> QED BY <2>1, <2>2, <3>1, <3>2 DEF SlotKindsRight
  <2> QED BY <2>1, <2>3, <2>4 DEF Tables, Lowered
<1>5. CASE CheckAggregate \/ CheckMember \/ CheckTerms \/ CheckOther \/ CheckDerived
           \/ CheckRoles \/ ReturnUsed
  <2>1. /\ UNCHANGED typing_tables /\ phase = "walking"
        /\ phase' \in {"walking", "accepted", "ill-typed", "executed"}
        /\ phase' = "accepted" => purpose = "typing"
    BY <1>5 DEF CheckAggregate, CheckMember, CheckTerms, CheckOther, CheckDerived, CheckRoles,
       ReturnUsed, Keep, Walking, Checked, typing_tables, checker
  <2>2. SlotKindsRight' /\ FiltersRight' BY <2>1, RightKept DEF Tables, Lowered
  <2> QED BY <2>1, <2>2 DEF Tables, Lowered, typing_tables
<1> QED BY <1>1, <1>2, <1>3, <1>4, <1>5 DEF Check

LEMMA TablesNext == Forms /\ Forms' /\ Tables /\ [Next]_vars => Tables'
<1> SUFFICES ASSUME Forms, Forms', Tables, [Next]_vars PROVE Tables' OBVIOUS
<1>1. CASE UNCHANGED <<typing_vars, here>>
  <2>1. UNCHANGED typing_tables /\ UNCHANGED <<phase, chain, used, unchecked, here>>
    BY <1>1 DEF typing_tables, typing_vars
  <2>2. DeclaredLinks' = DeclaredLinks
    BY <2>1, OwnKindsKept DEF DeclaredLinks, typing_tables
  <2>3. FilterLinks' = FilterLinks BY <2>1, FilterLinksKept DEF typing_tables
  <2>4. Followed(Nat, Seq(EntityKinds), DeclaredLinks) => Followed(Nat, Seq(EntityKinds), DeclaredLinks)'
    BY <2>1, <2>2 DEF Followed
  <2>5. Followed(EntityKinds, EntityKinds \cup {NoKind}, FilterLinks)
          => Followed(EntityKinds, EntityKinds \cup {NoKind}, FilterLinks)'
    BY <2>1, <2>3 DEF Followed
  <2> QED BY <2>1, <2>4, <2>5, RightKept DEF Tables, typing_tables
<1>2. CASE Lowering BY <1>2, TablesLowering
<1>3. CASE FindOrder \/ DeriveInterface BY <1>1, <1>3 DEF FindOrder, DeriveInterface
<1>4. CASE Check /\ UNCHANGED here BY <1>4, TablesChecking
<1>5. CASE Evaluate
  <2>1. UNCHANGED typing_tables /\ UNCHANGED <<phase, chain, used, unchecked>>
    BY <1>5 DEF Evaluate, Query, Read, Traverse, typing_tables, typing_vars
  <2>2. phase = "accepted" BY <1>5 DEF Evaluate, Query, Read, Traverse, Tables, Nowhere
  <2> QED BY <2>1, <2>2, RightKept DEF Tables, Lowered, typing_tables
<1>6. CASE UNCHANGED vars BY <1>1, <1>6 DEF vars
<1> QED BY <1>2, <1>3, <1>4, <1>5, <1>6 DEF Next, Compile, Lowering

-----------------------------------------------------------------------------
(* Lists. *)
LEMMA Upward ==
    ASSUME NEW N \in Nat, NEW A, 0 \in A, \A k \in 1..N : k - 1 \in A => k \in A
    PROVE  0..N \subseteq A
<1> DEFINE Out == (0..N) \ A
<1> SUFFICES ASSUME Out # {} PROVE FALSE OBVIOUS
<1>1. Out \in SUBSET Nat OBVIOUS
<1> HIDE DEF Out
<1>2. PICK m \in Out : \A k \in Out : m <= k BY <1>1, LeastNumber
<1>3. m \in 0..N /\ m \notin A BY DEF Out
<1>4. m # 0 /\ m \in 1..N /\ m - 1 \in 0..N /\ ~(m <= m - 1) BY <1>3
<1>5. m - 1 \in A BY <1>2, <1>4 DEF Out
<1> QED BY <1>3, <1>4, <1>5

LEMMA ConcatElements ==
    ASSUME NEW V, NEW s \in Seq(V), NEW t \in Seq(V)
    PROVE  s \o t \in Seq(V) /\ Elements(s \o t) = Elements(s) \cup Elements(t)
<1>1. /\ s \o t \in Seq(V) /\ Len(s \o t) = Len(s) + Len(t) /\ Len(s) \in Nat /\ Len(t) \in Nat
      /\ \A i \in 1..(Len(s) + Len(t)) : (s \o t)[i] = IF i <= Len(s) THEN s[i] ELSE t[i - Len(s)]
  BY ConcatProperties
<1>2. Elements(s) \subseteq Elements(s \o t)
  <2> SUFFICES ASSUME NEW i \in 1..Len(s) PROVE s[i] \in Elements(s \o t)
    BY DEF Elements
  <2>1. i \in 1..(Len(s) + Len(t)) /\ (s \o t)[i] = s[i] BY <1>1
  <2> QED BY <1>1, <2>1 DEF Elements
<1>3. Elements(t) \subseteq Elements(s \o t)
  <2> SUFFICES ASSUME NEW i \in 1..Len(t) PROVE t[i] \in Elements(s \o t)
    BY DEF Elements
  <2>1. /\ i + Len(s) \in 1..(Len(s) + Len(t)) /\ ~(i + Len(s) <= Len(s)) /\ i + Len(s) - Len(s) = i
    BY <1>1
  <2>2. (s \o t)[i + Len(s)] = t[i] BY <1>1, <2>1
  <2> QED BY <1>1, <2>1, <2>2 DEF Elements
<1>4. Elements(s \o t) \subseteq Elements(s) \cup Elements(t)
  <2> SUFFICES ASSUME NEW i \in 1..(Len(s) + Len(t))
               PROVE  (s \o t)[i] \in Elements(s) \cup Elements(t)
    BY <1>1 DEF Elements
  <2>1. CASE i <= Len(s) BY <1>1, <2>1 DEF Elements
  <2>2. CASE ~(i <= Len(s))
    <3>1. i - Len(s) \in 1..Len(t) /\ (s \o t)[i] = t[i - Len(s)] BY <1>1, <2>2
    <3> QED BY <3>1 DEF Elements
  <2> QED BY <2>1, <2>2
<1> QED BY <1>1, <1>2, <1>3, <1>4

LEMMA JoinedForm ==
    ASSUME NEW V, NEW lists \in Seq(Seq(V))
    PROVE  /\ Joined(lists) \in Seq(V)
           /\ \A i \in 1..Len(lists) : Elements(lists[i]) \subseteq Elements(Joined(lists))
<1> DEFINE N == Len(lists)
           Gen(f) == [i \in 0..N |-> IF i = 0 THEN <<>> ELSE f[i - 1] \o lists[i]]
           upto == CHOOSE f : f = Gen(f)
           h == [x \in (1..N) \X Seq(V) |-> x[2] \o lists[x[1]]]
<1>1. Joined(lists) = upto[N] BY DEF Joined
<1>2. N \in Nat /\ \A i \in 1..N : lists[i] \in Seq(V) OBVIOUS
<1> HIDE DEF N
<1>3. /\ \A x \in (1..N) \X Seq(V) : h[x] = x[2] \o lists[x[1]] /\ h[x] \in Seq(V)
      /\ h \in [(1..N) \X Seq(V) -> Seq(V)]
  <2>1. \A x \in (1..N) \X Seq(V) : x[2] \o lists[x[1]] \in Seq(V)
    BY <1>2, ConcatProperties
  <2> QED BY <2>1
<1>4. \A k \in 1..N : \A s \in Seq(V) : h[<<k, s>>] = s \o lists[k] OBVIOUS
<1> HIDE DEF h
<1>5. <<>> \in Seq(V) OBVIOUS
<1>6. PICK f \in [0..N -> Seq(V)] : Follows(N, <<>>, h, f)
  BY <1>2, <1>3, <1>5, Iterating
<1>7. f = Gen(f)
  <2>1. \A i \in 0..N : f[i] = IF i = 0 THEN <<>> ELSE f[i - 1] \o lists[i]
    <3> TAKE i \in 0..N
    <3>1. CASE i = 0 BY <1>6, <3>1 DEF Follows
    <3>2. CASE i # 0
      <4>1. i \in 1..N /\ i - 1 \in 0..N BY <1>2, <3>2
      <4>2. f[i - 1] \in Seq(V) /\ f[i] = h[<<i, f[i - 1]>>] BY <1>6, <4>1 DEF Follows
      <4> QED BY <1>4, <3>2, <4>1, <4>2
    <3> QED BY <3>1, <3>2
  <2> QED BY <2>1
<1>8. upto = Gen(upto) BY <1>7
<1> HIDE DEF upto
<1>12. \A k \in 0..N : upto[k] = IF k = 0 THEN <<>> ELSE upto[k - 1] \o lists[k] BY <1>8
<1> DEFINE Holds == {k \in 0..N : /\ upto[k] \in Seq(V)
                                  /\ \A i \in 1..k : Elements(lists[i]) \subseteq Elements(upto[k])}
<1>9. 0 \in Holds
  <2>1. 0 \in 0..N /\ 1..0 = {} BY <1>2
  <2>2. upto[0] = <<>> /\ upto[0] \in Seq(V) BY <1>5, <1>12, <2>1
  <2> QED BY <2>1, <2>2
<1>10. ASSUME NEW k \in 1..N, k - 1 \in Holds PROVE k \in Holds
  <2>0. k \in 0..N /\ k # 0 BY <1>2
  <2>1. upto[k] = upto[k - 1] \o lists[k] /\ upto[k - 1] \in Seq(V) /\ lists[k] \in Seq(V)
    BY <1>2, <1>10, <1>12, <2>0
  <2>2. upto[k] \in Seq(V) /\ Elements(upto[k]) = Elements(upto[k - 1]) \cup Elements(lists[k])
    BY <2>1, ConcatElements
  <2>3. \A i \in 1..k : i = k \/ i \in 1..(k - 1) OBVIOUS
  <2>4. \A i \in 1..k : Elements(lists[i]) \subseteq Elements(upto[k])
    BY <1>10, <2>2, <2>3
  <2> QED BY <2>0, <2>2, <2>4
<1> HIDE DEF Holds
<1>13. 0..N \subseteq Holds BY <1>2, <1>9, <1>10, Upward
<1>11. N \in Holds BY <1>2, <1>13
<1> QED BY <1>1, <1>11 DEF Holds, N

LEMMA InOrderForm ==
    ASSUME NEW S \in SUBSET Nat, IsFiniteSet(S)
    PROVE  /\ Cardinality(S) \in Nat
           /\ \A i \in 1..Cardinality(S) : InOrder(S)[i] \in S
           /\ \A x \in S : \E i \in 1..Cardinality(S) : InOrder(S)[i] = x
<1> DEFINE N == Cardinality(S)
           upto(x) == {y \in S : y <= x}
           rank == [x \in S |-> Cardinality(upto(x))]
<1>1. N \in Nat BY FS_CardinalityType
<1>2. ASSUME NEW x \in S
      PROVE  rank[x] \in 1..N
  <2>1. upto(x) \in SUBSET S /\ x \in upto(x) OBVIOUS
  <2>2. IsFiniteSet(upto(x)) /\ Cardinality(upto(x)) <= N BY <2>1, FS_Subset
  <2>3. Cardinality(upto(x)) \in Nat /\ Cardinality(upto(x)) # 0
    BY <2>1, <2>2, FS_CardinalityType, FS_EmptySet
  <2> HIDE DEF upto
  <2> QED BY <1>1, <2>2, <2>3
<1>3. ASSUME NEW x \in S, NEW y \in S, x < y PROVE rank[x] < rank[y]
  <2>1. upto(x) \in SUBSET upto(y) /\ y \in upto(y) /\ y \notin upto(x)
    <3>1. \A z \in S : z \in Int OBVIOUS
    <3>2. \A z \in S : z <= x => z <= y BY <1>3, <3>1
    <3>3. y <= y /\ ~(y <= x) BY <1>3, <3>1
    <3> QED BY <3>2, <3>3
  <2>2. upto(y) \in SUBSET S OBVIOUS
  <2>3. IsFiniteSet(upto(y)) BY <2>2, FS_Subset
  <2>4. Cardinality(upto(x)) <= Cardinality(upto(y)) /\ IsFiniteSet(upto(x))
    BY <2>1, <2>3, FS_Subset
  <2>5. Cardinality(upto(x)) # Cardinality(upto(y)) BY <2>1, <2>3, FS_Subset
  <2>6. Cardinality(upto(x)) \in Nat /\ Cardinality(upto(y)) \in Nat
    BY <2>3, <2>4, FS_CardinalityType
  <2> HIDE DEF upto
  <2> QED BY <2>4, <2>5, <2>6
<1>4. \A i \in 1..N : InOrder(S)[i] = CHOOSE x \in S : rank[x] = i BY DEF InOrder
<1> HIDE DEF rank
<1>5. \A x, y \in S : rank[x] = rank[y] => x = y
  <2> SUFFICES ASSUME NEW x \in S, NEW y \in S, rank[x] = rank[y], x # y PROVE FALSE
    OBVIOUS
  <2>1. x < y \/ y < x OBVIOUS
  <2>2. rank[x] \in Int /\ rank[y] \in Int BY <1>1, <1>2
  <2> QED BY <1>3, <2>1, <2>2
<1>6. DOMAIN rank = S BY DEF rank
<1>7. rank \in Injection(S, 1..N)
  <2>1. rank \in [S -> 1..N] BY <1>2, <1>6 DEF rank
  <2> QED BY <1>5, <2>1 DEF Injection, IsInjective
<1>8. IsFiniteSet(1..N) /\ Cardinality(1..N) = N BY <1>1, FS_Interval
<1>9. rank \in Surjection(S, 1..N) BY <1>7, <1>8, FS_Injection
<1>10. \A i \in 1..N : \E x \in S : rank[x] = i BY <1>9 DEF Surjection
<1>11. \A i \in 1..N : InOrder(S)[i] \in S /\ rank[InOrder(S)[i]] = i BY <1>4, <1>10
<1>12. \A x \in S : InOrder(S)[rank[x]] = x BY <1>2, <1>5, <1>11
<1> QED BY <1>1, <1>2, <1>11, <1>12

LEMMA UseForm ==
    ASSUME NEW list \in Seq(Nat), NEW queue \in Seq(Nat), Use(list, queue)
    PROVE  /\ used' = used \cup Elements(list) /\ unchecked' \in Seq(Nat)
           /\ Elements(queue) \subseteq Elements(unchecked')
           /\ Elements(list) \ used \subseteq Elements(unchecked')
<1> DEFINE lists == [i \in 1..Len(list) |->
                        IF list[i] \in used \cup {list[j] : j \in 1..(i - 1)} THEN <<>> ELSE <<list[i]>>]
<1>1. used' = used \cup Elements(list) /\ unchecked' = queue \o Joined(lists) BY DEF Use
<1>2. lists \in Seq(Seq(Nat)) /\ Len(lists) = Len(list)
  <2>1. \A i \in 1..Len(list) : list[i] \in Nat OBVIOUS
  <2>2. \A i \in 1..Len(list) : lists[i] \in Seq(Nat) BY <2>1
  <2> QED BY <2>2
<1>3. \A i \in 1..Len(list) :
          list[i] \notin used /\ (\A j \in 1..(i - 1) : list[j] # list[i]) => lists[i] = <<list[i]>>
  OBVIOUS
<1> HIDE DEF lists
<1>4. /\ Joined(lists) \in Seq(Nat)
      /\ \A i \in 1..Len(list) : Elements(lists[i]) \subseteq Elements(Joined(lists))
  BY <1>2, JoinedForm
<1>5. unchecked' \in Seq(Nat) /\ Elements(unchecked') = Elements(queue) \cup Elements(Joined(lists))
  BY <1>1, <1>4, ConcatElements
<1>6. Elements(list) \ used \subseteq Elements(Joined(lists))
  <2> SUFFICES ASSUME NEW x \in Elements(list), x \notin used PROVE x \in Elements(Joined(lists))
    OBVIOUS
  <2> DEFINE At_ == {i \in 1..Len(list) : list[i] = x}
  <2>1. At_ # {} /\ At_ \in SUBSET Nat BY DEF Elements
  <2>2. PICK m \in At_ : \A i \in At_ : m <= i
    <3> HIDE DEF At_
    <3> QED BY <2>1, LeastNumber
  <2>3. m \in 1..Len(list) /\ list[m] = x BY <2>2
  <2>4. \A j \in 1..(m - 1) : list[j] # list[m]
    <3> SUFFICES ASSUME NEW j \in 1..(m - 1), list[j] = list[m] PROVE FALSE OBVIOUS
    <3>1. j \in 1..Len(list) /\ ~(m <= j) BY <2>3
    <3> QED BY <2>2, <2>3, <3>1
  <2>5. lists[m] = <<x>> BY <1>3, <2>3, <2>4
  <2>6. x \in Elements(<<x>>)
    <3>1. \A s : s = <<x>> => Len(s) = 1 /\ s[1] = x /\ 1 \in 1..Len(s) OBVIOUS
    <3> QED BY <3>1 DEF Elements
  <2> QED BY <1>4, <2>3, <2>5, <2>6
<1> QED BY <1>1, <1>5, <1>6

(* What the walk has settled: `S` are the nodes met, with what is passed *)
(* to each, `U` the relations used, `left` and `queue` what is still to be *)
(* visited and checked. *)
VisitOf(node, entity, member, citing) ==
    [node |-> node, entity |-> entity, member |-> member, citing |-> citing]
Met(body, entity, member, citing, S) ==
    \A i \in 1..Len(body) : VisitOf(body[i], entity, member, citing) \in S

Settled(v, S, U) ==
    LET n == program.nodes[v.node]
    IN  /\ n.op \in {"aggregate", "only"} =>
               /\ n.relation \in U /\ AggregateCodes(n, v.entity) = {}
               /\ Met(n.body, ClauseKind(n), NoMember, v.citing, S)
        /\ n.op = "member" => n.relation \in U /\ MemberCodes(n, v.member) = {}
        /\ n.op \in {"atom", "exists"} =>
               n.relation \in U /\ Met(n.body, v.entity, v.member, v.citing, S)
        /\ n.op \in {"rule", "unbound", "read", "same"} =>
               Met(n.body, v.entity, NoMember, v.citing, S)

SettledDerivation(r, S, U) ==
    /\ Elements(Sources(r)) \subseteq U
    /\ Schema(r).path = <<>> => SourceFaults(r) = {}
    /\ PredicateStrays(r) = {}
    /\ LET current == At(Kinds(r), Schema(r).current)
           related == At(Kinds(r), Schema(r).related)
       IN  Met(Schema(r).predicate, related, Bound(current, related), r, S)

Walked(S, left, U, queue) ==
    /\ left \in Seq(S) /\ queue \in Seq(Nat)
    /\ \A v \in S : v.node \in 1..Len(program.nodes)
    /\ \A x \in Rules : Met(Formulas(x), Entity(x), NoMember, x, S)
    /\ \A v \in S : v \in Elements(left) \/ Settled(v, S, U)
    /\ \A r \in U : r \in Elements(queue) \/ ~IsDerived(r) \/ SettledDerivation(r, S, U)

LEMMA MetMore ==
    ASSUME NEW body, NEW entity, NEW member, NEW citing, NEW S, NEW T, S \subseteq T,
           Met(body, entity, member, citing, S)
    PROVE  Met(body, entity, member, citing, T)
BY DEF Met

LEMMA SettledMore ==
    ASSUME NEW S, NEW T, S \subseteq T, NEW U, NEW W, U \subseteq W
    PROVE  /\ \A v : Settled(v, S, U) => Settled(v, T, W)
           /\ \A r : SettledDerivation(r, S, U) => SettledDerivation(r, T, W)
<1>1. ASSUME NEW v, Settled(v, S, U) PROVE Settled(v, T, W) BY <1>1, MetMore DEF Settled
<1>2. ASSUME NEW r, SettledDerivation(r, S, U) PROVE SettledDerivation(r, T, W)
  BY <1>2, MetMore DEF SettledDerivation
<1> QED BY <1>1, <1>2

(* What a step of the walk must do to keep this. *)
LEMMA WalkStep ==
    ASSUME NEW S, NEW left, NEW U, NEW queue, Walked(S, left, U, queue),
           NEW T, S \subseteq T, NEW W, U \subseteq W, NEW more, NEW longer,
           more \in Seq(T), longer \in Seq(Nat),
           \A v \in T : v.node \in 1..Len(program.nodes),
           \A v \in T : v \in Elements(more) \/ v \in S \ Elements(left) \/ Settled(v, T, W),
           \A r \in W : \/ r \in Elements(longer) \/ r \in U \ Elements(queue)
                        \/ ~IsDerived(r) \/ SettledDerivation(r, T, W)
    PROVE  Walked(T, more, W, longer)
<1>1. \A x \in Rules : Met(Formulas(x), Entity(x), NoMember, x, T) BY MetMore DEF Walked
<1>2. \A v \in T : v \in Elements(more) \/ Settled(v, T, W) BY SettledMore DEF Walked
<1>3. \A r \in W : r \in Elements(longer) \/ ~IsDerived(r) \/ SettledDerivation(r, T, W)
  BY SettledMore DEF Walked
<1> QED BY <1>1, <1>2, <1>3 DEF Walked

LEMMA VisitForm ==
    ASSUME ProgramForm(program), NEW body \in Bodies(program), NEW entity, NEW member, NEW citing
    PROVE  LET visits == Visit(body, entity, member, citing)
           IN  /\ \A T : Elements(visits) \subseteq T => visits \in Seq(T)
               /\ Len(visits) = Len(body)
               /\ \A T : Elements(visits) \subseteq T => Met(body, entity, member, citing, T)
               /\ \A v \in Elements(visits) :
                      /\ v.node \in 1..Len(program.nodes)
                      /\ \E i \in 1..Len(body) : v = VisitOf(body[i], entity, member, citing)
<1> DEFINE visits == Visit(body, entity, member, citing)
<1>1. Len(body) \in Nat /\ \A i \in 1..Len(body) : body[i] \in 1..Len(program.nodes)
  BY DEF Bodies
<1>2. visits = [i \in 1..Len(body) |-> VisitOf(body[i], entity, member, citing)]
  BY DEF Visit, VisitOf
<1>3. Len(visits) = Len(body) /\ Elements(visits) = {visits[i] : i \in 1..Len(body)}
  BY <1>1, <1>2 DEF Elements
<1>4. \A i \in 1..Len(body) : visits[i] = VisitOf(body[i], entity, member, citing)
  BY <1>2
<1>5. DOMAIN visits = 1..Len(body) BY <1>2
<1>6. \A v \in Elements(visits) :
          /\ v.node \in 1..Len(program.nodes)
          /\ \E i \in 1..Len(body) : v = VisitOf(body[i], entity, member, citing)
  <2> HIDE DEF visits
  <2> TAKE v \in Elements(visits)
  <2>1. PICK i \in 1..Len(body) : v = VisitOf(body[i], entity, member, citing)
    BY <1>3, <1>4
  <2> QED BY <1>1, <2>1 DEF VisitOf
<1>7. ASSUME NEW T, Elements(visits) \subseteq T
      PROVE  visits \in Seq(T) /\ Met(body, entity, member, citing, T)
  <2>1. \A i \in 1..Len(body) : visits[i] \in T BY <1>3, <1>7
  <2>2. Met(body, entity, member, citing, T) BY <1>4, <2>1 DEF Met
  <2>3. visits \in [1..Len(body) -> T] BY <1>2, <1>4, <2>1
  <2> QED BY <1>1, <2>2, <2>3
<1> QED BY <1>3, <1>6, <1>7

LEMMA WalkedKept ==
    ASSUME UNCHANGED typing_tables, NEW S, NEW left, NEW U, NEW queue, Walked(S, left, U, queue)
    PROVE  Walked(S, left, U, queue)'
<1>0. program' = program BY DEF typing_tables
<1>1. \A v : Settled(v, S, U) => Settled(v, S, U)'
  <2> SUFFICES ASSUME NEW v, Settled(v, S, U) PROVE Settled(v, S, U)' OBVIOUS
  <2> DEFINE n == program.nodes[v.node]
  <2>1. n' = n BY <1>0
  <2>2. AggregateCodes(n, v.entity)' = AggregateCodes(n, v.entity)
        /\ MemberCodes(n, v.member)' = MemberCodes(n, v.member)
    BY <2>1, CodesKept
  <2>3. ClauseKind(n)' = ClauseKind(n) BY <2>1, TablesKept
  <2> QED BY <2>1, <2>2, <2>3 DEF Settled, Met
<1>2. \A r : SettledDerivation(r, S, U) => SettledDerivation(r, S, U)'
  BY CodesKept, TablesKept DEF SettledDerivation, Met
<1>3. \A x \in Rules : Met(Formulas(x), Entity(x), NoMember, x, S)'
  <2> SUFFICES ASSUME NEW x \in Rules PROVE Met(Formulas(x), Entity(x), NoMember, x, S)'
    OBVIOUS
  <2>1. Met(Formulas(x), Entity(x), NoMember, x, S) BY DEF Walked
  <2>2. Formulas(x)' = Formulas(x) /\ Entity(x)' = Entity(x) BY TablesKept
  <2> QED BY <2>1, <2>2 DEF Met, NoMember
<1>4. \A r : IsDerived(r)' = IsDerived(r) BY TablesKept
<1> QED BY <1>0, <1>1, <1>2, <1>3, <1>4 DEF Walked

LEMMA WalkStarts ==
    ASSUME ProgramForm(program), used = {}, unchecked = <<>>, StartChecking, purpose' = "typing"
    PROVE  \E S : Walked(S, agenda, used, unchecked)'
<1>1. program' = program /\ used' = {} /\ unchecked' = <<>> BY DEF StartChecking
<1> DEFINE At_ == InOrder(Rules)
           visits(x) == Visit(Formulas(x), Entity(x), NoMember, x)
           lists == [i \in 1..Cardinality(Rules) |-> visits(At_[i])]
           Nodes == UNION {Elements(visits(x)) : x \in Rules}
<1>2. agenda' = Joined(lists)
  <2>1. \A x : Executed(x, "typing") = Formulas(x) BY DEF Executed
  <2> QED BY <2>1 DEF StartChecking, Across
<1>3. /\ Cardinality(Rules) \in Nat
      /\ \A i \in 1..Cardinality(Rules) : At_[i] \in Rules
      /\ \A x \in Rules : \E i \in 1..Cardinality(Rules) : At_[i] = x
  <2>1. Rules \in SUBSET Nat /\ IsFiniteSet(Rules) BY NamesAssumption
  <2> QED BY <2>1, InOrderForm
<1>4. \A x \in Rules : Formulas(x) \in Bodies(program) BY RuleForms DEF Formulas
<1>5. \A x \in Rules : visits(x) \in Seq(Nodes)
  <2> TAKE x \in Rules
  <2>1. Elements(visits(x)) \subseteq Nodes OBVIOUS
  <2> HIDE DEF Nodes
  <2> QED BY <1>4, <2>1, VisitForm
<1>6. \A v \in Nodes : v.node \in 1..Len(program.nodes)
  <2> TAKE v \in Nodes
  <2>1. PICK x \in Rules : v \in Elements(visits(x)) OBVIOUS
  <2> QED BY <1>4, <2>1, VisitForm
<1>7. Len(lists) = Cardinality(Rules) /\ \A i \in 1..Cardinality(Rules) : lists[i] = visits(At_[i])
  BY <1>3
<1>8. lists \in Seq(Seq(Nodes))
  <2> HIDE DEF Nodes, visits, At_
  <2> QED BY <1>3, <1>5
<1> HIDE DEF lists, Nodes
<1>9. /\ agenda' \in Seq(Nodes)
      /\ \A i \in 1..Cardinality(Rules) : Elements(lists[i]) \subseteq Elements(agenda')
  BY <1>2, <1>7, <1>8, JoinedForm
<1>10. PICK S : S = Elements(agenda') OBVIOUS
<1>11. agenda' \in Seq(S)
  <2>1. \A s : s \in Seq(Nodes) => s \in Seq(Elements(s)) BY DEF Elements
  <2> QED BY <1>9, <1>10, <2>1
<1>12. \A v \in S : v.node \in 1..Len(program'.nodes)
  <2>1. S \subseteq Nodes BY <1>9, <1>10 DEF Elements
  <2> QED BY <1>1, <1>6, <2>1
<1>13. \A x \in Rules : Met(Formulas(x), Entity(x), NoMember, x, S)
  <2> TAKE x \in Rules
  <2>1. PICK i \in 1..Cardinality(Rules) : At_[i] = x BY <1>3
  <2>2. lists[i] = visits(x) BY <1>7, <2>1
  <2>3. Elements(visits(x)) \subseteq S BY <1>9, <1>10, <2>2
  <2> QED BY <1>4, <2>3, VisitForm
<1>14. \A x \in Rules : Met(Formulas(x), Entity(x), NoMember, x, S)'
  BY <1>1, <1>13 DEF Formulas, Entity, Met, NoMember
<1>15. Walked(S, agenda, used, unchecked)'
  BY <1>1, <1>10, <1>11, <1>12, <1>14 DEF Walked
<1> QED BY <1>15

(* Visiting a node. *)
LEMMA Visiting ==
    ASSUME ProgramForm(program), NEW S, Walked(S, agenda, used, unchecked), agenda # <<>>,
           NEW body \in Bodies(program), NEW entity, NEW member, NEW citing,
           NEW visits, visits = Visit(body, entity, member, citing), Push(visits),
           NEW T, T = S \cup Elements(visits)
    PROVE  /\ S \subseteq T /\ agenda' \in Seq(T)
           /\ Visited \in S /\ Visited.node \in 1..Len(program.nodes)
           /\ Node \in NodeForm(program) /\ Node.body \in Bodies(program)
           /\ \A v \in T : v.node \in 1..Len(program.nodes)
           /\ \A v \in T : v \in Elements(agenda') \/ v \in S \ Elements(agenda) \/ v = Visited
           /\ Met(body, entity, member, citing, T)
<1>1. agenda \in Seq(S) BY DEF Walked
<1>2. Tail(agenda) \in Seq(S) /\ Head(agenda) \in S
      /\ Elements(agenda) \subseteq {Head(agenda)} \cup Elements(Tail(agenda))
  <2>1. /\ Head(agenda) = agenda[1] /\ Tail(agenda) \in Seq(S) /\ Len(Tail(agenda)) = Len(agenda) - 1
        /\ \A i \in 1..Len(Tail(agenda)) : Tail(agenda)[i] = agenda[i + 1]
        /\ Len(agenda) \in Nat /\ Len(agenda) # 0 /\ Head(agenda) \in S
    BY <1>1
  <2>2. ASSUME NEW i \in 1..Len(agenda) PROVE agenda[i] \in {Head(agenda)} \cup Elements(Tail(agenda))
    <3>1. CASE i = 1 BY <2>1, <3>1
    <3>2. CASE i # 1
      <4>1. i - 1 \in 1..Len(Tail(agenda)) /\ i - 1 + 1 = i BY <2>1, <3>2
      <4>2. Tail(agenda)[i - 1] = agenda[i] BY <2>1, <4>1
      <4> QED BY <4>1, <4>2 DEF Elements
    <3> QED BY <3>1, <3>2
  <2> QED BY <2>1, <2>2 DEF Elements
<1>3. /\ visits \in Seq(T) /\ Met(body, entity, member, citing, T)
      /\ \A v \in Elements(visits) : v.node \in 1..Len(program.nodes)
  BY VisitForm
<1>4. Tail(agenda) \in Seq(T) BY <1>2
<1>5. agenda' \in Seq(T) /\ Elements(agenda') = Elements(visits) \cup Elements(Tail(agenda))
  <2>1. agenda' = visits \o Tail(agenda) BY DEF Push
  <2>2. PICK rest : rest = Tail(agenda) OBVIOUS
  <2>3. visits \in Seq(T) /\ rest \in Seq(T) BY <1>3, <1>4, <2>2
  <2>4. visits \o rest \in Seq(T) /\ Elements(visits \o rest) = Elements(visits) \cup Elements(rest)
    BY ONLY <2>3, ConcatElements
  <2> QED BY <2>1, <2>2, <2>4
<1>6. \A v \in S : v.node \in 1..Len(program.nodes) BY DEF Walked
<1>7. Visited \in S /\ Visited.node \in 1..Len(program.nodes) BY <1>2, <1>6 DEF Visited
<1>8. Node \in NodeForm(program) /\ Node.body \in Bodies(program)
  BY <1>7, NodeFacts DEF Node
<1>9. \A v \in T : v \in Elements(agenda') \/ v \in S \ Elements(agenda) \/ v = Visited
  BY <1>2, <1>5 DEF Visited
<1> QED BY <1>3, <1>5, <1>6, <1>7, <1>8, <1>9

LEMMA NoFault == \A codes, r, citing : Fault(codes, r, citing) = {} => codes = {}
BY DEF Fault

(* The walk, while it finds nothing wrong. *)
Sound(S) ==
    /\ ProgramForm(program) /\ purpose = "typing" /\ Walked(S, agenda, used, unchecked)

LEMMA UsedOne ==
    ASSUME NEW S, Walked(S, agenda, used, unchecked), Node.relation \in Nat,
           Use(<<Node.relation>>, unchecked), NEW T, NEW W, W = used'
    PROVE  /\ used \subseteq W /\ Node.relation \in W /\ unchecked' \in Seq(Nat)
           /\ \A r \in W : r \in Elements(unchecked') \/ r \in used \ Elements(unchecked)
<1> DEFINE list == <<Node.relation>>
<1>1. list \in Seq(Nat) /\ Elements(list) = {Node.relation}
  <2>1. \A x \in Nat : \A s : s = <<x>> => Len(s) = 1 /\ s[1] = x /\ s \in Seq(Nat)
    OBVIOUS
  <2>2. Len(list) = 1 /\ list[1] = Node.relation /\ list \in Seq(Nat) BY <2>1
  <2> HIDE DEF list
  <2> QED BY <2>2 DEF Elements
<1>2. unchecked \in Seq(Nat) BY DEF Walked
<1>3. Use(list, unchecked) OBVIOUS
<1> HIDE DEF list
<1>4. /\ used' = used \cup Elements(list) /\ unchecked' \in Seq(Nat)
      /\ Elements(unchecked) \subseteq Elements(unchecked')
      /\ Elements(list) \ used \subseteq Elements(unchecked')
  BY <1>1, <1>2, <1>3, UseForm
<1> QED BY <1>1, <1>4

LEMMA AggregateWalked ==
    ASSUME NEW S, Sound(S), CheckAggregate, violations' = {}
    PROVE  \E T : Walked(T, agenda', used', unchecked')
<1>1. agenda # <<>> /\ Node.op \in {"aggregate", "only"} /\ ProgramForm(program) /\ purpose = "typing"
      /\ Walked(S, agenda, used, unchecked)
  BY DEF CheckAggregate, Meets, Sound
<1>2. PICK visits : visits = Visit(Node.body, ClauseKind(Node), NoMember, Visited.citing)
  OBVIOUS
<1>3. Push(visits) BY <1>2 DEF CheckAggregate, Within
<1>4. PICK T : T = S \cup Elements(visits) OBVIOUS
<1>5. Node.body \in Bodies(program) /\ Node.relation \in Nat
  <2>1. agenda \in Seq(S) /\ Head(agenda) \in S BY <1>1 DEF Walked
  <2>2. Visited.node \in 1..Len(program.nodes) BY <1>1, <2>1 DEF Visited, Walked
  <2>3. Node \in NodeForm(program) /\ Node.body \in Bodies(program)
    BY <1>1, <2>2, NodeFacts DEF Node
  <2> QED BY <2>3 DEF NodeForm
<1>6. /\ S \subseteq T /\ agenda' \in Seq(T)
      /\ \A v \in T : v.node \in 1..Len(program.nodes)
      /\ \A v \in T : v \in Elements(agenda') \/ v \in S \ Elements(agenda) \/ v = Visited
      /\ Met(Node.body, ClauseKind(Node), NoMember, Visited.citing, T)
  <2>1. PICK body, entity, member, citing :
            body = Node.body /\ entity = ClauseKind(Node) /\ member = NoMember /\ citing = Visited.citing
    OBVIOUS
  <2>2. body \in Bodies(program) /\ visits = Visit(body, entity, member, citing)
    BY <1>2, <1>5, <2>1
  <2>3. ProgramForm(program) /\ Walked(S, agenda, used, unchecked) /\ agenda # <<>>
    BY <1>1
  <2>4. /\ S \subseteq T /\ agenda' \in Seq(T)
        /\ \A v \in T : v.node \in 1..Len(program.nodes)
        /\ \A v \in T : v \in Elements(agenda') \/ v \in S \ Elements(agenda) \/ v = Visited
        /\ Met(body, entity, member, citing, T)
    BY ONLY <1>3, <1>4, <2>2, <2>3, Visiting
  <2> QED BY <2>1, <2>4
<1>7. /\ used \subseteq used' /\ Node.relation \in used' /\ unchecked' \in Seq(Nat)
      /\ \A r \in used' : r \in Elements(unchecked') \/ r \in used \ Elements(unchecked)
  BY <1>1, <1>5, UsedOne DEF CheckAggregate
<1>8. AggregateCodes(Node, Visited.entity) = {}
  BY <1>1, NoFault DEF CheckAggregate, Report
<1>9. Settled(Visited, T, used') BY <1>1, <1>6, <1>7, <1>8 DEF Settled, Node
<1>10. Walked(T, agenda', used', unchecked') BY <1>1, <1>6, <1>7, <1>9, WalkStep
<1> QED BY <1>10

LEMMA MemberWalked ==
    ASSUME NEW S, Sound(S), CheckMember, violations' = {}
    PROVE  \E T : Walked(T, agenda', used', unchecked')
<1>1. agenda # <<>> /\ Node.op = "member" /\ ProgramForm(program) /\ purpose = "typing"
      /\ Walked(S, agenda, used, unchecked)
  BY DEF CheckMember, Meets, Sound
<1>2. PICK visits : visits = Visit(<<>>, NoKind, NoMember, 0) OBVIOUS
<1>3. visits = <<>> /\ <<>> \in Bodies(program) BY <1>2 DEF Visit, Bodies
<1>4. PICK T : T = S \cup Elements(visits) OBVIOUS
<1>5. Push(visits) BY <1>3 DEF CheckMember
<1>6. /\ S \subseteq T /\ agenda' \in Seq(T) /\ Node \in NodeForm(program)
      /\ \A v \in T : v.node \in 1..Len(program.nodes)
      /\ \A v \in T : v \in Elements(agenda') \/ v \in S \ Elements(agenda) \/ v = Visited
  <2>1. ProgramForm(program) /\ Walked(S, agenda, used, unchecked) /\ agenda # <<>> /\ <<>> \in Bodies(program)
    BY <1>1, <1>3
  <2> QED BY ONLY <1>2, <1>4, <1>5, <2>1, Visiting
<1>7. Node.relation \in Nat BY <1>6 DEF NodeForm
<1>8. /\ used \subseteq used' /\ Node.relation \in used' /\ unchecked' \in Seq(Nat)
      /\ \A r \in used' : r \in Elements(unchecked') \/ r \in used \ Elements(unchecked)
  BY <1>1, <1>7, UsedOne DEF CheckMember
<1>9. MemberCodes(Node, Visited.member) = {} BY <1>1, NoFault DEF CheckMember, Report
<1>10. Settled(Visited, T, used') BY <1>1, <1>8, <1>9 DEF Settled, Node
<1>11. Walked(T, agenda', used', unchecked') BY <1>1, <1>6, <1>8, <1>10, WalkStep
<1> QED BY <1>11

LEMMA TermsWalked ==
    ASSUME NEW S, Sound(S), CheckTerms
    PROVE  \E T : Walked(T, agenda', used', unchecked')
<1>1. agenda # <<>> /\ Node.op \in {"atom", "exists"} /\ ProgramForm(program)
      /\ Walked(S, agenda, used, unchecked)
  BY DEF CheckTerms, Meets, Sound
<1>2. PICK visits : visits = Visit(Node.body, Visited.entity, Visited.member, Visited.citing)
  OBVIOUS
<1>3. Push(visits) BY <1>2 DEF CheckTerms, Within
<1>4. PICK T : T = S \cup Elements(visits) OBVIOUS
<1>5. Node.body \in Bodies(program) /\ Node.relation \in Nat
  <2>1. agenda \in Seq(S) /\ Head(agenda) \in S BY <1>1 DEF Walked
  <2>2. Visited.node \in 1..Len(program.nodes) BY <1>1, <2>1 DEF Visited, Walked
  <2>3. Node \in NodeForm(program) /\ Node.body \in Bodies(program)
    BY <1>1, <2>2, NodeFacts DEF Node
  <2> QED BY <2>3 DEF NodeForm
<1>6. /\ S \subseteq T /\ agenda' \in Seq(T)
      /\ \A v \in T : v.node \in 1..Len(program.nodes)
      /\ \A v \in T : v \in Elements(agenda') \/ v \in S \ Elements(agenda) \/ v = Visited
      /\ Met(Node.body, Visited.entity, Visited.member, Visited.citing, T)
  <2>1. PICK body, entity, member, citing :
            body = Node.body /\ entity = Visited.entity /\ member = Visited.member /\ citing = Visited.citing
    OBVIOUS
  <2>2. body \in Bodies(program) /\ visits = Visit(body, entity, member, citing)
    BY <1>2, <1>5, <2>1
  <2>3. ProgramForm(program) /\ Walked(S, agenda, used, unchecked) /\ agenda # <<>>
    BY <1>1
  <2>4. /\ S \subseteq T /\ agenda' \in Seq(T)
        /\ \A v \in T : v.node \in 1..Len(program.nodes)
        /\ \A v \in T : v \in Elements(agenda') \/ v \in S \ Elements(agenda) \/ v = Visited
        /\ Met(body, entity, member, citing, T)
    BY ONLY <1>3, <1>4, <2>2, <2>3, Visiting
  <2> QED BY <2>1, <2>4
<1>7. /\ used \subseteq used' /\ Node.relation \in used' /\ unchecked' \in Seq(Nat)
      /\ \A r \in used' : r \in Elements(unchecked') \/ r \in used \ Elements(unchecked)
  BY <1>1, <1>5, UsedOne DEF CheckTerms
<1>8. Settled(Visited, T, used') BY <1>1, <1>6, <1>7 DEF Settled, Node
<1>9. Walked(T, agenda', used', unchecked') BY <1>1, <1>6, <1>7, <1>8, WalkStep
<1> QED BY <1>9

LEMMA OtherWalked ==
    ASSUME NEW S, Sound(S), CheckOther
    PROVE  \E T : Walked(T, agenda', used', unchecked')
<1>1. agenda # <<>> /\ Node.op \in {"rule", "unbound", "read", "same"} /\ ProgramForm(program)
      /\ Walked(S, agenda, used, unchecked) /\ used' = used /\ unchecked' = unchecked
  BY DEF CheckOther, Meets, Sound
<1>2. PICK visits : visits = Visit(Node.body, Visited.entity, NoMember, Visited.citing)
  OBVIOUS
<1>3. Push(visits) BY <1>2 DEF CheckOther, Within
<1>4. PICK T : T = S \cup Elements(visits) OBVIOUS
<1>5. Node.body \in Bodies(program)
  <2>1. agenda \in Seq(S) /\ Head(agenda) \in S BY <1>1 DEF Walked
  <2>2. Visited.node \in 1..Len(program.nodes) BY <1>1, <2>1 DEF Visited, Walked
  <2> QED BY <1>1, <2>2, NodeFacts DEF Node
<1>6. /\ S \subseteq T /\ agenda' \in Seq(T)
      /\ \A v \in T : v.node \in 1..Len(program.nodes)
      /\ \A v \in T : v \in Elements(agenda') \/ v \in S \ Elements(agenda) \/ v = Visited
      /\ Met(Node.body, Visited.entity, NoMember, Visited.citing, T)
  <2>1. PICK body, entity, member, citing :
            body = Node.body /\ entity = Visited.entity /\ member = NoMember /\ citing = Visited.citing
    OBVIOUS
  <2>2. body \in Bodies(program) /\ visits = Visit(body, entity, member, citing)
    BY <1>2, <1>5, <2>1
  <2>3. ProgramForm(program) /\ Walked(S, agenda, used, unchecked) /\ agenda # <<>>
    BY <1>1
  <2>4. /\ S \subseteq T /\ agenda' \in Seq(T)
        /\ \A v \in T : v.node \in 1..Len(program.nodes)
        /\ \A v \in T : v \in Elements(agenda') \/ v \in S \ Elements(agenda) \/ v = Visited
        /\ Met(body, entity, member, citing, T)
    BY ONLY <1>3, <1>4, <2>2, <2>3, Visiting
  <2> QED BY <2>1, <2>4
<1>7. Settled(Visited, T, used') BY <1>1, <1>6 DEF Settled, Node
<1>8. unchecked' \in Seq(Nat) BY <1>1 DEF Walked
<1>9. \A r \in used' : \/ r \in Elements(unchecked') \/ r \in used \ Elements(unchecked)
  BY <1>1
<1>10. Walked(T, agenda', used', unchecked') BY <1>1, <1>6, <1>7, <1>8, <1>9, WalkStep
<1> QED BY <1>10

LEMMA SourcesAsList ==
    ASSUME ProgramForm(program), NEW r, IsDerived(r)
    PROVE  Sources(r) \in Seq(Nat)
<1>1. Schema(r).source \in Nat /\ Schema(r).path \in Seq(StepForm)
  BY RelationForm DEF IsDerived, Derived, Schema
<1>2. PICK path_ : path_ = Schema(r).path OBVIOUS
<1>3. path_ \in Seq(StepForm) BY <1>1, <1>2
<1>4. \A i \in 1..Len(path_) : path_[i].relation \in Nat
  <2>1. \A i \in 1..Len(path_) : path_[i] \in StepForm BY <1>3
  <2> QED BY <2>1 DEF StepForm
<1>5. [i \in 1..Len(path_) |-> path_[i].relation] \in Seq(Nat) BY <1>3, <1>4
<1>6. <<Schema(r).source>> \in Seq(Nat) BY <1>1
<1> QED BY <1>2, <1>5, <1>6 DEF Sources

LEMMA DerivedWalked ==
    ASSUME NEW S, Sound(S), CheckDerived, violations' = {}
    PROVE  \E T : Walked(T, agenda', used', unchecked')
<1>1. /\ ProgramForm(program) /\ purpose = "typing" /\ Walked(S, agenda, used, unchecked)
      /\ agenda = <<>> /\ unchecked # <<>> /\ unchecked \in Seq(Nat)
  BY DEF CheckDerived, Sound, Walked
<1>2. PICK r : r = unchecked[Len(unchecked)] OBVIOUS
<1>3. PICK queue : queue = SubSeq(unchecked, 1, Len(unchecked) - 1) OBVIOUS
<1>4. queue \in Seq(Nat) /\ Elements(unchecked) \subseteq Elements(queue) \cup {r}
  <2>1. Len(unchecked) \in Nat /\ Len(unchecked) - 1 \in Nat BY <1>1
  <2>2. /\ queue \in Seq(Nat) /\ Len(queue) = Len(unchecked) - 1
        /\ \A i \in 1..(Len(unchecked) - 1) : queue[i] = unchecked[i]
    <3>1. PICK n : n = Len(unchecked) - 1 OBVIOUS
    <3>2. n \in Int /\ n \in Nat /\ 1 \in Int /\ \A i \in 1..n : unchecked[i] \in Nat
      BY <1>1, <2>1, <3>1
    <3>3. /\ SubSeq(unchecked, 1, n) \in Seq(Nat)
          /\ Len(SubSeq(unchecked, 1, n)) = IF 1 <= n THEN n - 1 + 1 ELSE 0
          /\ \A i \in 1..(n - 1 + 1) : SubSeq(unchecked, 1, n)[i] = unchecked[1 + i - 1]
      BY <3>2, SubSeqProperties
    <3> QED BY <1>3, <3>1, <3>2, <3>3
  <2>3. \A i \in 1..Len(unchecked) : i = Len(unchecked) \/ i \in 1..(Len(unchecked) - 1)
    BY <2>1
  <2> QED BY <1>2, <2>2, <2>3 DEF Elements
<1>5. Elements(agenda) = {} BY <1>1 DEF Elements
<1>6. CASE ~IsDerived(r)
  <2>1. unchecked' = queue /\ used' = used /\ agenda' = agenda
    BY <1>2, <1>3, <1>6 DEF CheckDerived
  <2>2. \A s \in used' : s \in Elements(unchecked') \/ s \in used \ Elements(unchecked) \/ ~IsDerived(s)
    BY <1>4, <1>6, <2>1
  <2>3. \A v \in S : v \in Elements(agenda') \/ v \in S \ Elements(agenda) BY <1>5
  <2>4. agenda' \in Seq(S) /\ \A v \in S : v.node \in 1..Len(program.nodes)
    BY <1>1, <2>1 DEF Walked
  <2>5. Walked(S, agenda', used', unchecked')
    <3>1. PICK more, W, longer : more = agenda' /\ W = used' /\ longer = unchecked'
      OBVIOUS
    <3>2. /\ Walked(S, agenda, used, unchecked) /\ used \subseteq W /\ more \in Seq(S)
          /\ longer \in Seq(Nat) /\ \A v \in S : v.node \in 1..Len(program.nodes)
      BY <1>1, <1>4, <2>1, <2>4, <3>1
    <3>3. /\ \A v \in S : v \in Elements(more) \/ v \in S \ Elements(agenda) \/ Settled(v, S, W)
          /\ \A s \in W : \/ s \in Elements(longer) \/ s \in used \ Elements(unchecked)
                         \/ ~IsDerived(s) \/ SettledDerivation(s, S, W)
      BY <2>2, <2>3, <3>1
    <3>4. Walked(S, more, W, longer) BY ONLY <3>2, <3>3, WalkStep
    <3> QED BY <3>1, <3>4
  <2> QED BY <2>5
<1>7. CASE IsDerived(r)
  <2>1. /\ Use(Sources(r), queue) /\ agenda' = PredicateVisit(slot_kinds, r)
        /\ Report((IF Schema(r).path = <<>> THEN SourceFaults(r) ELSE PathFaults(r)) \cup
                  Fault(Code("relation_predicate_entity_mismatch", PredicateStrays(r) # {}), r, r))
    BY <1>2, <1>3, <1>7 DEF CheckDerived
  <2>2. /\ Schema(r).path = <<>> => SourceFaults(r) = {}
        /\ PredicateStrays(r) = {}
    <3>1. Fault(Code("relation_predicate_entity_mismatch", PredicateStrays(r) # {}), r, r) = {}
      BY <1>1, <2>1 DEF Report
    <3>2. Code("relation_predicate_entity_mismatch", PredicateStrays(r) # {}) = {}
      BY <3>1, NoFault
    <3>3. PredicateStrays(r) = {} BY <3>2 DEF Code
    <3> QED BY <1>1, <2>1, <3>3 DEF Report
  <2>3. PICK list : list = Sources(r) OBVIOUS
  <2>4. list \in Seq(Nat) BY <1>1, <1>7, <2>3, SourcesAsList
  <2>5. /\ used' = used \cup Elements(list) /\ unchecked' \in Seq(Nat)
        /\ Elements(queue) \subseteq Elements(unchecked')
        /\ Elements(list) \ used \subseteq Elements(unchecked')
    <3>1. Use(list, queue) BY <2>1, <2>3
    <3> QED BY ONLY <1>4, <2>4, <3>1, UseForm
  <2>6. PICK current, related :
            current = At(Kinds(r), Schema(r).current) /\ related = At(Kinds(r), Schema(r).related)
    OBVIOUS
  <2>7. PICK body : body = Schema(r).predicate OBVIOUS
  <2>8. body \in Bodies(program) /\ r \in Relations
    BY <1>1, <1>7, <2>7, RelationForm DEF IsDerived, Derived, Schema
  <2>9. agenda' = Visit(body, related, Bound(current, related), r)
    BY <2>1, <2>6, <2>7, <2>8 DEF PredicateVisit, Kinds, Declared
  <2>10. PICK T : T = S \cup Elements(agenda') OBVIOUS
  <2>11. PICK member : member = Bound(current, related) OBVIOUS
  <2>12. /\ agenda' \in Seq(T) /\ Met(body, related, member, r, T)
         /\ \A v \in Elements(agenda') : v.node \in 1..Len(program.nodes)
    <3>1. PICK visits : visits = Visit(body, related, member, r) OBVIOUS
    <3>2. Elements(visits) \subseteq T /\ agenda' = visits BY <2>9, <2>10, <2>11, <3>1
    <3> QED BY <1>1, <2>8, <3>1, <3>2, VisitForm
  <2>13. SettledDerivation(r, T, used')
    BY <2>2, <2>3, <2>5, <2>6, <2>7, <2>11, <2>12 DEF SettledDerivation
  <2>14. \A s \in used' : \/ s \in Elements(unchecked') \/ s \in used \ Elements(unchecked)
                          \/ SettledDerivation(s, T, used')
    BY <1>4, <2>5, <2>13
  <2>15. \A v \in T : v \in Elements(agenda') \/ v \in S \ Elements(agenda)
    BY <1>5, <2>10
  <2>16. \A v \in T : v.node \in 1..Len(program.nodes) BY <1>1, <2>10, <2>12 DEF Walked
  <2>17. S \subseteq T /\ used \subseteq used' BY <2>5, <2>10
  <2>18. Walked(T, agenda', used', unchecked')
    <3>1. agenda' \in Seq(T) /\ unchecked' \in Seq(Nat) /\ Walked(S, agenda, used, unchecked)
      BY <1>1, <2>5, <2>12
    <3> QED BY ONLY <2>14, <2>15, <2>16, <2>17, <3>1, WalkStep
  <2> QED BY <2>18
<1> QED BY <1>6, <1>7

-----------------------------------------------------------------------------
(* As long as the walk for the compiler finds nothing wrong, everything it *)
(* has left behind is settled. *)
Walks ==
    phase = "walking" /\ purpose = "typing" /\ violations = {} =>
        \E S : Walked(S, agenda, used, unchecked)

LEMMA WalksStep ==
    ASSUME Forms, Walks, NEW T, phase = "walking", purpose = "typing",
           CheckAggregate \/ CheckMember \/ CheckTerms \/ CheckOther \/ CheckDerived,
           violations' = {}
    PROVE  \E S : Walked(S, agenda, used, unchecked)'
<1>1. violations = {} /\ UNCHANGED typing_tables
  BY DEF CheckAggregate, CheckMember, CheckTerms, CheckOther, CheckDerived, Report, Keep, typing_tables
<1>2. PICK S : Sound(S) BY <1>1 DEF Walks, Sound, Forms
<1>3. \E R : Walked(R, agenda', used', unchecked')
  BY <1>2, AggregateWalked, MemberWalked, TermsWalked, OtherWalked, DerivedWalked
<1>4. PICK R, left, U, queue : /\ Walked(R, left, U, queue)
                               /\ left = agenda' /\ U = used' /\ queue = unchecked'
  BY <1>3
<1>5. Walked(R, left, U, queue)' BY ONLY <1>1, <1>4, WalkedKept
<1> QED BY <1>4, <1>5 DEF Walked

LEMMA WalksStay ==
    ASSUME Walks, UNCHANGED typing_vars
    PROVE  Walks'
<1>1. /\ UNCHANGED typing_tables /\ UNCHANGED <<phase, violations, agenda, used, unchecked>>
      /\ purpose' = purpose
  BY DEF typing_tables, typing_vars
<1> SUFFICES ASSUME phase' = "walking", purpose' = "typing", violations' = {}
             PROVE  \E S : Walked(S, agenda, used, unchecked)'
  BY DEF Walks
<1>2. \E S : Walked(S, agenda, used, unchecked) BY <1>1 DEF Walks
<1>3. PICK R, left, U, queue : /\ Walked(R, left, U, queue)
                               /\ left = agenda /\ U = used /\ queue = unchecked
  BY <1>2
<1>4. Walked(R, left, U, queue)' BY ONLY <1>1, <1>3, WalkedKept
<1> QED BY <1>1, <1>3, <1>4 DEF Walked

LEMMA WalksChecking ==
    ASSUME Forms, Tables, Walks, Check
    PROVE  Walks'
<1> SUFFICES ASSUME phase' = "walking", purpose' = "typing", violations' = {}
             PROVE  \E S : Walked(S, agenda, used, unchecked)'
  BY DEF Walks
<1>1. CASE StartChecking
  <2>1. ProgramForm(program) /\ used = {} /\ unchecked = <<>>
    BY <1>1 DEF Forms, Tables, StartChecking
  <2> QED BY <1>1, <2>1, WalkStarts
<1>2. CASE CheckAggregate \/ CheckMember \/ CheckTerms \/ CheckOther \/ CheckDerived
  <2>1. phase = "walking" /\ purpose = "typing"
    BY <1>2 DEF CheckAggregate, CheckMember, CheckTerms, CheckOther, CheckDerived, Keep
  <2> QED BY <1>2, <2>1, WalksStep
<1>3. ~(ReadKinds \/ CheckRoles \/ ReturnUsed) BY DEF ReadKinds, CheckRoles, ReturnUsed
<1>4. ~(/\ phase \in {"kinds", "innermost"} /\ UNCHANGED <<program, phase, direction, checker>>)
  OBVIOUS
<1> QED BY <1>1, <1>2, <1>3, <1>4 DEF Check

LEMMA WalksNext == Forms /\ Tables /\ Walks /\ [Next]_vars => Walks'
<1> SUFFICES ASSUME Forms, Tables, Walks, [Next]_vars PROVE Walks' OBVIOUS
<1>1. CASE UNCHANGED typing_vars BY <1>1, WalksStay
<1>2. CASE Lowering
  <2>1. phase' # "walking"
    BY <1>2 DEF Lowering, Direct, DeclareKinds, DirectAggregate, RefuseAggregate, DirectMember,
       RefuseMember, DirectTerms, DirectOther, StampKinds, Directing, Onward, Refuse
  <2> QED BY <2>1 DEF Walks
<1>3. CASE Check BY <1>3, WalksChecking
<1>4. FindOrder \/ DeriveInterface \/ Evaluate \/ UNCHANGED vars => UNCHANGED typing_vars
  BY DEF FindOrder, DeriveInterface, Evaluate, Query, Read, Traverse, vars
<1> QED BY <1>1, <1>2, <1>3, <1>4 DEF Next, Compile, Lowering

(* What an accepted program has been found to be. *)
Accepted(S) == Walked(S, <<>>, used, <<>>) /\ TermViolations = {}

LEMMA Accepting ==
    ASSUME Forms, Walks, CheckRoles, phase' = "accepted"
    PROVE  (\E S : Accepted(S))'
<1>1. /\ phase = "walking" /\ purpose = "typing" /\ agenda = <<>> /\ unchecked = <<>>
      /\ violations = {} /\ TermViolations = {} /\ UNCHANGED typing_tables /\ used' = used
  BY DEF CheckRoles, Checked, Walking, typing_tables
<1>2. PICK S : Walked(S, agenda, used, unchecked) BY <1>1 DEF Walks
<1>3. PICK R, left, U, queue : /\ Walked(R, left, U, queue)
                               /\ left = <<>> /\ U = used /\ queue = <<>>
  BY <1>1, <1>2
<1>4. Walked(R, left, U, queue)' BY ONLY <1>1, <1>3, WalkedKept
<1>5. Walked(R, <<>>, used, <<>>)' BY <1>1, <1>3, <1>4 DEF Walked
<1>6. TermViolations' = {} BY <1>1, TermsKept
<1> QED BY <1>5, <1>6 DEF Accepted

(* A relation whose slots the check passes has kinds that stand for *)
(* themselves. *)
Typing == ProgramForm(program) /\ SlotKindsRight /\ FiltersRight /\ purpose = "typing"

LEMMA SlotSound ==
    ASSUME Typing, NEW r, SlotFaults(r) = {}
    PROVE  /\ r \in Relations /\ TypedSlots(r) = Kinds(r) /\ Kinds(r) \in Seq(EntityKinds)
           /\ Kinds(r) # Unknown /\ Len(Kinds(r)) = Schema(r).arity
           /\ \A s \in Nat : s < Len(Kinds(r)) =>
                  /\ At(Kinds(r), s) \in EntityKinds /\ At(Kinds(r), s) # NoKind
                  /\ IdKind(At(Kinds(r), s)) = At(Kinds(r), s)
                  /\ \A e : Fits(e, At(Kinds(r), s)) => IdKind(e) = At(Kinds(r), s)
<1>1. r \in Relations /\ Kinds(r) # Unknown BY DEF SlotFaults, Declared
<1>2. Kinds(r) \in Seq(EntityKinds) /\ Kinds(r) = slot_kinds[r]
  BY <1>1 DEF Typing, SlotKindsRight, Kinds, Declared
<1>3. Len(Kinds(r)) \in Nat /\ Len(Kinds(r)) # 0 BY <1>1, <1>2 DEF Unknown
<1>4. Len(Kinds(r)) \in {0, Schema(r).arity} BY <1>1 DEF SlotFaults, Declared
<1>5. Len(Kinds(r)) = Schema(r).arity BY <1>3, <1>4
<1>6. Elements(Kinds(r)) \cap Aliases = {} BY <1>1, <1>5 DEF SlotFaults, Declared
<1>7. ASSUME NEW s \in Nat, s < Len(Kinds(r))
      PROVE  /\ At(Kinds(r), s) \in EntityKinds /\ At(Kinds(r), s) # NoKind
             /\ IdKind(At(Kinds(r), s)) = At(Kinds(r), s)
             /\ \A e : Fits(e, At(Kinds(r), s)) => IdKind(e) = At(Kinds(r), s)
  <2>1. s + 1 \in 1..Len(Kinds(r)) /\ At(Kinds(r), s) = Kinds(r)[s + 1]
    BY <1>3, <1>7 DEF At
  <2>2. At(Kinds(r), s) \in EntityKinds /\ At(Kinds(r), s) \in Elements(Kinds(r))
    BY <1>2, <2>1 DEF Elements
  <2>3. At(Kinds(r), s) # NoKind BY <2>2, ProgramAssumption
  <2>4. IdKind(At(Kinds(r), s)) = At(Kinds(r), s) BY <1>6, <2>2 DEF Typing, FiltersRight
  <2> QED BY <2>2, <2>3, <2>4 DEF Fits
<1> QED BY <1>1, <1>2, <1>5, <1>7 DEF TypedSlots

(* Where a derived relation's kinds come from. *)
LEMMA OwnForm ==
    ASSUME Typing, NEW r, IsDerived(r)
    PROVE  /\ r \in Relations /\ Own(r) = <<Schema(r).current, Schema(r).related>>
           /\ Schema(r).current \in Nat /\ Schema(r).related \in Nat
           /\ Schema(r).current # Schema(r).related
           /\ Schema(r).own \in Seq(EntityKinds) /\ Schema(r).kinds \in Seq(EntityKinds)
           /\ Schema(r).path \in Seq(StepForm) /\ Schema(r).source \in Nat
           /\ Schema(r).predicate \in Bodies(program)
<1>1. r \in Relations /\ Schema(r) \in DerivedForm(program) /\ Schema(r).derived
  BY RelationForm DEF Typing, IsDerived, Derived, Schema
<1>2. Schema(r).current # Schema(r).related BY <1>1 DEF Typing, ProgramForm, Schema
<1> QED BY <1>1, <1>2 DEF DerivedForm, Own

LEMMA DataKinds ==
    ASSUME Typing, NEW r \in Relations, ~IsDerived(r)
    PROVE  Kinds(r) = Schema(r).kinds
<1>1. OwnKinds(r) = Ends(Schema(r).kinds) BY DEF OwnKinds
<1> QED BY <1>1 DEF Typing, SlotKindsRight, Kinds, Declared, Ends

LEMMA WrittenAsRead ==
    ASSUME Typing, NEW r, WrittenKinds(r) # Unknown
    PROVE  Kinds(r) = WrittenKinds(r)
<1>1. r \in Relations BY DEF WrittenKinds, Declared
<1>2. OwnKinds(r) = Ends(WrittenKinds(r)) BY <1>1 DEF OwnKinds, WrittenKinds, Declared
<1> QED BY <1>1, <1>2 DEF Typing, SlotKindsRight, Kinds, Declared, Ends

LEMMA NoFaults == \A a, b : a \cup b = {} => a = {} /\ b = {}
OBVIOUS

LEMMA NoCode == \A c, holds : Code(c, holds) = {} => ~holds
BY DEF Code

(* A filter agrees with its source. *)
LEMMA SourceSound ==
    ASSUME Typing, NEW r, IsDerived(r), Schema(r).path = <<>>, SourceFaults(r) = {}
    PROVE  /\ SlotFaults(Schema(r).source) = {}
           /\ Kinds(r) = Kinds(Schema(r).source)
           /\ IsDerived(Schema(r).source) => Own(Schema(r).source) = Own(r)
<1>1. PICK s : s = Schema(r).source OBVIOUS
<1>2. /\ SlotFaults(s) = {}
      /\ ~(TypedSlots(s) # Unknown /\ \E d \in {Schema(r).own, Schema(r).kinds} : d \notin {Unknown, TypedSlots(s)})
      /\ ~(IsDerived(s) /\ Own(s) # Own(r))
  <2> DEFINE kinds == TypedSlots(s)
             off == kinds # Unknown /\ \E d \in {Schema(r).own, Schema(r).kinds} : d \notin {Unknown, kinds}
             turned == IsDerived(s) /\ Own(s) # Own(r)
  <2>1. SourceFaults(r) = Fault(SlotFaults(s), s, r) \cup
            Fault(Code("derived_relation_source_slot_conflict", off), r, r) \cup
            Fault(Code("derived_relation_slots_diverge", turned), r, r)
    BY <1>1 DEF SourceFaults
  <2> HIDE DEF off, turned
  <2>2. /\ Fault(SlotFaults(s), s, r) = {}
        /\ Fault(Code("derived_relation_source_slot_conflict", off), r, r) = {}
        /\ Fault(Code("derived_relation_slots_diverge", turned), r, r) = {}
    BY <2>1, NoFaults
  <2>3. SlotFaults(s) = {} /\ ~off /\ ~turned
    <3>1. Code("derived_relation_source_slot_conflict", off) = {} BY <2>2, NoFault
    <3>2. Code("derived_relation_slots_diverge", turned) = {} BY <2>2, NoFault
    <3> QED BY <2>2, <3>1, <3>2, NoFault, NoCode
  <2> QED BY <2>3 DEF off, turned
<1>3. s \in Relations /\ TypedSlots(s) = Kinds(s) /\ Kinds(s) # Unknown
  BY <1>2, SlotSound
<1>4. Schema(r).own \in {Unknown, Kinds(s)} /\ Schema(r).kinds \in {Unknown, Kinds(s)}
  BY <1>2, <1>3
<1>5. Kinds(r) = Kinds(s)
  <2>1. r \in Relations BY DEF IsDerived, Derived
  <2>2. CASE Schema(r).own # Unknown
    <3>1. OwnKinds(r) = Ends(Kinds(s)) BY <1>4, <2>1, <2>2 DEF OwnKinds
    <3> QED BY <2>1, <3>1 DEF Typing, SlotKindsRight, Kinds, Declared, Ends
  <2>3. CASE Schema(r).own = Unknown /\ Schema(r).kinds # Unknown
    <3>1. OwnKinds(r) = Ends(Kinds(s)) BY <1>4, <2>1, <2>3 DEF OwnKinds
    <3> QED BY <2>1, <3>1 DEF Typing, SlotKindsRight, Kinds, Declared, Ends
  <2>4. CASE Schema(r).own = Unknown /\ Schema(r).kinds = Unknown
    <3>1. OwnKinds(r) = Passes(s) BY <1>1, <2>1, <2>4 DEF OwnKinds
    <3> QED BY <2>1, <3>1 DEF Typing, SlotKindsRight, Kinds, Declared, Passes
  <2> QED BY <2>2, <2>3, <2>4
<1> QED BY <1>1, <1>2, <1>5

(* A path leads from kind to kind, each step of binary slots. *)
StepRight(r, i) ==
    LET step == Schema(r).path[i]
    IN  /\ SlotFaults(step.relation) = {} /\ Len(Kinds(step.relation)) = 2
        /\ step.from \in Nat /\ step.to \in Nat /\ step.from < 2 /\ step.to < 2 /\ step.from # step.to
        /\ IsDerived(step.relation) => <<step.from, step.to>> = Own(step.relation)

LEMMA StepSound ==
    ASSUME Typing, NEW r, IsDerived(r), NEW i \in 1..Len(Schema(r).path), StepFaults(r, i) = {}
    PROVE  /\ StepRight(r, i)
           /\ Reached(r, i) \in {NoKind, At(Kinds(Schema(r).path[i].relation), Schema(r).path[i].from)}
<1>1. PICK s : s = Schema(r).path[i] OBVIOUS
<1>2. s.relation \in Nat /\ s.from \in Nat /\ s.to \in Nat
  <2>1. Schema(r).path \in Seq(StepForm) BY OwnForm
  <2>2. s \in StepForm BY <1>1, <2>1
  <2> QED BY <2>2 DEF StepForm
<1> DEFINE slots == <<s.from, s.to>>
           from == At(TypedSlots(s.relation), s.from)
           one == SlotFaults(s.relation)
           two == Code("relation_path_step_arity", Declared(s.relation) /\ Schema(s.relation).arity # 2)
           three == Code("relation_path_step_slots", ~Binary(slots))
           four == Code("inverse_derived_traversal_unsupported", Diverges(s.relation, slots))
           off == from # NoKind /\ Reached(r, i) \notin {NoKind, from}
           five == Code("relation_path_kind_mismatch", off)
<1>3. StepFaults(r, i) = Fault(one \cup two \cup three \cup four \cup five, s.relation, r)
  BY <1>1 DEF StepFaults
<1> HIDE DEF one, two, three, four, five
<1>4. one \cup two \cup three \cup four \cup five = {} BY <1>3, NoFault
<1>5. one = {} /\ two = {} /\ three = {} /\ four = {} /\ five = {} BY <1>4, NoFaults
<1>6. SlotFaults(s.relation) = {} BY <1>5 DEF one
<1>7. s.relation \in Relations /\ TypedSlots(s.relation) = Kinds(s.relation)
      /\ Len(Kinds(s.relation)) = Schema(s.relation).arity
      /\ \A t \in Nat : t < Len(Kinds(s.relation)) => At(Kinds(s.relation), t) # NoKind
  BY <1>6, SlotSound
<1>8. Schema(s.relation).arity = 2 BY <1>5, <1>7, NoCode DEF two, Declared
<1>9. Binary(slots) BY <1>5, NoCode DEF three
<1>10. ~Diverges(s.relation, slots) BY <1>5, NoCode DEF four
<1>11. ~off
  <2> HIDE DEF off
  <2> QED BY <1>5, NoCode DEF five
<1>12. s.from < 2 /\ s.to < 2 /\ s.from # s.to BY <1>9 DEF Binary
<1>13. IsDerived(s.relation) => slots = Own(s.relation) BY <1>10 DEF Diverges
<1>14. StepRight(r, i) BY <1>1, <1>2, <1>6, <1>7, <1>8, <1>12, <1>13 DEF StepRight
<1>15. from # NoKind /\ from = At(Kinds(s.relation), s.from) BY <1>2, <1>7, <1>8, <1>12
<1>16. Reached(r, i) \in {NoKind, from} BY <1>11, <1>15
<1> QED BY <1>1, <1>14, <1>15, <1>16

LEMMA StepKinds ==
    ASSUME Typing, NEW r, NEW i, StepRight(r, i), NEW slot \in Nat, slot < 2
    PROVE  At(Kinds(Schema(r).path[i].relation), slot) # NoKind
BY SlotSound DEF StepRight

LEMMA PathSound ==
    ASSUME Typing, NEW r, IsDerived(r), Schema(r).path # <<>>, PathFaults(r) = {}
    PROVE  LET path_ == Schema(r).path
               last == path_[Len(path_)]
           IN  /\ Len(path_) \in Nat /\ Len(path_) # 0
               /\ Kinds(r) = Schema(r).own /\ Len(Kinds(r)) = 2 /\ Schema(r).arity = 2
               /\ Schema(r).current < 2 /\ Schema(r).related < 2
               /\ \A i \in 1..Len(path_) : StepRight(r, i)
               /\ At(Kinds(path_[1].relation), path_[1].from) = At(Kinds(r), Schema(r).current)
               /\ \A i \in 2..Len(path_) :
                      At(Kinds(path_[i].relation), path_[i].from)
                          = At(Kinds(path_[i - 1].relation), path_[i - 1].to)
               /\ At(Kinds(last.relation), last.to) = At(Kinds(r), Schema(r).related)
<1>1. PICK path_ : path_ = Schema(r).path OBVIOUS
<1>2. /\ r \in Relations /\ path_ \in Seq(StepForm) /\ Len(path_) \in Nat /\ Len(path_) # 0
      /\ Own(r) = <<Schema(r).current, Schema(r).related>>
      /\ Schema(r).current \in Nat /\ Schema(r).related \in Nat /\ Schema(r).own \in Seq(EntityKinds)
  BY <1>1, OwnForm
<1> DEFINE declared == At(Schema(r).own, Schema(r).related)
           off == declared # NoKind /\ Reached(r, Len(path_) + 1) \notin {NoKind, declared}
           one == Code("relation_path_requires_binary_declaration", ~PathDeclared(r))
           two == Code("relation_path_kind_mismatch", off)
           steps == UNION {StepFaults(r, i) : i \in 1..Len(path_)}
<1>3. PathFaults(r) = steps \cup Fault(one \cup two, r, r) BY <1>1 DEF PathFaults
<1>4. \A i \in 1..Len(path_) : StepFaults(r, i) = {}
  <2>1. steps = {}
    <3> HIDE DEF steps, one, two
    <3> QED BY <1>3, NoFaults
  <2> QED BY <2>1
<1> HIDE DEF steps
<1>5. PathDeclared(r) /\ ~off
  <2> HIDE DEF off
  <2>1. one \cup two = {}
    <3> HIDE DEF one, two
    <3> QED BY <1>3, NoFaults, NoFault
  <2>2. one = {} /\ two = {}
    <3> HIDE DEF one, two
    <3> QED BY <2>1, NoFaults
  <2> QED BY <2>2, NoCode
<1>6. /\ Schema(r).arity = 2 /\ Len(Schema(r).own) = 2 /\ Schema(r).current < 2 /\ Schema(r).related < 2
  BY <1>2, <1>5 DEF PathDeclared, Binary
<1>7. Kinds(r) = Schema(r).own
  <2>1. Schema(r).own # Unknown BY <1>6 DEF Unknown
  <2>2. WrittenKinds(r) = Schema(r).own BY <1>2, <2>1 DEF WrittenKinds, Declared
  <2> QED BY <2>1, <2>2, WrittenAsRead
<1>8. \A i \in 1..Len(path_) : /\ StepRight(r, i)
                               /\ Reached(r, i) \in {NoKind, At(Kinds(path_[i].relation), path_[i].from)}
  BY <1>1, <1>4, StepSound
<1>9. \A s \in Nat : s < 2 => At(Schema(r).own, s) # NoKind
  BY <1>2, <1>6, ProgramAssumption DEF At
<1>10. Reached(r, 1) = At(Kinds(r), Schema(r).current) /\ Reached(r, 1) # NoKind
  BY <1>2, <1>6, <1>7, <1>9 DEF Reached
<1>11. ASSUME NEW i \in 2..(Len(path_) + 1)
       PROVE  /\ Reached(r, i) = At(Kinds(path_[i - 1].relation), path_[i - 1].to)
              /\ Reached(r, i) # NoKind
  <2>1. i # 1 /\ i - 1 \in 1..Len(path_) BY <1>2
  <2>2. StepRight(r, i - 1) BY <1>8, <2>1
  <2>3. SlotFaults(path_[i - 1].relation) = {} /\ path_[i - 1].to \in Nat /\ path_[i - 1].to < 2
    BY <1>1, <2>2 DEF StepRight
  <2>4. TypedSlots(path_[i - 1].relation) = Kinds(path_[i - 1].relation)
    BY <2>3, SlotSound
  <2>5. Reached(r, i) = At(Kinds(path_[i - 1].relation), path_[i - 1].to)
    BY <1>1, <2>1, <2>4 DEF Reached
  <2>6. At(Kinds(path_[i - 1].relation), path_[i - 1].to) # NoKind
    BY <1>1, <2>2, <2>3, StepKinds
  <2> QED BY <2>5, <2>6
<1>12. 1 \in 1..Len(path_) /\ \A i \in 2..Len(path_) : i \in 1..Len(path_) /\ i \in 2..(Len(path_) + 1)
  BY <1>2
<1>13. At(Kinds(path_[1].relation), path_[1].from) = At(Kinds(r), Schema(r).current)
  BY <1>8, <1>10, <1>12
<1>14. \A i \in 2..Len(path_) :
           At(Kinds(path_[i].relation), path_[i].from) = At(Kinds(path_[i - 1].relation), path_[i - 1].to)
  BY <1>8, <1>11, <1>12
<1>15. At(Kinds(path_[Len(path_)].relation), path_[Len(path_)].to) = At(Kinds(r), Schema(r).related)
  <2>1. Len(path_) + 1 \in 2..(Len(path_) + 1) /\ Len(path_) + 1 - 1 = Len(path_)
    BY <1>2
  <2>2. declared # NoKind BY <1>2, <1>6, <1>9
  <2>3. PICK n : n = Len(path_) + 1 OBVIOUS
  <2>4. n - 1 = Len(path_) /\ Reached(r, n) = At(Kinds(path_[n - 1].relation), path_[n - 1].to) /\ Reached(r, n) # NoKind
    BY <1>11, <2>1, <2>3
  <2>5. Reached(r, n) = declared BY <1>5, <2>2, <2>3, <2>4
  <2> QED BY <1>7, <2>4, <2>5
<1> QED BY <1>1, <1>2, <1>6, <1>7, <1>8, <1>13, <1>14, <1>15

(* The order found no cycle, so relations form none through their sources. *)
LEMMA SourcesEnd ==
    ASSUME Typing, OrderProofs!Inductive, pass = "accepted", NEW X \in SUBSET Derived, X # {},
           \A r \in X : \E s \in X : s \in Elements(Sources(r))
    PROVE  FALSE
<1> DEFINE S == {RelationNode(r) : r \in X}
<1>1. OrderProofs!CyclesRefused BY OrderProofs!CyclesHold DEF OrderProofs!CyclesExact
<1>2. \A r \in Relations : RelationOf(RelationNode(r)) = r /\ RelationNode(r) \notin Rules
  BY NamesAssumption, OrderAssumption DEF RelationNode, RelationOf
<1>3. X \subseteq Relations /\ \A r \in X : IsDerived(r) /\ Schema(r).derived /\ r \in Relations
  BY DEF Derived, IsDerived
<1>4. \A r \in X : IsDerivedNode(program, RelationNode(r))
  BY <1>2, <1>3 DEF IsDerivedNode, Schema
<1>5. S \subseteq OrderProofs!DerivedRelations
  BY <1>3, <1>4 DEF OrderProofs!DerivedRelations, OrderNodes
<1>6. \A r \in X : \E s \in X : RelationNode(s) \in NodeSources(program, RelationNode(r))
  <2> TAKE r \in X
  <2>1. PICK s \in X : s \in Elements(Sources(r)) OBVIOUS
  <2>2. IsDerivedNode(program, RelationNode(r)) /\ RelationOf(RelationNode(r)) = r
    BY <1>2, <1>3, <1>4
  <2>3. CASE Schema(r).path = <<>>
    <3>1. s = Schema(r).source BY <2>1, <2>3 DEF Sources, Elements
    <3> QED BY <2>2, <2>3, <3>1 DEF NodeSources, Schema
  <2>4. CASE Schema(r).path # <<>>
    <3>1. PICK way : way = Schema(r).path OBVIOUS
    <3>2. PICK list : list = [i \in 1..Len(way) |-> way[i].relation] OBVIOUS
    <3>3. list = Sources(r) BY <2>4, <3>1, <3>2 DEF Sources
    <3>4. PICK i \in 1..Len(list) : s = list[i] BY <2>1, <3>3 DEF Elements
    <3>5. way[i] \in Elements(way) /\ s = way[i].relation
      <4>1. way \in Seq(StepForm) BY <1>3, <3>1, OwnForm
      <4>2. Len(list) = Len(way) BY <3>2, <4>1
      <4>3. i \in 1..Len(way) /\ list[i] = way[i].relation BY <3>2, <3>4, <4>2
      <4> QED BY <3>4, <4>3 DEF Elements
    <3> QED BY <2>2, <2>4, <3>1, <3>5 DEF NodeSources, Schema
  <2> QED BY <2>3, <2>4
<1>7. \A x \in S : OrderProofs!Noticed(x) \cap S # {}
  <2> SUFFICES ASSUME NEW r \in X PROVE OrderProofs!Noticed(RelationNode(r)) \cap S # {}
    OBVIOUS
  <2>1. PICK s \in X : RelationNode(s) \in NodeSources(program, RelationNode(r)) BY <1>6
  <2>2. RelationNode(r) \notin Rules /\ RelationNode(s) \in OrderProofs!DerivedRelations
    BY <1>2, <1>3, <1>5
  <2>3. RelationNode(s) \in OrderProofs!Noticed(RelationNode(r))
    BY <2>1, <2>2 DEF OrderProofs!Noticed
  <2> QED BY <2>3
<1>8. S # {} /\ S \in SUBSET OrderProofs!Readers BY <1>5 DEF OrderProofs!Readers
<1>9. ~OrderProofs!Circular(S, OrderProofs!Noticed)
  BY <1>1, <1>8 DEF OrderProofs!CyclesRefused
<1> HIDE DEF S
<1> QED BY <1>7, <1>8, <1>9 DEF OrderProofs!Circular

LEMMA DerivationSound ==
    ASSUME Typing, NEW S, Accepted(S), NEW r \in used, IsDerived(r)
    PROVE  /\ SettledDerivation(r, S, used)
           /\ Schema(r).path # <<>> => PathFaults(r) = {}
<1>1. SettledDerivation(r, S, used)
  <2>1. Elements(<<>>) = {} BY DEF Elements
  <2> QED BY <2>1 DEF Accepted, Walked
<1>2. ASSUME Schema(r).path # <<>> PROVE PathFaults(r) = {}
  <2>1. r \in {d \in Derived : Schema(d).path # <<>>} BY <1>2 DEF IsDerived
  <2>2. PathFaults(r) \subseteq TermViolations BY <2>1 DEF TermViolations
  <2> QED BY <2>2 DEF Accepted
<1> QED BY <1>1, <1>2

(* The places whose ids are of kind k, as the check has found them. *)
Standing(k) ==
    {m \in [relation : used, slot : Nat] :
        /\ SlotFaults(m.relation) = {} /\ m.slot < Len(Kinds(m.relation))
        /\ IsDerived(m.relation) => m.slot = Schema(m.relation).related
        /\ At(Kinds(m.relation), m.slot) = k}

LEMMA PathLast ==
    ASSUME Typing, NEW S, Accepted(S), NEW r \in used, IsDerived(r), Schema(r).path # <<>>,
           NEW i \in 1..Len(Schema(r).path)
    PROVE  LET step == Schema(r).path[i]
           IN  /\ step.relation \in used /\ SlotFaults(step.relation) = {}
               /\ step.relation \in Elements(Sources(r))
               /\ Len(Kinds(step.relation)) = 2 /\ step.from \in Nat /\ step.to \in Nat
               /\ step.from < 2 /\ step.to < 2
               /\ IsDerived(step.relation) =>
                      step.from = Schema(step.relation).current /\ step.to = Schema(step.relation).related
<1>1. PICK way : way = Schema(r).path OBVIOUS
<1>2. way \in Seq(StepForm) /\ way # <<>> /\ i \in 1..Len(way) BY <1>1, OwnForm
<1>3. StepRight(r, i) BY <1>1, DerivationSound, PathSound
<1>4. way[i].relation \in Elements(Sources(r))
  <2>1. PICK list : list = [j \in 1..Len(way) |-> way[j].relation] OBVIOUS
  <2>2. Sources(r) = list BY <1>1, <1>2, <2>1 DEF Sources
  <2>3. Len(list) = Len(way) /\ list[i] = way[i].relation BY <1>2, <2>1
  <2> QED BY <1>2, <2>2, <2>3 DEF Elements
<1>5. way[i].relation \in used BY <1>4, DerivationSound DEF SettledDerivation
<1>6. ASSUME IsDerived(way[i].relation)
      PROVE  /\ way[i].from = Schema(way[i].relation).current
             /\ way[i].to = Schema(way[i].relation).related
  <2>1. <<way[i].from, way[i].to>> = <<Schema(way[i].relation).current, Schema(way[i].relation).related>>
    BY <1>1, <1>3, <1>6 DEF StepRight, Own
  <2> QED BY <2>1
<1> QED BY <1>1, <1>3, <1>4, <1>5, <1>6 DEF StepRight

LEMMA FilterSource ==
    ASSUME Typing, NEW S, Accepted(S), NEW r \in used, IsDerived(r), Schema(r).path = <<>>
    PROVE  LET s == Schema(r).source
           IN  /\ s \in used /\ SlotFaults(s) = {} /\ s \in Elements(Sources(r))
               /\ Kinds(r) = Kinds(s)
               /\ IsDerived(s) => Own(s) = Own(r) /\ Schema(s).related = Schema(r).related
<1>1. PICK s : s = Schema(r).source OBVIOUS
<1>2. Sources(r) = <<s>> BY <1>1 DEF Sources
<1>3. s \in Elements(<<s>>)
  <2>1. \A list : list = <<s>> => Len(list) = 1 /\ list[1] = s /\ 1 \in 1..Len(list)
    OBVIOUS
  <2> QED BY <2>1 DEF Elements
<1>4. s \in used BY <1>2, <1>3, DerivationSound DEF SettledDerivation
<1>5. /\ SlotFaults(s) = {} /\ Kinds(r) = Kinds(s)
      /\ IsDerived(s) => Own(s) = Own(r)
  BY <1>1, DerivationSound, SourceSound DEF SettledDerivation
<1>6. IsDerived(s) => Schema(s).related = Schema(r).related BY <1>5 DEF Own
<1> QED BY <1>1, <1>2, <1>3, <1>4, <1>5, <1>6

LEMMA SourceStands ==
    ASSUME Typing, NEW S, Accepted(S), NEW k, NEW m \in Standing(k)
    PROVE  /\ SourcePlace(m) \in Standing(k)
           /\ IsDerived(m.relation) => SourcePlace(m).relation \in Elements(Sources(m.relation))
<1>1. PICK r : r = m.relation OBVIOUS
<1>2. /\ r \in used /\ SlotFaults(r) = {} /\ m.slot \in Nat /\ m.slot < Len(Kinds(r))
      /\ (IsDerived(r) => m.slot = Schema(r).related) /\ At(Kinds(r), m.slot) = k
  BY <1>1 DEF Standing
<1>3. CASE ~IsDerived(r)
  <2>1. SourcePlace(m) = m BY <1>1, <1>3 DEF SourcePlace
  <2> QED BY <1>1, <1>3, <2>1
<1>4. CASE IsDerived(r) /\ Schema(r).path = <<>>
  <2>1. PICK s : s = Schema(r).source OBVIOUS
  <2>2. SourcePlace(m) = Place(s, Schema(r).related) BY <1>1, <1>4, <2>1 DEF SourcePlace
  <2>3. /\ s \in used /\ SlotFaults(s) = {} /\ s \in Elements(Sources(r)) /\ Kinds(r) = Kinds(s)
        /\ IsDerived(s) => Schema(s).related = Schema(r).related
    BY <1>2, <1>4, <2>1, FilterSource
  <2>4. Schema(r).related = m.slot BY <1>2, <1>4
  <2>5. Place(s, m.slot) \in Standing(k) /\ Place(s, m.slot).relation = s
    BY <1>2, <2>3, <2>4 DEF Standing, Place
  <2> QED BY <1>1, <2>2, <2>3, <2>4, <2>5
<1>5. CASE IsDerived(r) /\ Schema(r).path # <<>>
  <2>1. PICK way : way = Schema(r).path OBVIOUS
  <2>2. PICK last : last = way[Len(way)] OBVIOUS
  <2>3. SourcePlace(m) = Place(last.relation, last.to)
    BY <1>1, <1>5, <2>1, <2>2 DEF SourcePlace
  <2>4. way \in Seq(StepForm) /\ Len(way) \in 1..Len(way)
    <3>1. way \in Seq(StepForm) /\ way # <<>> BY <1>5, <2>1, OwnForm
    <3> QED BY <3>1
  <2>5. /\ last.relation \in used /\ SlotFaults(last.relation) = {}
        /\ last.relation \in Elements(Sources(r))
        /\ Len(Kinds(last.relation)) = 2 /\ last.to \in Nat /\ last.to < 2
        /\ IsDerived(last.relation) => last.to = Schema(last.relation).related
    <3>1. PICK n : n = Len(way) OBVIOUS
    <3>2. n \in 1..Len(Schema(r).path) /\ last = Schema(r).path[n]
      BY <2>1, <2>2, <2>4, <3>1
    <3> QED BY <1>2, <1>5, <3>2, PathLast
  <2>6. At(Kinds(last.relation), last.to) = At(Kinds(r), Schema(r).related)
    <3>1. PathFaults(r) = {} BY <1>2, <1>5, DerivationSound
    <3> QED BY <1>5, <2>1, <2>2, <3>1, PathSound
  <2>7. Place(last.relation, last.to) \in Standing(k) /\ Place(last.relation, last.to).relation = last.relation
    BY <1>2, <1>5, <2>5, <2>6 DEF Standing, Place
  <2> QED BY <1>1, <2>3, <2>5, <2>7
<1> QED BY <1>3, <1>4, <1>5

(* Following sources ends at a data relation. *)
LEMMA SourcesReached ==
    ASSUME Typing, OrderProofs!Inductive, pass = "accepted", NEW S, Accepted(S), NEW k,
           NEW N, N = Cardinality(Relations), NEW from \in [0..N -> Standing(k)],
           \A n \in 1..N : from[n] = SourcePlace(from[n - 1])
    PROVE  ~IsDerived(from[N].relation)
<1> SUFFICES ASSUME IsDerived(from[N].relation) PROVE FALSE OBVIOUS
<1>1. N \in Nat BY NamesAssumption, FS_CardinalityType
<1> DEFINE A == {n \in Nat : IsDerived(from[N - n].relation)}
<1>2. 0 \in A
  <2>1. N - 0 = N BY <1>1
  <2> QED BY <2>1
<1>3. ASSUME NEW n \in 1..N, n - 1 \in A PROVE n \in A
  <2>1. N - n \in 0..N /\ N - (n - 1) \in 1..N /\ N - (n - 1) - 1 = N - n BY <1>1
  <2>2. PICK m, p : m = N - n /\ p = N - (n - 1) OBVIOUS
  <2>3. from[p] = SourcePlace(from[m]) /\ IsDerived(from[p].relation)
    BY <1>3, <2>1, <2>2
  <2>4. IsDerived(from[m].relation) BY <2>3 DEF SourcePlace
  <2> QED BY <2>2, <2>4
<1> HIDE DEF A
<1>4. 0..N \subseteq A BY <1>1, <1>2, <1>3, Upward
<1>5. ASSUME NEW n \in 0..N PROVE IsDerived(from[n].relation)
  <2>1. N - n \in 0..N /\ N - (N - n) = n BY <1>1
  <2> QED BY <1>4, <2>1 DEF A
<1> DEFINE name == [n \in 0..N |-> from[n].relation]
<1>6. name \in [0..N -> Relations] BY <1>5 DEF IsDerived, Derived
<1>7. \A n \in 0..N : name[n] = from[n].relation OBVIOUS
<1> HIDE DEF name
<1>8. IsFiniteSet(0..N) /\ Cardinality(0..N) = N + 1 BY <1>1, FS_Interval
<1>9. IsFiniteSet(Relations) /\ Cardinality(Relations) < Cardinality(0..N)
  BY <1>1, <1>8, NamesAssumption
<1>10. PICK a \in 0..N, b \in 0..N : a # b /\ name[a] = name[b]
  <2>1. PICK D, T, g : D = 0..N /\ T = Relations /\ g = name OBVIOUS
  <2>2. /\ IsFiniteSet(D) /\ IsFiniteSet(T) /\ Cardinality(T) < Cardinality(D) /\ g \in [D -> T]
    BY <1>6, <1>8, <1>9, <2>1
  <2>3. \E x, y \in D : x # y /\ g[x] = g[y] BY ONLY <2>2, FS_PigeonHole
  <2> QED BY <2>1, <2>3
<1>11. PICK i \in 0..N, j \in 0..N : i < j /\ name[i] = name[j] BY <1>1, <1>10
<1> DEFINE X == {name[n] : n \in i..(j - 1)}
<1>12. ASSUME NEW n \in 0..(N - 1) PROVE name[n + 1] \in Elements(Sources(name[n]))
  <2>1. n \in 0..N /\ n + 1 \in 1..N /\ n + 1 - 1 = n /\ n + 1 \in 0..N BY <1>1
  <2>2. from[n + 1] = SourcePlace(from[n]) /\ from[n] \in Standing(k) /\ IsDerived(from[n].relation)
    <3>1. PICK m \in 1..N : m = n + 1 /\ m - 1 = n BY <2>1
    <3>2. from[m] = SourcePlace(from[m - 1]) OBVIOUS
    <3>3. from[n] \in Standing(k) BY <2>1
    <3>4. IsDerived(from[n].relation) BY ONLY <1>5, <2>1
    <3> QED BY <3>1, <3>2, <3>3, <3>4
  <2>3. SourcePlace(from[n]).relation \in Elements(Sources(from[n].relation))
    BY <2>2, SourceStands
  <2> QED BY <1>7, <2>1, <2>2, <2>3
<1>13. X \in SUBSET Derived
  <2>1. \A n \in i..(j - 1) : n \in 0..N BY <1>1, <1>11
  <2> QED BY <1>5, <1>7, <2>1 DEF IsDerived
<1>14. i \in i..(j - 1) BY <1>1, <1>11
<1>15. ASSUME NEW r \in X PROVE \E s \in X : s \in Elements(Sources(r))
  <2>1. PICK n \in i..(j - 1) : r = name[n] OBVIOUS
  <2>2. n \in 0..(N - 1) BY <1>1, <1>11
  <2>3. name[n + 1] \in Elements(Sources(r)) BY <1>12, <2>1, <2>2
  <2>4. CASE n = j - 1
    <3>1. name[n + 1] = name[i] BY <1>1, <1>11, <2>4
    <3> QED BY <1>14, <2>3, <3>1
  <2>5. CASE n # j - 1
    <3>1. n + 1 \in i..(j - 1)
      <4>1. i \in Int /\ j \in Int /\ n \in Int /\ i <= n /\ n <= j - 1 BY <1>1
      <4> QED BY <2>5, <4>1
    <3> QED BY <2>3, <3>1
  <2> QED BY <2>4, <2>5
<1>16. X # {} BY <1>14
<1> HIDE DEF X
<1> QED BY <1>13, <1>15, <1>16, SourcesEnd

(* A relation gives ids of the kind the check knows its slot by. *)
LEMMA GivesKind ==
    ASSUME Typing, OrderProofs!Inductive, pass = "accepted", NEW S, Accepted(S),
           NEW r \in used, SlotFaults(r) = {}, NEW slot \in Nat, slot < Len(Kinds(r)),
           IsDerived(r) => slot = Schema(r).related
    PROVE  Gives(r, slot) = At(Kinds(r), slot)
<1>1. PICK k : k = At(Kinds(r), slot) OBVIOUS
<1>2. PICK N : N = Cardinality(Relations) OBVIOUS
<1>3. N \in Nat BY <1>2, NamesAssumption, FS_CardinalityType
<1>4. Place(r, slot) \in Standing(k) BY <1>1 DEF Place, Standing
<1>5. PICK V : V = Standing(k) OBVIOUS
<1>6. \A m \in V : SourcePlace(m) \in V BY <1>5, SourceStands
<1> DEFINE h == [x \in (1..N) \X V |-> SourcePlace(x[2])]
           Gen(f) == [n \in 0..N |-> IF n = 0 THEN Place(r, slot) ELSE SourcePlace(f[n - 1])]
           from == CHOOSE f : f = Gen(f)
<1>7. h \in [(1..N) \X V -> V] /\ \A n \in 1..N : \A m \in V : h[<<n, m>>] = SourcePlace(m)
  BY <1>6
<1> HIDE DEF h
<1>8. PICK start : start = Place(r, slot) OBVIOUS
<1>9. PICK f \in [0..N -> V] : Follows(N, start, h, f)
  BY <1>3, <1>4, <1>5, <1>7, <1>8, Iterating
<1>10. /\ f[0] = Place(r, slot)
       /\ \A n \in 1..N : f[n] = SourcePlace(f[n - 1])
  <2>1. \A n \in 1..N : n - 1 \in 0..N BY <1>3
  <2> QED BY <1>7, <1>8, <1>9, <2>1 DEF Follows
<1>11. f = Gen(f)
  <2>1. \A n \in 0..N : n = 0 \/ n \in 1..N BY <1>3
  <2>2. \A n \in 0..N : f[n] = IF n = 0 THEN Place(r, slot) ELSE SourcePlace(f[n - 1])
    BY <1>10, <2>1
  <2> QED BY <1>9, <2>2
<1>12. from = Gen(from) BY <1>11
<1>13. from \in [0..N -> V] /\ \A n \in 1..N : from[n] = SourcePlace(from[n - 1])
  <2> HIDE DEF from
  <2>1. /\ DOMAIN from = 0..N
        /\ \A n \in 0..N : from[n] = IF n = 0 THEN Place(r, slot) ELSE SourcePlace(from[n - 1])
    BY <1>12
  <2>2. \A n \in 1..N : n \in 0..N /\ n # 0 BY <1>3
  <2>3. 0 \in {n \in 0..N : from[n] \in V} BY <1>3, <1>4, <1>5, <2>1
  <2>4. \A n \in 1..N : n - 1 \in {x \in 0..N : from[x] \in V} => n \in {x \in 0..N : from[x] \in V}
    BY <1>6, <2>1, <2>2
  <2> DEFINE A == {x \in 0..N : from[x] \in V}
  <2> HIDE DEF A
  <2>5. 0..N \subseteq A
    <3>1. 0 \in A /\ \A n \in 1..N : n - 1 \in A => n \in A BY <2>3, <2>4 DEF A
    <3> QED BY <1>3, <3>1, Upward
  <2>6. \A n \in 0..N : from[n] \in V BY <2>5 DEF A
  <2> QED BY <1>12, <2>1, <2>2, <2>6
<1>14. Gives(r, slot) = At(Schema(from[N].relation).kinds, from[N].slot)
  BY <1>2 DEF Gives
<1> HIDE DEF from
<1>15. ~IsDerived(from[N].relation) BY <1>2, <1>5, <1>13, SourcesReached
<1>16. from[N] \in Standing(k) BY <1>3, <1>5, <1>13
<1>17. SlotFaults(from[N].relation) = {} /\ At(Kinds(from[N].relation), from[N].slot) = k
  BY <1>16 DEF Standing
<1>18. Kinds(from[N].relation) = Schema(from[N].relation).kinds
  <2>1. from[N].relation \in Relations BY <1>17, SlotSound
  <2> QED BY <1>15, <2>1, DataKinds
<1> QED BY <1>1, <1>14, <1>17, <1>18

-----------------------------------------------------------------------------
(* Where the evaluation of an accepted program may be: a lookup has an id *)
(* of its slot's kind; a rule's formula or a clause was met on its id's *)
(* kind; and a predicate was met on the two kinds of its derivation, its *)
(* variables of the kinds its generators declare. *)
LookUpRight(h) ==
    /\ h.relation \in used /\ SlotFaults(h.relation) = {}
    /\ \E current, related \in Nat :
           /\ h.slots = <<current, related>>
           /\ current < Len(Kinds(h.relation)) /\ related < Len(Kinds(h.relation))
           /\ h.id = At(Kinds(h.relation), current)
    /\ IsDerived(h.relation) => h.slots = Own(h.relation)

RuleRight(S, h) ==
    /\ h = Evaluating(h.body, h.id, 0, NoKind, <<>>, h.rule)
    /\ h.body \in Bodies(program)
    /\ \E citing : \E entity \in EntityKinds :
           /\ Met(h.body, entity, NoMember, citing, S)
           /\ h.rule \in Rules => entity = Entity(h.rule)
           /\ h.rule \notin Rules =>
                  /\ h.rule = 0 /\ h.id = entity /\ IdKind(entity) = entity
                  /\ \A x \in RulesRead(h.body) \cap Rules :
                         Entity(x) = SCALAR_ENTITY \/ IdKind(Entity(x)) = entity

BoundRight(binding, kind) ==
    /\ WrittenKinds(binding.relation) # Unknown /\ SlotFaults(binding.relation) = {}
    /\ binding.slot < Len(Kinds(binding.relation))
    /\ kind = At(Kinds(binding.relation), binding.slot)

(* The uses of terms left in a body, below the generators around it. *)
Below(use, bindings) ==
    [node |-> use.node, clause |-> use.clause, bindings |-> bindings \o use.bindings]

TermsRight(h, bindings) ==
    /\ bindings \in Seq([relation : Nat, slot : Nat]) /\ Len(bindings) = Len(h.variables)
    /\ \A i \in 1..Len(bindings) : BoundRight(bindings[i], h.variables[i])
    /\ \A use \in TermUses(h.body) : UseFaults(h.relation, Below(use, bindings)) = {}

PredicateRight(S, h) ==
    LET r == h.relation
    IN  /\ h = Evaluating(h.body, h.id, r, h.current, h.variables, 0) /\ r # 0
        /\ h.body \in Bodies(program) /\ h.variables \in Seq(EntityKinds)
        /\ r \in used /\ IsDerived(r) /\ SlotFaults(r) = {}
        /\ Schema(r).current < Len(Kinds(r)) /\ h.current = At(Kinds(r), Schema(r).current)
        /\ Schema(r).related < Len(Kinds(r)) /\ h.id = At(Kinds(r), Schema(r).related)
        /\ Met(h.body, h.id, Bound(h.current, h.id), r, S)
        /\ RulesRead(h.body) \subseteq RulesRead(Schema(r).predicate)
        /\ \E bindings : TermsRight(h, bindings)

HereRight(S, h) ==
    \/ h = Nowhere
    \/ h.what = "meet" /\ h.left = h.right
    \/ h.what = "lookup" /\ LookUpRight(h)
    \/ h.what = "body" /\ (RuleRight(S, h) \/ PredicateRight(S, h))

LEMMA HereKept ==
    ASSUME UNCHANGED typing_tables, used' = used, NEW S, NEW h, HereRight(S, h)
    PROVE  HereRight(S, h)'
<1>0. program' = program BY DEF typing_tables
<1>1. LookUpRight(h) => LookUpRight(h)' BY TablesKept DEF LookUpRight
<1>2. RuleRight(S, h) => RuleRight(S, h)'
  <2> SUFFICES ASSUME RuleRight(S, h) PROVE RuleRight(S, h)' OBVIOUS
  <2>1. PICK citing, entity :
            /\ entity \in EntityKinds /\ Met(h.body, entity, NoMember, citing, S)
            /\ h.rule \in Rules => entity = Entity(h.rule)
            /\ h.rule \notin Rules =>
                   /\ h.rule = 0 /\ h.id = entity /\ IdKind(entity) = entity
                   /\ \A x \in RulesRead(h.body) \cap Rules :
                          Entity(x) = SCALAR_ENTITY \/ IdKind(Entity(x)) = entity
    BY DEF RuleRight
  <2>2. /\ h.rule \in Rules => entity = Entity(h.rule)'
        /\ h.rule \notin Rules =>
               /\ h.rule = 0 /\ h.id = entity /\ IdKind(entity)' = entity
               /\ \A x \in (RulesRead(h.body) \cap Rules)' :
                      Entity(x)' = SCALAR_ENTITY \/ IdKind(Entity(x))' = entity
    <3>1. RulesRead(h.body)' = RulesRead(h.body) BY <1>0, BodiesKept
    <3>2. \A x : Entity(x)' = Entity(x) /\ IdKind(Entity(x))' = IdKind(Entity(x))
      BY TablesKept DEF IdKind, Entity, typing_tables
    <3>3. IdKind(entity)' = IdKind(entity) BY TablesKept
    <3> QED BY <2>1, <3>1, <3>2, <3>3
  <2>3. (Met(h.body, entity, NoMember, citing, S))' BY <2>1 DEF Met, NoMember
  <2>4. (h = Evaluating(h.body, h.id, 0, NoKind, <<>>, h.rule) /\ h.body \in Bodies(program))'
    BY <1>0 DEF RuleRight
  <2> QED BY <2>1, <2>2, <2>3, <2>4 DEF RuleRight
<1>3. \A b, k : BoundRight(b, k)' = BoundRight(b, k) BY TablesKept DEF BoundRight
<1>4. \A bindings : TermsRight(h, bindings)' = TermsRight(h, bindings)
  BY <1>0, <1>3, BodiesKept, TermsKept DEF TermsRight
<1>5. PredicateRight(S, h) => PredicateRight(S, h)'
  BY <1>0, <1>4, TablesKept, BodiesKept DEF PredicateRight, Met
<1> QED BY <1>1, <1>2, <1>5 DEF HereRight, Nowhere

(* What is known of an accepted program. *)
Compiled(S) == Typing /\ OrderProofs!Inductive /\ pass = "accepted" /\ Accepted(S)

LEMMA MeetRight == \A S, k : HereRight(S, Meet(k, k))
BY DEF HereRight, Meet

LEMMA LookUpMade ==
    ASSUME NEW S, NEW r \in used, SlotFaults(r) = {}, NEW current \in Nat, NEW related \in Nat,
           NEW slots, slots = <<current, related>>,
           current < Len(Kinds(r)), related < Len(Kinds(r)),
           IsDerived(r) => slots = Own(r),
           NEW id, id = At(Kinds(r), current)
    PROVE  HereRight(S, LookUp(r, slots, id))
<1>1. LookUpRight(LookUp(r, slots, id)) BY DEF LookUpRight, LookUp
<1> QED BY <1>1 DEF HereRight, LookUp

(* Running a rule, on any id. *)
LEMMA RunRuleRight ==
    ASSUME NEW S, Compiled(S), NEW x \in Rules, NEW id
    PROVE  HereRight(S, RunRule(x, id))
<1>1. PICK body, h : body = Formulas(x) /\ h = Evaluating(body, id, 0, NoKind, <<>>, x)
  OBVIOUS
<1>2. h = RunRule(x, id) BY <1>1 DEF RunRule, Formulas
<1>3. /\ h.what = "body" /\ h.body = body /\ h.id = id /\ h.rule = x
  BY <1>1 DEF Evaluating
<1>4. body \in Bodies(program) /\ Entity(x) \in EntityKinds
  BY <1>1, RuleForms DEF Compiled, Typing, Formulas, Entity
<1>5. Met(body, Entity(x), NoMember, x, S) BY <1>1 DEF Compiled, Accepted, Walked
<1>6. RuleRight(S, h)
  <2>1. h.rule \in Rules BY <1>3
  <2>2. Met(h.body, Entity(x), NoMember, x, S) /\ Entity(x) = Entity(h.rule) /\ Entity(x) \in EntityKinds
    BY <1>3, <1>4, <1>5
  <2>3. h = Evaluating(h.body, h.id, 0, NoKind, <<>>, h.rule) /\ h.body \in Bodies(program)
    BY <1>1, <1>3, <1>4
  <2> QED BY <2>1, <2>2, <2>3 DEF RuleRight
<1> QED BY <1>2, <1>3, <1>6 DEF HereRight

LEMMA RuleReadRight ==
    ASSUME NEW S, Compiled(S), NEW x \in Rules, NEW id,
           Entity(x) = SCALAR_ENTITY \/ IdKind(Entity(x)) = id, NEW g \in RuleRead(x, id)
    PROVE  HereRight(S, g)
<1>1. CASE Entity(x) = SCALAR_ENTITY BY <1>1, RunRuleRight DEF RuleRead
<1>2. CASE Entity(x) # SCALAR_ENTITY
  <2>1. g = RunRule(x, id) \/ g = Meet(id, IdKind(Entity(x))) BY <1>2 DEF RuleRead
  <2>2. IdKind(Entity(x)) = id BY <1>2
  <2> QED BY <2>1, <2>2, RunRuleRight, MeetRight
<1> QED BY <1>1, <1>2

(* A derived relation is looked up by its source, by the steps of its path *)
(* and by its predicate. *)
LEMMA PredicateMade ==
    ASSUME NEW S, Compiled(S), NEW r \in used, IsDerived(r), SlotFaults(r) = {},
           Schema(r).current < Len(Kinds(r)), Schema(r).related < Len(Kinds(r)),
           NEW current, current = At(Kinds(r), Schema(r).current)
    PROVE  HereRight(S, Predicate(r, current))
<1>0. Typing /\ OrderProofs!Inductive /\ pass = "accepted" /\ Accepted(S)
  BY DEF Compiled
<1>1. /\ r \in Relations /\ r # 0
      /\ Schema(r).current \in Nat /\ Schema(r).related \in Nat /\ Schema(r).predicate \in Bodies(program)
  BY <1>0, OwnForm, NamesAssumption
<1>2. PICK related : related = At(Kinds(r), Schema(r).related) OBVIOUS
<1>3. Gives(r, Schema(r).related) = related BY <1>0, <1>1, <1>2, GivesKind
<1>4. PICK body, h : body = Schema(r).predicate /\ h = Evaluating(body, related, r, current, <<>>, 0)
  OBVIOUS
<1>5. h = Predicate(r, current) BY <1>3, <1>4 DEF Predicate
<1>6. /\ h.what = "body" /\ h.body = body /\ h.id = related /\ h.relation = r /\ h.current = current
      /\ h.variables = <<>>
  BY <1>4 DEF Evaluating
<1>7. Met(body, related, Bound(current, related), r, S)
  BY <1>0, <1>2, <1>4, DerivationSound DEF SettledDerivation
<1>8. \A use \in TermUses(body) : UseFaults(r, Below(use, <<>>)) = {}
  <2> TAKE use \in TermUses(body)
  <2>1. use \in TermUseForm BY <1>0, <1>1, <1>4, TermUsesForm DEF Typing
  <2>2. use.bindings \in Seq([relation : Nat, slot : Nat])
        /\ use = [node |-> use.node, clause |-> use.clause, bindings |-> use.bindings]
    BY <2>1 DEF TermUseForm
  <2>3. <<>> \o use.bindings = use.bindings BY <2>2
  <2>4. Below(use, <<>>) = use BY <2>2, <2>3 DEF Below
  <2>5. UseFaults(r, use) \subseteq TermViolations BY <1>4 DEF TermViolations, IsDerived
  <2> QED BY <1>0, <2>4, <2>5 DEF Accepted
<1>9. TermsRight(h, <<>>) BY <1>6, <1>8 DEF TermsRight
<1>10. PredicateRight(S, h)
  <2>1. h.variables \in Seq(EntityKinds) BY <1>6
  <2>2. h = Evaluating(h.body, h.id, h.relation, h.current, h.variables, 0)
    BY <1>4, <1>6
  <2> QED BY <1>1, <1>2, <1>4, <1>6, <1>7, <1>9, <2>1, <2>2 DEF PredicateRight
<1> QED BY <1>5, <1>6, <1>10 DEF HereRight

LEMMA DerivedLookUp ==
    ASSUME NEW S, Compiled(S), NEW r \in used, IsDerived(r), SlotFaults(r) = {},
           Schema(r).current < Len(Kinds(r)), Schema(r).related < Len(Kinds(r)),
           NEW id, id = At(Kinds(r), Schema(r).current)
    PROVE  /\ Schema(r).path = <<>> => HereRight(S, LookUp(Schema(r).source, Own(r), id))
           /\ Schema(r).path # <<>> => \A g \in PathLookUps(r, id) : HereRight(S, g)
<1>0. Typing /\ OrderProofs!Inductive /\ pass = "accepted" /\ Accepted(S)
  BY DEF Compiled
<1>1. /\ Own(r) = <<Schema(r).current, Schema(r).related>>
      /\ Schema(r).current \in Nat /\ Schema(r).related \in Nat /\ Schema(r).path \in Seq(StepForm)
  BY <1>0, OwnForm
<1>2. ASSUME Schema(r).path = <<>>
      PROVE  HereRight(S, LookUp(Schema(r).source, Own(r), id))
  <2>1. PICK s, current, related, slots :
            s = Schema(r).source /\ current = Schema(r).current /\ related = Schema(r).related
            /\ slots = Own(r)
    OBVIOUS
  <2>2. s \in used /\ SlotFaults(s) = {} /\ Kinds(r) = Kinds(s) /\ (IsDerived(s) => Own(s) = Own(r))
    BY <1>0, <1>2, <2>1, FilterSource
  <2>3. /\ s \in used /\ SlotFaults(s) = {} /\ current \in Nat /\ related \in Nat
        /\ slots = <<current, related>> /\ current < Len(Kinds(s)) /\ related < Len(Kinds(s))
        /\ IsDerived(s) => slots = Own(s)
        /\ id = At(Kinds(s), current)
    BY <1>1, <2>1, <2>2
  <2>4. HereRight(S, LookUp(s, slots, id)) BY ONLY <2>3, LookUpMade
  <2> QED BY <2>1, <2>4
<1>3. ASSUME Schema(r).path # <<>>, NEW g \in PathLookUps(r, id)
      PROVE  HereRight(S, g)
  <2>1. PICK way : way = Schema(r).path OBVIOUS
  <2>2. PICK i \in 1..Len(way) :
            g = LookUp(way[i].relation, <<way[i].from, way[i].to>>,
                       IF i = 1 THEN id ELSE Gives(way[i - 1].relation, way[i - 1].to))
    BY <2>1 DEF PathLookUps
  <2>3. PICK s, current, related, slots :
            s = way[i].relation /\ current = way[i].from /\ related = way[i].to
            /\ slots = <<current, related>>
    OBVIOUS
  <2>4. /\ s \in used /\ SlotFaults(s) = {} /\ Len(Kinds(s)) = 2
        /\ current \in Nat /\ related \in Nat /\ current < 2 /\ related < 2
        /\ IsDerived(s) => slots = Own(s)
    <3>1. i \in 1..Len(Schema(r).path) BY <2>1
    <3>2. /\ s \in used /\ SlotFaults(s) = {} /\ Len(Kinds(s)) = 2
          /\ current \in Nat /\ related \in Nat /\ current < 2 /\ related < 2
          /\ IsDerived(s) => current = Schema(s).current /\ related = Schema(s).related
      BY <1>0, <1>3, <2>1, <2>3, <3>1, PathLast
    <3> QED BY <2>3, <3>2 DEF Own
  <2>5. PICK given : given = IF i = 1 THEN id ELSE Gives(way[i - 1].relation, way[i - 1].to)
    OBVIOUS
  <2>6. /\ At(Kinds(way[1].relation), way[1].from) = At(Kinds(r), Schema(r).current)
        /\ \A j \in 2..Len(way) :
               At(Kinds(way[j].relation), way[j].from) = At(Kinds(way[j - 1].relation), way[j - 1].to)
    <3>1. PathFaults(r) = {} BY <1>0, <1>3, DerivationSound
    <3> QED BY <1>0, <1>3, <2>1, <3>1, PathSound
  <2>7. given = At(Kinds(s), current)
    <3>1. CASE i = 1 BY <2>3, <2>5, <2>6, <3>1
    <3>2. CASE i # 1
      <4>1. i \in 2..Len(way) /\ i - 1 \in 1..Len(way) BY <3>2
      <4>2. PICK before : before = way[i - 1] OBVIOUS
      <4>3. /\ before.relation \in used /\ SlotFaults(before.relation) = {}
            /\ Len(Kinds(before.relation)) = 2 /\ before.to \in Nat /\ before.to < 2
            /\ IsDerived(before.relation) => before.to = Schema(before.relation).related
        <5>1. PICK j : j = i - 1 OBVIOUS
        <5>2. j \in 1..Len(Schema(r).path) /\ before = Schema(r).path[j]
          BY <2>1, <4>1, <4>2, <5>1
        <5> QED BY <1>0, <1>3, <5>2, PathLast
      <4>4. Gives(before.relation, before.to) = At(Kinds(before.relation), before.to)
        <5>1. before.to < Len(Kinds(before.relation)) BY <4>3
        <5> QED BY <1>0, <4>3, <5>1, GivesKind
      <4> QED BY <2>3, <2>5, <2>6, <3>2, <4>1, <4>2, <4>4
    <3> QED BY <3>1, <3>2
  <2>8. HereRight(S, LookUp(s, slots, given))
    <3>1. current < Len(Kinds(s)) /\ related < Len(Kinds(s)) BY <2>4
    <3> QED BY ONLY <2>3, <2>4, <2>7, <3>1, LookUpMade
  <2> QED BY <2>2, <2>3, <2>5, <2>8
<1> QED BY <1>2, <1>3

LEMMA LookedUp ==
    ASSUME NEW S, Compiled(S), here.what = "lookup", LookUpRight(here), NEW g \in LookUpReads
    PROVE  HereRight(S, g)
<1>0. Typing /\ OrderProofs!Inductive /\ pass = "accepted" /\ Accepted(S)
  BY DEF Compiled
<1>1. PICK r, id, slots : r = here.relation /\ id = here.id /\ slots = here.slots
  OBVIOUS
<1>2. /\ r \in used /\ SlotFaults(r) = {} /\ r \in Relations
      /\ IsDerived(r) => slots = Own(r)
  BY <1>0, <1>1, SlotSound DEF LookUpRight
<1>3. PICK current \in Nat, related \in Nat :
          /\ slots = <<current, related>> /\ current < Len(Kinds(r)) /\ related < Len(Kinds(r))
          /\ id = At(Kinds(r), current)
  BY <1>1 DEF LookUpRight
<1>4. CASE ~IsDerived(r)
  <2>1. g = Meet(id, At(Schema(r).kinds, current)) BY <1>1, <1>3, <1>4 DEF LookUpReads
  <2>2. Schema(r).kinds = Kinds(r) BY <1>0, <1>2, <1>4, DataKinds
  <2> QED BY <1>3, <2>1, <2>2, MeetRight
<1>5. CASE IsDerived(r)
  <2>1. current = Schema(r).current /\ related = Schema(r).related
    BY <1>2, <1>3, <1>5 DEF Own
  <2>2. /\ Schema(r).current < Len(Kinds(r)) /\ Schema(r).related < Len(Kinds(r))
        /\ id = At(Kinds(r), Schema(r).current)
    BY <1>3, <2>1
  <2>3. \/ g = Predicate(r, id)
        \/ Schema(r).path = <<>> /\ g = LookUp(Schema(r).source, Own(r), id)
        \/ Schema(r).path # <<>> /\ g \in PathLookUps(r, id)
    BY <1>1, <1>5 DEF LookUpReads
  <2>4. HereRight(S, Predicate(r, id)) BY <1>2, <1>5, <2>2, PredicateMade
  <2>5. /\ Schema(r).path = <<>> => HereRight(S, LookUp(Schema(r).source, Own(r), id))
        /\ Schema(r).path # <<>> => \A x \in PathLookUps(r, id) : HereRight(S, x)
    BY <1>2, <1>5, <2>2, DerivedLookUp
  <2> QED BY <2>3, <2>4, <2>5
<1> QED BY <1>4, <1>5

(* What passing says of an aggregation. *)
LEMMA AggregateSlots ==
    ASSUME Typing, NEW n \in NodeForm(program), NEW entity, entity # NoKind,
           AggregateCodes(n, entity) = {}
    PROVE  \E current, related \in Nat :
               /\ SlotFaults(n.relation) = {}
               /\ TraversedSlots(n) = <<current, related>>
               /\ current < Len(Kinds(n.relation)) /\ related < Len(Kinds(n.relation))
               /\ IsDerived(n.relation) => TraversedSlots(n) = Own(n.relation)
               /\ IdKind(entity) = At(Kinds(n.relation), current)
               /\ ClauseKind(n) = At(Kinds(n.relation), related)
               /\ Strays(n, Kinds(n.relation)) = {}
<1>1. PICK r, kinds, slots : r = n.relation /\ kinds = TypedSlots(r) /\ slots = TraversedSlots(n)
  OBVIOUS
<1> DEFINE inside == kinds # Unknown /\ InRange(kinds, slots)
           two == Code("derived_relation_slots_diverge", Diverges(r, <<n.current, n.related>>))
           outside == kinds # Unknown /\ ~InRange(kinds, slots)
           three == Code("relation_slot_out_of_range", outside)
           keyed == inside /\ KeyedWrong(n, entity, kinds)
           four == Code("relation_current_slot_entity_mismatch", keyed)
           strays == inside /\ Strays(n, kinds) # {}
           five == Code("relation_related_slot_entity_mismatch", strays)
           shape == n.op = "only" /\ \/ n.current = n.related \/ n.current > 1 \/ n.related > 1
                                     \/ n.value # 0 \/ (Declared(r) /\ Schema(r).arity # 2)
           six == Code("only_related_shape", shape)
<1>2. AggregateCodes(n, entity) = SlotFaults(r) \cup two \cup three \cup four \cup five \cup six
  BY <1>1 DEF AggregateCodes
<1> HIDE DEF two, three, four, five, six
<1>3. SlotFaults(r) = {} /\ three = {} /\ four = {} /\ five = {} BY <1>2, NoFaults
<1> HIDE DEF outside, keyed, strays
<1>4. ~outside /\ ~keyed /\ ~strays BY <1>3, NoCode DEF three, four, five
<1>5. /\ r \in Relations /\ kinds = Kinds(r) /\ kinds # Unknown /\ kinds \in Seq(EntityKinds)
  BY <1>1, <1>3, SlotSound
<1>6. inside /\ ~KeyedWrong(n, entity, kinds) /\ Strays(n, kinds) = {}
  BY <1>4, <1>5 DEF outside, keyed, strays
<1>7. /\ IsDerived(r) => slots = Own(r)
      /\ ~IsDerived(r) => slots = <<n.current, n.related>>
  BY <1>1 DEF TraversedSlots
<1>8. PICK current, related \in Nat : slots = <<current, related>>
  <2>1. CASE IsDerived(r) BY <1>7, <2>1, OwnForm
  <2>2. CASE ~IsDerived(r)
    <3>1. n.current \in Nat /\ n.related \in Nat BY DEF NodeForm
    <3> QED BY <1>7, <2>2, <3>1
  <2> QED BY <2>1, <2>2
<1>9. current < Len(kinds) /\ related < Len(kinds) BY <1>6, <1>8 DEF InRange
<1>10. IdKind(entity) = At(kinds, current)
  <2>1. Fits(entity, At(kinds, slots[1])) BY <1>1, <1>6 DEF KeyedWrong
  <2> QED BY <1>1, <1>3, <1>5, <1>8, <1>9, <2>1, SlotSound
<1>11. ClauseKind(n) = At(kinds, related) BY <1>1, <1>6, <1>8 DEF ClauseKind
<1> QED BY <1>1, <1>3, <1>5, <1>6, <1>7, <1>8, <1>9, <1>10, <1>11

LEMMA AggregateRight ==
    ASSUME NEW S, Compiled(S), NEW n \in NodeForm(program), NEW entity, entity # NoKind,
           AggregateCodes(n, entity) = {}, IdKind(entity) = here.id,
           n.relation \in used, NEW citing, Met(n.body, ClauseKind(n), NoMember, citing, S),
           NEW g \in AggregateReads(n)
    PROVE  HereRight(S, g)
<1>0. Typing /\ OrderProofs!Inductive /\ pass = "accepted" /\ Accepted(S)
  BY DEF Compiled
<1>1. PICK r, slots, kinds, id :
          r = n.relation /\ slots = TraversedSlots(n) /\ kinds = Kinds(r) /\ id = here.id
  OBVIOUS
<1>2. PICK current \in Nat, related \in Nat :
          /\ SlotFaults(r) = {} /\ slots = <<current, related>>
          /\ current < Len(kinds) /\ related < Len(kinds)
          /\ IsDerived(r) => slots = Own(r)
          /\ id = At(kinds, current)
          /\ ClauseKind(n) = At(kinds, related)
          /\ Strays(n, kinds) = {}
  BY <1>0, <1>1, AggregateSlots
<1>3. PICK kind : kind = At(kinds, related) OBVIOUS
<1>4. /\ kind \in EntityKinds /\ IdKind(kind) = kind
      /\ \A e : Fits(e, kind) => IdKind(e) = kind
  BY <1>0, <1>1, <1>2, <1>3, SlotSound
<1>5. Gives(r, related) = kind
  <2>1. IsDerived(r) => related = Schema(r).related BY <1>2 DEF Own
  <2> QED BY <1>0, <1>1, <1>2, <1>3, <2>1, GivesKind
<1>6. \A x \in RelatedRules(n) \cap Rules : Entity(x) = SCALAR_ENTITY \/ IdKind(Entity(x)) = kind
  BY <1>1, <1>2, <1>3, <1>4 DEF Strays
<1>7. HereRight(S, LookUp(r, slots, id))
  <2>1. r \in used /\ current < Len(Kinds(r)) /\ related < Len(Kinds(r)) /\ id = At(Kinds(r), current)
    BY <1>1, <1>2
  <2> QED BY ONLY <1>2, <2>1, LookUpMade
<1>8. HereRight(S, Evaluating(n.body, kind, 0, NoKind, <<>>, 0))
  <2>1. PICK h : h = Evaluating(n.body, kind, 0, NoKind, <<>>, 0) OBVIOUS
  <2>2. h.what = "body" /\ h.body = n.body /\ h.id = kind /\ h.rule = 0
    BY <2>1 DEF Evaluating
  <2>3. n.body \in Bodies(program) /\ 0 \notin Rules BY NamesAssumption DEF NodeForm
  <2>4. \A x \in RulesRead(n.body) \cap Rules : Entity(x) = SCALAR_ENTITY \/ IdKind(Entity(x)) = kind
    BY <1>6 DEF RelatedRules
  <2>5. Met(h.body, kind, NoMember, citing, S) BY <1>2, <1>3, <2>2
  <2>6. RuleRight(S, h) BY <1>4, <2>1, <2>2, <2>3, <2>4, <2>5 DEF RuleRight
  <2> QED BY <2>1, <2>2, <2>6 DEF HereRight
<1>9. ASSUME n.value \in Rules, g \in RuleRead(n.value, kind) PROVE HereRight(S, g)
  <2>1. PICK x : x = n.value OBVIOUS
  <2>2. x \in RelatedRules(n) \cap Rules BY <1>9, <2>1, NamesAssumption DEF RelatedRules
  <2> QED BY <1>6, <1>9, <2>1, <2>2, RuleReadRight
<1>10. \/ g = LookUp(r, slots, id)
       \/ g = Evaluating(n.body, kind, 0, NoKind, <<>>, 0)
       \/ n.value \in Rules /\ g \in RuleRead(n.value, kind)
  BY <1>1, <1>2, <1>5 DEF AggregateReads
<1> QED BY <1>7, <1>8, <1>9, <1>10

(* A node of the body evaluated. *)
LEMMA NodeMet ==
    ASSUME NEW S, Compiled(S), NEW body \in Bodies(program), NEW i \in 1..Len(body),
           NEW entity, NEW member, NEW citing, Met(body, entity, member, citing, S)
    PROVE  LET n == program.nodes[body[i]]
           IN  /\ n \in NodeForm(program) /\ body[i] \in Elements(body)
               /\ body[i] \in 1..Len(program.nodes)
               /\ n.op \in {"aggregate", "only"} =>
                      /\ n.relation \in used /\ AggregateCodes(n, entity) = {}
                      /\ Met(n.body, ClauseKind(n), NoMember, citing, S)
               /\ n.op = "member" => n.relation \in used /\ MemberCodes(n, member) = {}
               /\ n.op \in {"atom", "exists"} =>
                      n.relation \in used /\ Met(n.body, entity, member, citing, S)
               /\ n.op \in {"rule", "unbound", "read", "same"} =>
                      Met(n.body, entity, NoMember, citing, S)
<1>1. PICK v : v = VisitOf(body[i], entity, member, citing) OBVIOUS
<1>2. /\ v \in S /\ v.node = body[i] /\ v.entity = entity /\ v.member = member /\ v.citing = citing
  BY <1>1 DEF Met, VisitOf
<1>3. Settled(v, S, used)
  <2>1. Elements(<<>>) = {} BY DEF Elements
  <2> QED BY <1>2, <2>1 DEF Compiled, Accepted, Walked
<1>4. body[i] \in 1..Len(program.nodes) /\ body[i] \in Elements(body)
  BY DEF Bodies, Elements
<1>5. program.nodes[body[i]] \in NodeForm(program)
  BY <1>4, NodeFacts DEF Compiled, Typing
<1> QED BY <1>2, <1>3, <1>4, <1>5 DEF Settled

LEMMA ScopeLost ==
    ASSUME NEW n, here.relation = 0, NEW g \in ReadsOf(n)
    PROVE  \/ n.op = "rule" /\ n.value \in Rules /\ g \in PlainRead(n.value)
           \/ n.op \in {"aggregate", "only"} /\ ~Strayed /\ g \in AggregateReads(n)
           \/ n.op = "unbound" /\ g = Into(n.body)
<1>1. ~InPredicate BY DEF InPredicate
<1> QED BY <1>1 DEF ReadsOf

LEMMA RuleBodyRight ==
    ASSUME NEW S, Compiled(S), here.what = "body", RuleRight(S, here),
           NEW i \in 1..Len(here.body), NEW g \in ReadsOf(program.nodes[here.body[i]])
    PROVE  HereRight(S, g)
<1>0. Typing /\ OrderProofs!Inductive /\ pass = "accepted" /\ Accepted(S) /\ ProgramForm(program)
  BY DEF Compiled, Typing
<1>1. PICK body, id, rule : body = here.body /\ id = here.id /\ rule = here.rule OBVIOUS
<1>2. here = Evaluating(body, id, 0, NoKind, <<>>, rule) /\ body \in Bodies(program)
  BY <1>1 DEF RuleRight
<1>3. here.relation = 0 BY <1>2 DEF Evaluating
<1>4. PICK citing, entity :
          /\ entity \in EntityKinds /\ Met(body, entity, NoMember, citing, S)
          /\ rule \in Rules => entity = Entity(rule)
          /\ rule \notin Rules =>
                 /\ rule = 0 /\ id = entity /\ IdKind(entity) = entity
                 /\ \A x \in RulesRead(body) \cap Rules :
                        Entity(x) = SCALAR_ENTITY \/ IdKind(Entity(x)) = entity
  BY <1>1 DEF RuleRight
<1>5. PICK n : n = program.nodes[body[i]] OBVIOUS
<1>6. /\ n \in NodeForm(program) /\ n.body \in Bodies(program)
      /\ n.op \in {"aggregate", "only"} =>
             /\ n.relation \in used /\ AggregateCodes(n, entity) = {}
             /\ Met(n.body, ClauseKind(n), NoMember, citing, S)
      /\ n.op = "unbound" => Met(n.body, entity, NoMember, citing, S)
  BY <1>1, <1>2, <1>4, <1>5, NodeMet DEF NodeForm
<1>7. /\ n.op = "rule" => n.value \in RulesRead(body)
      /\ n.op = "unbound" => RulesRead(n.body) \subseteq RulesRead(body)
  <2>1. body[i] \in Elements(body) BY <1>1 DEF Elements
  <2> QED BY <1>0, <1>2, <1>5, <2>1, RulesReadWithin
<1>8. 0 \notin Rules BY NamesAssumption
<1>9. CASE n.op = "rule" /\ n.value \in Rules /\ g \in PlainRead(n.value)
  <2>1. CASE rule \in Rules
    <3>1. g = RunRule(n.value, id) BY <1>1, <1>8, <1>9, <2>1 DEF PlainRead
    <3> QED BY <1>9, <3>1, RunRuleRight
  <2>2. CASE rule \notin Rules
    <3>1. g \in RuleRead(n.value, id)
      BY <1>1, <1>3, <1>4, <1>9, <2>2 DEF PlainRead, RoutedId
    <3>2. Entity(n.value) = SCALAR_ENTITY \/ IdKind(Entity(n.value)) = id
      BY <1>4, <1>7, <1>9, <2>2
    <3> QED BY <1>9, <3>1, <3>2, RuleReadRight
  <2> QED BY <2>1, <2>2
<1>10. CASE n.op \in {"aggregate", "only"} /\ ~Strayed /\ g \in AggregateReads(n)
  <2>1. IdKind(entity) = here.id BY <1>1, <1>4, <1>8, <1>10 DEF Strayed
  <2>2. entity # NoKind BY <1>4, ProgramAssumption
  <2> QED BY <1>6, <1>10, <2>1, <2>2, AggregateRight
<1>11. CASE n.op = "unbound" /\ g = Into(n.body)
  <2>1. PICK inner : inner = n.body OBVIOUS
  <2>2. g = Evaluating(inner, id, 0, NoKind, <<>>, rule)
    BY <1>2, <1>11, <2>1 DEF Into, Evaluating
  <2>3. g.what = "body" /\ g.body = inner /\ g.id = id /\ g.rule = rule
    BY <2>2 DEF Evaluating
  <2>4. Met(inner, entity, NoMember, citing, S) /\ inner \in Bodies(program)
        /\ RulesRead(inner) \subseteq RulesRead(body)
    BY <1>6, <1>7, <1>11, <2>1
  <2>5. RuleRight(S, g)
    <3>1. g = Evaluating(g.body, g.id, 0, NoKind, <<>>, g.rule) /\ g.body \in Bodies(program)
      BY <2>2, <2>3, <2>4
    <3>2. /\ Met(g.body, entity, NoMember, citing, S) /\ entity \in EntityKinds
          /\ g.rule \in Rules => entity = Entity(g.rule)
          /\ g.rule \notin Rules =>
                 /\ g.rule = 0 /\ g.id = entity /\ IdKind(entity) = entity
                 /\ \A x \in RulesRead(g.body) \cap Rules :
                        Entity(x) = SCALAR_ENTITY \/ IdKind(Entity(x)) = entity
      BY <1>4, <2>3, <2>4
    <3> QED BY <3>1, <3>2 DEF RuleRight
  <2> QED BY <2>3, <2>5 DEF HereRight
<1> QED BY <1>1, <1>3, <1>5, <1>9, <1>10, <1>11, ScopeLost

(* Within a predicate: the ids it relates, and its bound variables. *)
Ground(r, bindings) ==
    /\ IsDerived(r) /\ SlotFaults(r) = {}
    /\ Schema(r).current < Len(Kinds(r)) /\ here.current = At(Kinds(r), Schema(r).current)
    /\ Schema(r).related < Len(Kinds(r)) /\ here.id = At(Kinds(r), Schema(r).related)
    /\ bindings \in Seq([relation : Nat, slot : Nat]) /\ Len(bindings) = Len(here.variables)
    /\ \A i \in 1..Len(bindings) : BoundRight(bindings[i], here.variables[i])

(* A kind that the ids of no other entity are taken for. *)
Plain(k) == k \in EntityKinds /\ k # NoKind /\ IdKind(k) = k /\ \A e : Fits(e, k) => IdKind(e) = k

LEMMA SlotPlain ==
    ASSUME Typing, NEW r, SlotFaults(r) = {}, NEW s \in Nat, s < Len(Kinds(r))
    PROVE  Plain(At(Kinds(r), s))
BY SlotSound DEF Plain

(* A term has the kind of the id it stands for. *)
LEMMA OwnKind ==
    ASSUME Typing, NEW r, IsDerived(r), NEW s \in Nat, At(Schema(r).own, s) # NoKind
    PROVE  Kinds(r) = Schema(r).own
<1>1. Schema(r).own # Unknown
  <2> SUFFICES ASSUME Schema(r).own = <<>> PROVE FALSE BY DEF Unknown
  <2>1. Len(<<>>) = 0 /\ ~(s < 0) OBVIOUS
  <2> QED BY <2>1 DEF At
<1>2. WrittenKinds(r) = Schema(r).own
  BY <1>1 DEF WrittenKinds, Declared, IsDerived, Derived
<1> QED BY <1>1, <1>2, WrittenAsRead

LEMMA TermRight ==
    ASSUME Typing, NEW r, NEW bindings, Ground(r, bindings), NEW t \in TermForm,
           TermFaults(r, t, bindings) = {}
    PROVE  TermId(t) = TermKind(r, t, bindings) /\ Plain(TermKind(r, t, bindings))
<1>1. /\ IsDerived(r) /\ SlotFaults(r) = {} /\ Schema(r).current \in Nat /\ Schema(r).related \in Nat
      /\ bindings \in Seq([relation : Nat, slot : Nat]) /\ Len(bindings) = Len(here.variables)
      /\ Len(bindings) \in Nat
  BY OwnForm DEF Ground
<1>2. InScope(t, bindings) /\ (t \in {Anchor, Candidate} => TermKind(r, t, bindings) # NoKind)
  <2> DEFINE bare == t \in {Anchor, Candidate} /\ TermKind(r, t, bindings) = NoKind
  <2>1. TermFaults(r, t, bindings) =
            Fault(Code("relation_variable_out_of_scope", ~InScope(t, bindings)) \cup
                  Code("relation_roles_need_slot_kinds", bare), r, r)
    BY DEF TermFaults
  <2> HIDE DEF bare
  <2>2. Code("relation_variable_out_of_scope", ~InScope(t, bindings)) = {}
        /\ Code("relation_roles_need_slot_kinds", bare) = {}
    BY <2>1, NoFault, NoFaults
  <2>3. InScope(t, bindings) /\ ~bare BY <2>2, NoCode
  <2> QED BY <2>3 DEF bare
<1>3. CASE t = Anchor
  <2>1. TermKind(r, t, bindings) = At(Schema(r).own, Schema(r).current) /\ TermId(t) = here.current
    BY <1>3 DEF TermKind, TermId, Anchor, Candidate
  <2>2. Kinds(r) = Schema(r).own BY <1>1, <1>2, <1>3, <2>1, OwnKind
  <2>3. Plain(At(Kinds(r), Schema(r).current)) BY <1>1, SlotPlain DEF Ground
  <2> QED BY <2>1, <2>2, <2>3 DEF Ground
<1>4. CASE t = Candidate
  <2>1. TermKind(r, t, bindings) = At(Schema(r).own, Schema(r).related) /\ TermId(t) = here.id
    BY <1>4 DEF TermKind, TermId, Anchor, Candidate
  <2>2. Kinds(r) = Schema(r).own BY <1>1, <1>2, <1>4, <2>1, OwnKind
  <2>3. Plain(At(Kinds(r), Schema(r).related)) BY <1>1, SlotPlain DEF Ground
  <2> QED BY <2>1, <2>2, <2>3 DEF Ground
<1>5. CASE t \notin {Anchor, Candidate}
  <2>1. t \in Nat /\ t < Len(bindings) BY <1>2, <1>5 DEF TermForm, InScope
  <2>2. PICK i : i = Len(bindings) - t OBVIOUS
  <2>3. i \in 1..Len(bindings) /\ t \in 0..(Len(bindings) - 1) BY <1>1, <2>1, <2>2
  <2>4. PICK b : b = bindings[i] OBVIOUS
  <2>5. TermKind(r, t, bindings) = At(WrittenKinds(b.relation), b.slot)
    BY <1>5, <2>2, <2>3, <2>4 DEF TermKind
  <2>6. TermId(t) = here.variables[i] BY <1>1, <1>5, <2>2 DEF TermId
  <2>7. BoundRight(b, here.variables[i]) /\ b.slot \in Nat
    <3>1. PICK X : X = [relation : Nat, slot : Nat] OBVIOUS
    <3>2. bindings \in Seq(X) BY <1>1, <3>1
    <3>3. b \in X BY ONLY <2>3, <2>4, <3>2
    <3>4. b.slot \in Nat BY ONLY <3>1, <3>3
    <3> QED BY <2>3, <2>4, <3>4 DEF Ground
  <2>8. Kinds(b.relation) = WrittenKinds(b.relation)
    BY <2>7, WrittenAsRead DEF BoundRight
  <2>9. Plain(At(Kinds(b.relation), b.slot)) BY <2>7, SlotPlain DEF BoundRight
  <2> QED BY <2>5, <2>6, <2>7, <2>8, <2>9 DEF BoundRight
<1> QED BY <1>3, <1>4, <1>5

LEMMA FaultParts == \A a, b, r, citing : Fault(a \cup b, r, citing) = {} => a = {} /\ b = {}
BY DEF Fault

(* What passing says of an atom, its free term aside. *)
LEMMA AtomTerms ==
    ASSUME Typing, NEW r, NEW bindings, Ground(r, bindings), NEW n \in NodeForm(program),
           NEW free \in Int, AtomFaults(r, n, free, bindings) = {}
    PROVE  /\ SlotFaults(n.relation) = {} /\ WrittenKinds(n.relation) # Unknown
           /\ Len(n.terms) \in Nat /\ Len(n.terms) = Len(Kinds(n.relation))
           /\ \A i \in 1..Len(n.terms) : i - 1 # free =>
                  TermId(n.terms[i]) = At(Kinds(n.relation), i - 1)
<1> DEFINE to == n.relation
           terms == n.terms
           kinds == WrittenKinds(to)
<1>2. terms \in Seq(TermForm) /\ Len(terms) \in Nat BY DEF NodeForm
<1> DEFINE checked == {i \in 1..Len(terms) : i - 1 # free}
           one == UNION {TermFaults(r, terms[i], bindings) : i \in checked}
           two == Code("derived_relation_atom_arity_unsupported", IsDerived(to) /\ Schema(to).arity # 2)
           count == Len(terms) # Schema(to).arity
           three == Code("relation_atom_arity_mismatch", count)
           four == IF kinds = Unknown THEN {"relation_atom_needs_typed_relation"} ELSE SlotFaults(to)
           astray == \E i \in checked : /\ TermKind(r, terms[i], bindings) # NoKind
                                        /\ At(kinds, i - 1) \notin {NoKind, TermKind(r, terms[i], bindings)}
           five == Code("relation_atom_kind_mismatch", astray)
<1>3. /\ Declared(to)
      /\ AtomFaults(r, n, free, bindings) = one \cup Fault(two \cup three \cup four \cup five, to, r)
  <2>1. CASE ~Declared(to)
    <3>1. AtomFaults(r, n, free, bindings) = Fault({"unknown_relation"}, to, r)
      BY <2>1 DEF AtomFaults
    <3>2. {"unknown_relation"} = {} BY <3>1, NoFault
    <3> QED BY <3>2
  <2>2. CASE Declared(to) BY <2>2 DEF AtomFaults
  <2> QED BY <2>1, <2>2
<1> HIDE DEF to, terms, kinds, two, three, four, five
<1>4. one = {} /\ three = {} /\ four = {} /\ five = {}
  <2> HIDE DEF one
  <2>1. one = {} /\ Fault(two \cup three \cup four \cup five, to, r) = {}
    BY <1>3, NoFaults
  <2>2. two \cup three \cup four \cup five = {} BY <2>1, NoFault
  <2> QED BY <2>1, <2>2
<1>5. ~count /\ ~astray
  <2> HIDE DEF count, astray
  <2> QED BY <1>4, NoCode DEF three, five
<1>6. kinds # Unknown /\ SlotFaults(to) = {} BY <1>4 DEF four
<1>7. Kinds(to) = kinds /\ Len(Kinds(to)) = Schema(to).arity
  BY <1>6, WrittenAsRead, SlotSound DEF kinds
<1>8. ASSUME NEW i \in 1..Len(terms), i - 1 # free
      PROVE  TermId(terms[i]) = At(kinds, i - 1)
  <2>1. PICK t : t = terms[i] OBVIOUS
  <2>2. t \in TermForm BY <1>2, <2>1
  <2>3. i \in checked BY <1>8
  <2>4. TermFaults(r, t, bindings) = {} BY <1>4, <2>1, <2>3
  <2>5. TermId(t) = TermKind(r, t, bindings) /\ Plain(TermKind(r, t, bindings))
    BY <2>2, <2>4, TermRight
  <2>6. At(kinds, i - 1) \in {NoKind, TermKind(r, t, bindings)}
    BY <1>5, <2>1, <2>3, <2>5 DEF Plain
  <2>7. Plain(At(kinds, i - 1))
    <3>1. i - 1 \in Nat /\ i - 1 < Len(Kinds(to)) BY <1>2, <1>5, <1>7
    <3> QED BY <1>6, <1>7, <3>1, SlotPlain
  <2> QED BY <2>1, <2>5, <2>6, <2>7 DEF Plain
<1> QED BY <1>2, <1>5, <1>6, <1>7, <1>8 DEF to, terms, kinds

LEMMA AtomRight ==
    ASSUME NEW S, Compiled(S), NEW r, NEW bindings, Ground(r, bindings),
           NEW n \in NodeForm(program), n.relation \in used,
           NEW free \in Int, AtomFaults(r, n, free, bindings) = {},
           IsDerived(n.relation) => free # Schema(n.relation).current,
           NEW g \in AtomReads(n, free)
    PROVE  HereRight(S, g)
<1>0. Typing /\ OrderProofs!Inductive /\ pass = "accepted" /\ Accepted(S)
  BY DEF Compiled
<1>1. PICK to, terms, kinds : to = n.relation /\ terms = n.terms /\ kinds = Kinds(to)
  OBVIOUS
<1>2. /\ SlotFaults(to) = {} /\ Len(terms) \in Nat /\ Len(terms) = Len(kinds)
      /\ \A i \in 1..Len(terms) : i - 1 # free => TermId(terms[i]) = At(kinds, i - 1)
  <2>1. /\ SlotFaults(n.relation) = {}
        /\ Len(n.terms) \in Nat /\ Len(n.terms) = Len(Kinds(n.relation))
        /\ \A i \in 1..Len(n.terms) : i - 1 # free =>
               TermId(n.terms[i]) = At(Kinds(n.relation), i - 1)
    BY <1>0, AtomTerms
  <2> QED BY ONLY <1>1, <2>1
<1>3. to \in Relations BY <1>0, <1>2, SlotSound
<1> DEFINE given == {i \in 1..Len(terms) : i - 1 # free}
<1>4. CASE ~IsDerived(to)
  <2>1. g \in {Meet(TermId(terms[i]), At(Schema(to).kinds, i - 1)) : i \in given}
    BY <1>1, <1>4 DEF AtomReads
  <2>2. PICK i \in 1..Len(terms) : i - 1 # free /\ g = Meet(TermId(terms[i]), At(Schema(to).kinds, i - 1))
    BY <2>1
  <2>3. Schema(to).kinds = kinds BY <1>0, <1>1, <1>3, <1>4, DataKinds
  <2>4. g = Meet(At(kinds, i - 1), At(kinds, i - 1)) BY <1>2, <2>2, <2>3
  <2> QED BY <2>4, MeetRight
<1>5. CASE IsDerived(to)
  <2>1. PICK current, related : current = Schema(to).current /\ related = Schema(to).related
    OBVIOUS
  <2>2. current \in Nat /\ related \in Nat /\ Own(to) = <<current, related>>
    BY <1>0, <1>5, <2>1, OwnForm
  <2>3. free # current BY <1>1, <1>5, <2>1
  <2>4. /\ current < Len(terms) /\ related < Len(terms)
        /\ \/ g = LookUp(to, <<current, related>>, TermId(terms[current + 1]))
           \/ related + 1 \in given /\ g = Meet(TermId(terms[related + 1]), Gives(to, related))
    <3>1. InRange(terms, Own(to)) = (current < Len(terms) /\ related < Len(terms))
      BY <2>2 DEF InRange
    <3>2. CASE ~InRange(terms, Own(to)) BY <1>1, <1>5, <3>2 DEF AtomReads
    <3>3. CASE InRange(terms, Own(to))
      <4>1. g \in {LookUp(to, <<current, related>>, TermId(terms[current + 1]))} \cup
                  {Meet(TermId(terms[i]), Gives(to, related)) : i \in given \cap {related + 1}}
        BY <1>1, <1>5, <2>2, <3>3 DEF AtomReads
      <4> QED BY <3>1, <3>3, <4>1
    <3> QED BY <3>2, <3>3
  <2>5. CASE g = LookUp(to, <<current, related>>, TermId(terms[current + 1]))
    <3>1. current + 1 \in 1..Len(terms) /\ current + 1 - 1 = current BY <1>2, <2>2, <2>4
    <3>2. TermId(terms[current + 1]) = At(kinds, current)
      <4>1. PICK i : i = current + 1 OBVIOUS
      <4>2. i \in 1..Len(terms) /\ i - 1 = current BY <2>2, <3>1, <4>1
      <4> QED BY <1>2, <2>3, <3>1, <4>1, <4>2
    <3>3. PICK slots, id : slots = <<current, related>> /\ id = TermId(terms[current + 1])
      OBVIOUS
    <3>4. /\ to \in used /\ current < Len(Kinds(to)) /\ related < Len(Kinds(to))
          /\ (IsDerived(to) => slots = Own(to)) /\ id = At(Kinds(to), current)
      BY <1>1, <1>2, <2>2, <2>4, <3>2, <3>3
    <3>5. HereRight(S, LookUp(to, slots, id)) BY ONLY <1>2, <2>2, <3>3, <3>4, LookUpMade
    <3> QED BY <2>5, <3>3, <3>5
  <2>6. CASE related + 1 \in given /\ g = Meet(TermId(terms[related + 1]), Gives(to, related))
    <3>1. related + 1 \in 1..Len(terms) /\ related + 1 - 1 = related /\ related # free
      BY <2>2, <2>6
    <3>2. TermId(terms[related + 1]) = At(kinds, related)
      <4>1. PICK i : i = related + 1 OBVIOUS
      <4>2. i \in 1..Len(terms) /\ i - 1 = related BY <2>2, <3>1, <4>1
      <4> QED BY <1>2, <3>1, <4>1, <4>2
    <3>3. Gives(to, related) = At(kinds, related)
      <4>1. to \in used /\ related < Len(Kinds(to)) /\ (IsDerived(to) => related = Schema(to).related)
        BY <1>1, <1>2, <2>1, <2>4
      <4> QED BY <1>0, <1>1, <1>2, <2>2, <4>1, GivesKind
    <3> QED BY <2>6, <3>2, <3>3, MeetRight
  <2> QED BY <2>4, <2>5, <2>6
<1> QED BY <1>4, <1>5

(* A body evaluated within a predicate. *)
LEMMA PredicateGround ==
    ASSUME NEW S, PredicateRight(S, here), NEW bindings, TermsRight(here, bindings)
    PROVE  Ground(here.relation, bindings)
BY DEF PredicateRight, TermsRight, Ground

LEMMA PredicateForm ==
    ASSUME NEW S, PredicateRight(S, here)
    PROVE  \E body \in Bodies(program), r \in used, variables \in Seq(EntityKinds) : \E id, current :
               /\ here = Evaluating(body, id, r, current, variables, 0) /\ r # 0
               /\ here.body = body /\ here.id = id /\ here.relation = r /\ here.current = current
               /\ here.variables = variables /\ here.rule = 0
               /\ IsDerived(r) /\ SlotFaults(r) = {}
               /\ Schema(r).current < Len(Kinds(r)) /\ current = At(Kinds(r), Schema(r).current)
               /\ Schema(r).related < Len(Kinds(r)) /\ id = At(Kinds(r), Schema(r).related)
               /\ Met(body, id, Bound(current, id), r, S)
               /\ RulesRead(body) \subseteq RulesRead(Schema(r).predicate)
<1>1. PICK body, id, r, current, variables :
          /\ body = here.body /\ id = here.id /\ r = here.relation /\ current = here.current
          /\ variables = here.variables
  OBVIOUS
<1>2. here = Evaluating(body, id, r, current, variables, 0) BY <1>1 DEF PredicateRight
<1>3. here.rule = 0 BY <1>2 DEF Evaluating
<1>4. /\ body \in Bodies(program) /\ r \in used /\ variables \in Seq(EntityKinds)
      /\ IsDerived(r) /\ SlotFaults(r) = {} /\ r # 0
      /\ Schema(r).current < Len(Kinds(r)) /\ current = At(Kinds(r), Schema(r).current)
      /\ Schema(r).related < Len(Kinds(r)) /\ id = At(Kinds(r), Schema(r).related)
      /\ Met(body, id, Bound(current, id), r, S)
      /\ RulesRead(body) \subseteq RulesRead(Schema(r).predicate)
  BY <1>1 DEF PredicateRight
<1> QED BY <1>1, <1>2, <1>3, <1>4

(* A rule is read on the id it is routed to. *)
LEMMA RoutedRight ==
    ASSUME NEW S, Compiled(S), PredicateRight(S, here),
           NEW x \in RulesRead(here.body) \cap Rules, NEW g \in PlainRead(x)
    PROVE  HereRight(S, g)
<1>0. Typing /\ OrderProofs!Inductive /\ pass = "accepted" /\ Accepted(S)
  BY DEF Compiled
<1>1. PICK r, id, current :
          /\ r = here.relation /\ id = here.id /\ current = here.current /\ here.rule = 0 /\ r # 0
          /\ r \in used /\ IsDerived(r) /\ SlotFaults(r) = {}
          /\ Schema(r).current < Len(Kinds(r)) /\ current = At(Kinds(r), Schema(r).current)
          /\ Schema(r).related < Len(Kinds(r)) /\ id = At(Kinds(r), Schema(r).related)
          /\ RulesRead(here.body) \subseteq RulesRead(Schema(r).predicate)
  BY PredicateForm
<1>2. /\ Schema(r).current \in Nat /\ Schema(r).related \in Nat BY <1>0, <1>1, OwnForm
<1>3. Plain(current) /\ Plain(id) BY <1>0, <1>1, <1>2, SlotPlain
<1>4. PICK e : e = Entity(x) OBVIOUS
<1>5. e \in EntityKinds /\ e # NoKind
  BY <1>0, <1>4, RuleForms, ProgramAssumption DEF Typing, Entity
<1>6. g \in RuleRead(x, RoutedId(e)) BY <1>1, <1>4 DEF PlainRead
<1>7. e = SCALAR_ENTITY \/ IdKind(e) = RoutedId(e)
  <2>1. CASE RoutesToCurrent(r, e)
    <3>1. At(Schema(r).own, Schema(r).current) = e BY <2>1 DEF RoutesToCurrent
    <3>2. Kinds(r) = Schema(r).own BY <1>0, <1>1, <1>2, <1>5, <3>1, OwnKind
    <3>3. current = e BY <1>1, <3>1, <3>2
    <3>4. RoutedId(e) = current BY <1>1, <2>1 DEF RoutedId
    <3> QED BY <1>3, <3>3, <3>4 DEF Plain
  <2>2. CASE ~RoutesToCurrent(r, e)
    <3>1. RoutedId(e) = id BY <1>1, <2>2 DEF RoutedId
    <3>2. CASE At(Schema(r).own, Schema(r).related) = e
      <4>1. Kinds(r) = Schema(r).own BY <1>0, <1>1, <1>2, <1>5, <3>2, OwnKind
      <4>2. id = e BY <1>1, <3>2, <4>1
      <4> QED BY <1>3, <3>1, <4>2 DEF Plain
    <3>3. CASE At(Schema(r).own, Schema(r).related) # e /\ e # SCALAR_ENTITY
      <4>1. PredicateStrays(r) = {} BY <1>0, <1>1, DerivationSound DEF SettledDerivation
      <4>2. x \in RulesRead(Schema(r).predicate) \cap Rules BY <1>1
      <4>3. Fits(e, id)
        BY <1>1, <1>3, <1>4, <2>2, <3>3, <4>1, <4>2 DEF PredicateStrays, Plain
      <4> QED BY <1>3, <3>1, <4>3 DEF Plain
    <3> QED BY <3>2, <3>3
  <2> QED BY <2>1, <2>2
<1> QED BY <1>4, <1>6, <1>7, RuleReadRight

(* A membership test. *)
LEMMA MemberRight ==
    ASSUME NEW S, Compiled(S), NEW n \in NodeForm(program), n.relation \in used,
           here.current # NoKind, here.id # NoKind,
           MemberCodes(n, Bound(here.current, here.id)) = {}, NEW g \in MemberReads(n)
    PROVE  HereRight(S, g)
<1>0. Typing /\ OrderProofs!Inductive /\ pass = "accepted" /\ Accepted(S)
  BY DEF Compiled
<1>1. PICK r, kinds, current, related, member :
          /\ r = n.relation /\ kinds = TypedSlots(r) /\ current = n.current /\ related = n.related
          /\ member = Bound(here.current, here.id)
  OBVIOUS
<1>2. current \in Nat /\ related \in Nat BY <1>1 DEF NodeForm
<1> DEFINE turned == kinds # Unknown /\ Diverges(r, <<current, related>>)
           two == Code("derived_relation_slots_diverge", turned)
           outside == kinds # Unknown /\ ~InRange(kinds, <<current, related>>)
           three == Code("relation_slot_out_of_range", outside)
           inside == kinds # Unknown /\ InRange(kinds, <<current, related>>)
           astray == inside /\ member.bound /\
                         \/ member.current # NoKind /\ At(kinds, current) # member.current
                         \/ member.related # NoKind /\ At(kinds, related) # member.related
           four == Code("relation_membership_slot_entity_mismatch", astray)
<1>3. MemberCodes(n, member) = SlotFaults(r) \cup two \cup three \cup four
  BY <1>1 DEF MemberCodes
<1>4. SlotFaults(r) = {} /\ ~turned /\ ~outside /\ ~astray
  <2> HIDE DEF turned, outside, astray
  <2>1. SlotFaults(r) = {} /\ two = {} /\ three = {} /\ four = {}
    <3> HIDE DEF two, three, four
    <3> QED BY <1>1, <1>3
  <2> QED BY <2>1, NoCode
<1>5. kinds = Kinds(r) /\ kinds # Unknown BY <1>0, <1>1, <1>4, SlotSound
<1>6. /\ current < Len(kinds) /\ related < Len(kinds)
      /\ (IsDerived(r) => <<current, related>> = Own(r))
  BY <1>4, <1>5 DEF InRange, Diverges
<1>7. here.current = At(kinds, current) /\ here.id = At(kinds, related)
  <2>1. member.bound /\ member.current = here.current /\ member.related = here.id
    BY <1>1 DEF Bound
  <2> QED BY <1>4, <1>5, <2>1
<1>8. g = LookUp(r, <<current, related>>, here.current) \/ g = Meet(here.id, Gives(r, related))
  BY <1>1 DEF MemberReads
<1>9. HereRight(S, LookUp(r, <<current, related>>, here.current))
  <2>1. PICK slots, id : slots = <<current, related>> /\ id = here.current OBVIOUS
  <2>2. /\ r \in used /\ current < Len(Kinds(r)) /\ related < Len(Kinds(r))
        /\ (IsDerived(r) => slots = Own(r)) /\ id = At(Kinds(r), current)
    BY <1>1, <1>5, <1>6, <1>7, <2>1
  <2>3. HereRight(S, LookUp(r, slots, id)) BY ONLY <1>2, <1>4, <2>1, <2>2, LookUpMade
  <2> QED BY <2>1, <2>3
<1>10. Gives(r, related) = here.id
  <2>1. IsDerived(r) => related = Schema(r).related BY <1>6 DEF Own
  <2> QED BY <1>0, <1>1, <1>2, <1>4, <1>5, <1>6, <1>7, <2>1, GivesKind
<1> QED BY <1>8, <1>9, <1>10, MeetRight

LEMMA BindingsJoin ==
    ASSUME NEW X, NEW s \in Seq(X), NEW t \in Seq(X), NEW x \in X
    PROVE  /\ s \o (<<x>> \o t) = Append(s, x) \o t
           /\ s \o <<>> = s
           /\ Append(s, x) \in Seq(X) /\ Len(Append(s, x)) = Len(s) + 1
           /\ \A i \in 1..Len(s) : Append(s, x)[i] = s[i]
           /\ Append(s, x)[Len(s) + 1] = x
<1>1. s \o <<>> = s OBVIOUS
<1>2. Append(s, x) \in Seq(X) /\ Len(Append(s, x)) = Len(s) + 1 OBVIOUS
<1>3. \A i \in 1..Len(s) : Append(s, x)[i] = s[i] OBVIOUS
<1>4. Append(s, x)[Len(s) + 1] = x OBVIOUS
<1>5. s \o (<<x>> \o t) = Append(s, x) \o t
  <2>1. PICK a, b, u : a = s \o u /\ u = <<x>> \o t /\ b = Append(s, x) \o t OBVIOUS
  <2>2. u \in Seq(X) /\ Len(u) = 1 + Len(t) /\ u[1] = x /\ \A j \in 1..Len(t) : u[j + 1] = t[j]
    BY <2>1
  <2>3. /\ a \in Seq(X) /\ Len(a) = Len(s) + Len(u)
        /\ \A j \in 1..Len(a) : a[j] = IF j <= Len(s) THEN s[j] ELSE u[j - Len(s)]
    BY <2>1, <2>2
  <2>4. /\ b \in Seq(X) /\ Len(b) = Len(s) + 1 + Len(t)
        /\ \A j \in 1..Len(b) : b[j] = IF j <= Len(s) + 1 THEN Append(s, x)[j] ELSE t[j - (Len(s) + 1)]
    BY <1>2, <2>1
  <2>5. Len(a) = Len(b) /\ Len(s) \in Nat /\ Len(t) \in Nat BY <2>2, <2>3, <2>4
  <2>6. ASSUME NEW j \in 1..Len(a) PROVE a[j] = b[j]
    <3>1. CASE j <= Len(s)
      <4>1. j \in 1..Len(s) /\ j \in 1..Len(b) /\ j <= Len(s) + 1
        BY <2>2, <2>3, <2>5, <3>1
      <4>2. a[j] = s[j] BY <2>3, <3>1
      <4>3. b[j] = Append(s, x)[j] BY ONLY <2>4, <4>1
      <4> QED BY <1>3, <4>1, <4>2, <4>3
    <3>2. CASE j = Len(s) + 1 BY <1>4, <2>2, <2>3, <2>4, <2>5, <3>2
    <3>3. CASE j > Len(s) + 1
      <4>1. PICK m : m = j - (Len(s) + 1) OBVIOUS
      <4>2. m \in 1..Len(t) /\ m + 1 = j - Len(s) BY <2>2, <2>3, <2>5, <3>3, <4>1
      <4>3. a[j] = u[m + 1] /\ b[j] = t[m] BY <2>3, <2>4, <2>5, <3>3, <4>1, <4>2
      <4> QED BY <2>2, <4>2, <4>3
    <3> QED BY <2>5, <3>1, <3>2, <3>3
  <2>7. a = b
    <3>1. PICK N : N = Len(a) OBVIOUS
    <3>2. a \in [1..N -> X] BY ONLY <2>3, <3>1
    <3>3. b \in [1..N -> X] BY ONLY <2>4, <2>5, <3>1
    <3> QED BY ONLY <2>6, <3>1, <3>2, <3>3
  <2> QED BY <2>1, <2>7
<1> QED BY <1>1, <1>2, <1>3, <1>4, <1>5

(* A use of terms is checked with the generators around it. *)
LEMMA UseRight ==
    ASSUME Typing, NEW bindings, TermsRight(here, bindings), here.body \in Bodies(program),
           NEW k \in Elements(here.body), program.nodes[k].op \in TermOps
    PROVE  UseFaults(here.relation,
                     [node |-> program.nodes[k], clause |-> 0, bindings |-> bindings]) = {}
<1>1. PICK use : use = [node |-> program.nodes[k], clause |-> 0, bindings |-> <<>>]
  OBVIOUS
<1>2. use \in TermUses(here.body) BY <1>1, TermUsesWithin DEF Typing
<1>3. bindings \o <<>> = bindings BY DEF TermsRight
<1>4. Below(use, bindings) = [node |-> program.nodes[k], clause |-> 0, bindings |-> bindings]
  BY <1>1, <1>3 DEF Below
<1>5. UseFaults(here.relation, Below(use, bindings)) = {} BY <1>2 DEF TermsRight
<1> QED BY <1>4, <1>5

(* An `exists` binds a variable to an id of its slot. *)
LEMMA ExistsTerms ==
    ASSUME NEW r, NEW n, NEW bindings, ExistsFaults(r, n, bindings) = {}
    PROVE  /\ ~(n.slot >= Len(n.terms))
           /\ IsDerived(n.relation) => n.slot = Schema(n.relation).related
           /\ AtomFaults(r, n, n.slot, bindings) = {}
<1> DEFINE count == n.slot >= Len(n.terms) \/ At(n.terms, n.slot) # 0
           one == Code("relation_exists_variable_count", count)
           inverse == IsDerived(n.relation) /\ n.slot # Schema(n.relation).related
           two == Code("inverse_derived_traversal_unsupported", inverse)
           three == Fault(Code("relation_roles_need_slot_kinds", Schema(r).own = Unknown), r, r)
<1>1. ExistsFaults(r, n, bindings) =
          Fault(one \cup two, n.relation, r) \cup three \cup AtomFaults(r, n, n.slot, bindings)
  BY DEF ExistsFaults
<1> HIDE DEF count, one, inverse, two, three
<1>2. Fault(one \cup two, n.relation, r) = {} /\ AtomFaults(r, n, n.slot, bindings) = {}
  BY <1>1, NoFaults
<1>3. one = {} /\ two = {} BY <1>2, FaultParts
<1>4. ~count /\ ~inverse BY <1>3, NoCode DEF one, two
<1> QED BY <1>2, <1>4 DEF count, inverse

LEMMA TermsBelow ==
    ASSUME Typing, NEW bindings, TermsRight(here, bindings), here.body \in Bodies(program),
           NEW k \in Elements(here.body), NEW n, n = program.nodes[k], n \in NodeForm(program),
           n.op = "exists", NEW b, b = [relation |-> n.relation, slot |-> n.slot]
    PROVE  \A use \in TermUses(n.body) :
               UseFaults(here.relation, Below(use, Append(bindings, b))) = {}
<1> TAKE use \in TermUses(n.body)
<1>1. PICK X : X = [relation : Nat, slot : Nat] OBVIOUS
<1>2. b \in X /\ n.body \in Bodies(program) BY <1>1 DEF NodeForm
<1>3. bindings \in Seq(X) BY <1>1 DEF TermsRight
<1>4. use.bindings \in Seq(X)
  <2>1. use \in TermUseForm BY <1>2, TermUsesForm DEF Typing
  <2> QED BY <1>1, <2>1 DEF TermUseForm
<1>5. Around(n, use) \in TermUses(here.body) BY TermUsesWithin DEF Typing
<1>6. PICK inner, s : inner = use.bindings /\ s = Append(bindings, b) OBVIOUS
<1>7. bindings \o (<<b>> \o inner) = s \o inner
  <2>1. inner \in Seq(X) /\ b \in X /\ bindings \in Seq(X) BY <1>2, <1>3, <1>4, <1>6
  <2>2. bindings \o (<<b>> \o inner) = Append(bindings, b) \o inner
    BY ONLY <2>1, BindingsJoin
  <2> QED BY <1>6, <2>2
<1>8. Around(n, use) = [node |-> use.node, clause |-> use.clause, bindings |-> <<b>> \o inner]
  BY <1>6 DEF Around
<1>9. Below(Around(n, use), bindings) = Below(use, s)
  <2>1. PICK outer : outer = Around(n, use) OBVIOUS
  <2>2. outer.node = use.node /\ outer.clause = use.clause /\ outer.bindings = <<b>> \o inner
    BY <1>8, <2>1
  <2> QED BY <1>6, <1>7, <2>1, <2>2 DEF Below
<1>10. UseFaults(here.relation, Below(Around(n, use), bindings)) = {}
  BY <1>5 DEF TermsRight
<1> QED BY <1>6, <1>9, <1>10

LEMMA ExistsRight ==
    ASSUME NEW S, Compiled(S), PredicateRight(S, here), NEW bindings, TermsRight(here, bindings),
           NEW k \in Elements(here.body), NEW n, n = program.nodes[k], n \in NodeForm(program),
           n.op = "exists", n.relation \in used,
           Met(n.body, here.id, Bound(here.current, here.id), here.relation, S),
           NEW g \in ExistsReads(n)
    PROVE  HereRight(S, g)
<1>0. Typing /\ OrderProofs!Inductive /\ pass = "accepted" /\ Accepted(S) /\ ProgramForm(program)
  BY DEF Compiled, Typing
<1>1. PICK body, id, r, current, variables :
          /\ body \in Bodies(program) /\ variables \in Seq(EntityKinds)
          /\ here = Evaluating(body, id, r, current, variables, 0) /\ r # 0
          /\ here.body = body /\ here.id = id /\ here.relation = r /\ here.current = current
          /\ here.variables = variables
          /\ r \in used /\ IsDerived(r) /\ SlotFaults(r) = {}
          /\ Schema(r).current < Len(Kinds(r)) /\ current = At(Kinds(r), Schema(r).current)
          /\ Schema(r).related < Len(Kinds(r)) /\ id = At(Kinds(r), Schema(r).related)
          /\ Met(body, id, Bound(current, id), r, S)
          /\ RulesRead(body) \subseteq RulesRead(Schema(r).predicate)
  BY PredicateForm
<1>2. PICK use : use = [node |-> n, clause |-> 0, bindings |-> bindings] OBVIOUS
<1>3. ExistsFaults(r, n, bindings) = {}
  <2>1. UseFaults(r, use) = {}
    <3>1. program.nodes[k].op \in TermOps BY DEF TermOps
    <3> QED BY <1>0, <1>1, <1>2, <3>1, UseRight
  <2>2. use.node = n /\ use.clause = 0 /\ use.bindings = bindings BY <1>2
  <2> QED BY <2>1, <2>2 DEF UseFaults
<1>4. /\ ~(n.slot >= Len(n.terms))
      /\ IsDerived(n.relation) => n.slot = Schema(n.relation).related
      /\ AtomFaults(r, n, n.slot, bindings) = {}
  BY <1>3, ExistsTerms
<1>5. Ground(r, bindings) BY <1>1, PredicateGround
<1>6. PICK to, slot : to = n.relation /\ slot = n.slot OBVIOUS
<1>7. slot \in Nat /\ slot \in Int /\ to \in Nat /\ n.body \in Bodies(program)
  BY <1>6 DEF NodeForm
<1>8. /\ SlotFaults(to) = {} /\ WrittenKinds(to) # Unknown
      /\ Len(n.terms) \in Nat /\ Len(n.terms) = Len(Kinds(to))
  BY <1>0, <1>4, <1>5, <1>6, <1>7, AtomTerms
<1>9. slot < Len(Kinds(to)) BY <1>4, <1>6, <1>7, <1>8
<1>10. ASSUME g \in AtomReads(n, slot) PROVE HereRight(S, g)
  <2>1. IsDerived(n.relation) => slot # Schema(n.relation).current
    BY <1>0, <1>4, <1>6, OwnForm
  <2> QED BY <1>4, <1>5, <1>6, <1>7, <1>10, <2>1, AtomRight
<1>11. PICK kind : kind = At(Kinds(to), slot) OBVIOUS
<1>12. Gives(to, slot) = kind BY <1>0, <1>4, <1>6, <1>7, <1>8, <1>9, <1>11, GivesKind
<1>13. kind \in EntityKinds BY <1>0, <1>7, <1>8, <1>9, <1>11, SlotPlain DEF Plain
<1>14. PICK inner, more : inner = n.body /\ more = Append(variables, kind) OBVIOUS
<1>15. ASSUME g = Evaluating(inner, id, r, current, more, 0) PROVE HereRight(S, g)
  <2>1. /\ g.what = "body" /\ g.body = inner /\ g.id = id /\ g.relation = r /\ g.current = current
        /\ g.variables = more
    BY <1>15 DEF Evaluating
  <2>2. PICK b, longer : b = [relation |-> to, slot |-> slot] /\ longer = Append(bindings, b)
    OBVIOUS
  <2>3. BoundRight(b, kind) BY <1>8, <1>9, <1>11, <2>2 DEF BoundRight
  <2>4. PICK X : X = [relation : Nat, slot : Nat] OBVIOUS
  <2>5. b \in X /\ bindings \in Seq(X) /\ Len(bindings) = Len(variables)
    BY <1>1, <1>7, <2>2, <2>4 DEF TermsRight
  <2>6. /\ longer \in Seq(X) /\ Len(longer) = Len(bindings) + 1
        /\ \A i \in 1..Len(bindings) : longer[i] = bindings[i]
        /\ longer[Len(bindings) + 1] = b
    <3>1. <<>> \in Seq(X) OBVIOUS
    <3> QED BY ONLY <2>2, <2>5, <3>1, BindingsJoin
  <2>7. /\ more \in Seq(EntityKinds) /\ Len(more) = Len(variables) + 1
        /\ \A i \in 1..Len(variables) : more[i] = variables[i]
        /\ more[Len(variables) + 1] = kind
    <3>1. <<>> \in Seq(EntityKinds) /\ variables \in Seq(EntityKinds) BY <1>1
    <3> QED BY ONLY <1>13, <1>14, <3>1, BindingsJoin
  <2>8. \A i \in 1..Len(longer) : BoundRight(longer[i], more[i])
    <3> TAKE i \in 1..Len(longer)
    <3>1. Len(bindings) \in Nat /\ (i \in 1..Len(bindings) \/ i = Len(bindings) + 1)
      BY <2>5, <2>6
    <3>2. CASE i \in 1..Len(bindings)
      <4>1. BoundRight(bindings[i], variables[i]) BY <1>1, <3>2 DEF TermsRight
      <4> QED BY <2>5, <2>6, <2>7, <3>2, <4>1
    <3>3. CASE i = Len(bindings) + 1 BY <2>3, <2>5, <2>6, <2>7, <3>3
    <3> QED BY <3>1, <3>2, <3>3
  <2>9. \A use_ \in TermUses(inner) : UseFaults(r, Below(use_, longer)) = {}
    <3>1. b = [relation |-> n.relation, slot |-> n.slot] BY <1>6, <2>2
    <3>2. \A use_ \in TermUses(n.body) :
              UseFaults(here.relation, Below(use_, Append(bindings, b))) = {}
      <4>1. /\ Typing /\ TermsRight(here, bindings) /\ here.body \in Bodies(program)
            /\ k \in Elements(here.body) /\ n = program.nodes[k] /\ n \in NodeForm(program)
            /\ n.op = "exists"
        BY <1>0, <1>1
      <4> QED BY ONLY <3>1, <4>1, TermsBelow
    <3> QED BY <1>1, <1>14, <2>2, <3>2
  <2>10. TermsRight(g, longer)
    BY <2>1, <2>4, <2>5, <2>6, <2>7, <2>8, <2>9 DEF TermsRight
  <2>11. RulesRead(inner) \subseteq RulesRead(Schema(r).predicate)
    <3>1. RulesRead(n.body) \subseteq RulesRead(body) BY <1>0, <1>1, RulesReadWithin
    <3> QED BY <1>1, <1>14, <3>1
  <2>12. Met(inner, id, Bound(current, id), r, S) BY <1>1, <1>14
  <2>13. PredicateRight(S, g)
    <3>1. g = Evaluating(g.body, g.id, g.relation, g.current, g.variables, 0)
      BY <1>15, <2>1
    <3> QED BY <1>1, <1>7, <1>14, <2>1, <2>7, <2>10, <2>11, <2>12, <3>1 DEF PredicateRight
  <2> QED BY <2>1, <2>13 DEF HereRight
<1>16. g \in AtomReads(n, slot) \/ g = Evaluating(inner, id, r, current, more, 0)
  <2>1. CASE g \in AtomReads(n, slot) BY <2>1
  <2>2. CASE g \notin AtomReads(n, slot)
    <3>1. g = [Into(n.body) EXCEPT !.variables = Append(@, Gives(n.relation, n.slot))]
      BY <1>6, <2>2 DEF ExistsReads
    <3>2. Into(n.body) = Evaluating(inner, id, r, current, variables, 0)
      BY <1>1, <1>14 DEF Into, Evaluating
    <3>3. g = [Into(n.body) EXCEPT !.variables = Append(@, kind)] BY <1>6, <1>12, <3>1
    <3>4. PICK outer : outer = Into(n.body) OBVIOUS
    <3>5. outer = Evaluating(inner, id, r, current, variables, 0) BY ONLY <3>2, <3>4
    <3>6. outer.variables = variables BY ONLY <3>5 DEF Evaluating
    <3>7. g = [outer EXCEPT !.variables = more] BY ONLY <1>14, <3>3, <3>4, <3>6
    <3>8. g = Evaluating(inner, id, r, current, more, 0)
      BY ONLY <3>5, <3>7 DEF Evaluating
    <3> QED BY <3>8
  <2> QED BY <2>1, <2>2
<1> QED BY <1>10, <1>15, <1>16

(* Two terms compared; and a rule read through a term. *)
LEMMA SameRight ==
    ASSUME NEW S, Typing, NEW r, NEW bindings, Ground(r, bindings),
           NEW n \in NodeForm(program), Len(n.terms) = 2, SameFaults(r, n, bindings) = {}
    PROVE  HereRight(S, Meet(TermId(n.terms[1]), TermId(n.terms[2])))
<1>1. PICK t, u : t = n.terms[1] /\ u = n.terms[2] OBVIOUS
<1>2. t \in TermForm /\ u \in TermForm
  <2>1. n.terms \in Seq(TermForm) BY DEF NodeForm
  <2> QED BY <1>1, <2>1
<1>3. PICK left, right : left = TermKind(r, t, bindings) /\ right = TermKind(r, u, bindings)
  OBVIOUS
<1> DEFINE unlike == left # NoKind /\ right # NoKind /\ left # right
           three == Fault(Code("relation_term_kind_mismatch", unlike), r, r)
<1>4. SameFaults(r, n, bindings) = TermFaults(r, t, bindings) \cup TermFaults(r, u, bindings) \cup three
  BY <1>1, <1>3 DEF SameFaults
<1> HIDE DEF three, unlike
<1>5. TermFaults(r, t, bindings) = {} /\ TermFaults(r, u, bindings) = {} /\ ~unlike
  <2>1. TermFaults(r, t, bindings) = {} /\ TermFaults(r, u, bindings) = {} /\ three = {}
    BY <1>4
  <2>2. Code("relation_term_kind_mismatch", unlike) = {} BY <2>1, NoFault DEF three
  <2> QED BY <2>1, <2>2, NoCode
<1>6. TermId(t) = left /\ left # NoKind /\ TermId(u) = right /\ right # NoKind
  BY <1>2, <1>3, <1>5, TermRight DEF Plain
<1>7. left = right BY <1>5, <1>6 DEF unlike
<1> QED BY <1>1, <1>6, <1>7, MeetRight

LEMMA ReadRight ==
    ASSUME NEW S, Compiled(S), NEW r, NEW bindings, Ground(r, bindings),
           NEW n \in NodeForm(program), Len(n.terms) = 1, ReadFaults(r, n, bindings) = {},
           n.value \in Rules, NEW g \in RuleRead(n.value, TermId(n.terms[1]))
    PROVE  HereRight(S, g)
<1>0. Typing BY DEF Compiled
<1>1. PICK t, x : t = n.terms[1] /\ x = n.value OBVIOUS
<1>2. t \in TermForm
  <2>1. n.terms \in Seq(TermForm) BY DEF NodeForm
  <2> QED BY <1>1, <2>1
<1>3. PICK kind : kind = TermKind(r, t, bindings) OBVIOUS
<1> DEFINE astray == kind # NoKind /\ x \in Rules /\ ~Fits(Entity(x), kind)
           two == Fault(Code("relation_role_entity_mismatch", astray), r, r)
<1>4. ReadFaults(r, n, bindings) = TermFaults(r, t, bindings) \cup two
  BY <1>1, <1>3 DEF ReadFaults
<1> HIDE DEF two, astray
<1>5. TermFaults(r, t, bindings) = {} /\ ~astray
  <2>1. TermFaults(r, t, bindings) = {} /\ two = {} BY <1>4
  <2>2. Code("relation_role_entity_mismatch", astray) = {} BY <2>1, NoFault DEF two
  <2> QED BY <2>1, <2>2, NoCode
<1>6. TermId(t) = kind /\ Plain(kind) BY <1>0, <1>2, <1>3, <1>5, TermRight
<1>7. IdKind(Entity(x)) = TermId(t) BY <1>1, <1>5, <1>6 DEF astray, Plain
<1> QED BY <1>1, <1>7, RuleReadRight

LEMMA ScopeKept ==
    ASSUME NEW n, here.relation # 0, NEW g \in ReadsOf(n)
    PROVE  \/ n.op = "rule" /\ n.value \in Rules /\ g \in PlainRead(n.value)
           \/ n.op \in {"aggregate", "only"} /\ g \in AggregateReads(n)
           \/ n.op = "member" /\ g \in MemberReads(n)
           \/ n.op = "atom" /\ g \in AtomReads(n, -1)
           \/ n.op = "exists" /\ g \in ExistsReads(n)
           \/ n.op = "same" /\ g = Meet(TermId(n.terms[1]), TermId(n.terms[2]))
           \/ n.op = "read" /\ n.value \in Rules /\ g \in RuleRead(n.value, TermId(n.terms[1]))
<1>1. InPredicate BY DEF InPredicate
<1> QED BY <1>1 DEF ReadsOf

LEMMA PredicateBodyRight ==
    ASSUME NEW S, Compiled(S), PredicateRight(S, here),
           NEW i \in 1..Len(here.body), NEW g \in ReadsOf(program.nodes[here.body[i]])
    PROVE  HereRight(S, g)
<1>0. Typing /\ OrderProofs!Inductive /\ pass = "accepted" /\ Accepted(S) /\ ProgramForm(program)
  BY DEF Compiled, Typing
<1>1. PICK body, id, r, current :
          /\ body \in Bodies(program)
          /\ here.body = body /\ here.id = id /\ here.relation = r /\ here.current = current /\ r # 0
          /\ r \in used /\ IsDerived(r) /\ SlotFaults(r) = {}
          /\ Schema(r).current < Len(Kinds(r)) /\ current = At(Kinds(r), Schema(r).current)
          /\ Schema(r).related < Len(Kinds(r)) /\ id = At(Kinds(r), Schema(r).related)
          /\ Met(body, id, Bound(current, id), r, S)
  BY PredicateForm
<1>2. PICK bindings : TermsRight(here, bindings) BY DEF PredicateRight
<1>3. Ground(r, bindings) BY <1>1, <1>2, PredicateGround
<1>4. Plain(current) /\ Plain(id)
  <2>1. Schema(r).current \in Nat /\ Schema(r).related \in Nat BY <1>0, <1>1, OwnForm
  <2> QED BY <1>0, <1>1, <2>1, SlotPlain
<1>5. PICK k, n : k = body[i] /\ n = program.nodes[k] OBVIOUS
<1>6. PICK member : member = Bound(current, id) OBVIOUS
<1>7. i \in 1..Len(body) /\ g \in ReadsOf(n) BY <1>1, <1>5
<1>8. /\ n \in NodeForm(program) /\ k \in Elements(body) /\ k \in 1..Len(program.nodes)
      /\ n.op \in {"aggregate", "only"} =>
             /\ n.relation \in used /\ AggregateCodes(n, id) = {}
             /\ Met(n.body, ClauseKind(n), NoMember, r, S)
      /\ n.op = "member" => n.relation \in used /\ MemberCodes(n, member) = {}
      /\ n.op \in {"atom", "exists"} => n.relation \in used /\ Met(n.body, id, member, r, S)
  <2>1. Compiled(S) /\ body \in Bodies(program) /\ i \in 1..Len(body) /\ Met(body, id, member, r, S)
    BY <1>1, <1>6, <1>7
  <2> QED BY ONLY <1>5, <2>1, NodeMet
<1>9. PICK use : use = [node |-> n, clause |-> 0, bindings |-> bindings] OBVIOUS
<1>10. n.op \in TermOps => UseFaults(r, use) = {}
  <2>1. k \in Elements(here.body) /\ here.body \in Bodies(program) BY <1>1, <1>8
  <2> QED BY <1>0, <1>1, <1>2, <1>5, <1>9, <2>1, UseRight
<1>11. use.node = n /\ use.clause = 0 /\ use.bindings = bindings BY <1>9
<1>12. CASE n.op = "rule" /\ n.value \in Rules /\ g \in PlainRead(n.value)
  <2>1. n.value \in RulesRead(here.body)
    BY <1>0, <1>1, <1>5, <1>8, <1>12, RulesReadWithin
  <2> QED BY <1>12, <2>1, RoutedRight
<1>13. CASE n.op \in {"aggregate", "only"} /\ g \in AggregateReads(n)
  <2>1. id # NoKind /\ IdKind(id) = here.id BY <1>1, <1>4 DEF Plain
  <2> QED BY <1>8, <1>13, <2>1, AggregateRight
<1>14. CASE n.op = "member" /\ g \in MemberReads(n)
  <2>1. here.current # NoKind /\ here.id # NoKind /\ member = Bound(here.current, here.id)
    BY <1>1, <1>4, <1>6 DEF Plain
  <2> QED BY <1>8, <1>14, <2>1, MemberRight
<1>15. CASE n.op = "atom" /\ g \in AtomReads(n, -1)
  <2>1. AtomFaults(r, n, -1, bindings) = {}
    BY <1>10, <1>11, <1>15 DEF UseFaults, TermOps
  <2>2. PICK free : free = -1 OBVIOUS
  <2>3. free \in Int /\ (IsDerived(n.relation) => free # Schema(n.relation).current)
    BY <1>0, <2>2, OwnForm
  <2> QED BY <1>3, <1>8, <1>15, <2>1, <2>2, <2>3, AtomRight
<1>16. CASE n.op = "exists" /\ g \in ExistsReads(n)
  <2>1. /\ k \in Elements(here.body) /\ n.relation \in used
        /\ Met(n.body, here.id, Bound(here.current, here.id), here.relation, S)
    BY <1>1, <1>6, <1>8, <1>16
  <2> QED BY <1>2, <1>5, <1>8, <1>16, <2>1, ExistsRight
<1>17. CASE n.op = "same" /\ g = Meet(TermId(n.terms[1]), TermId(n.terms[2]))
  <2>1. SameFaults(r, n, bindings) = {} BY <1>10, <1>11, <1>17 DEF UseFaults, TermOps
  <2>2. Len(n.terms) = 2 BY <1>0, <1>5, <1>8, <1>17 DEF ProgramForm
  <2> QED BY <1>0, <1>3, <1>8, <1>17, <2>1, <2>2, SameRight
<1>18. CASE n.op = "read" /\ n.value \in Rules /\ g \in RuleRead(n.value, TermId(n.terms[1]))
  <2>1. ReadFaults(r, n, bindings) = {} BY <1>10, <1>11, <1>18 DEF UseFaults, TermOps
  <2>2. Len(n.terms) = 1 BY <1>0, <1>5, <1>8, <1>18 DEF ProgramForm
  <2> QED BY <1>3, <1>8, <1>18, <2>1, <2>2, ReadRight
<1>19. here.relation # 0 BY <1>1
<1> QED BY <1>7, <1>12, <1>13, <1>14, <1>15, <1>16, <1>17, <1>18, <1>19, ScopeKept

(* Wherever evaluation has come to in an accepted program, the walk of the *)
(* check had been there. *)
Evaluates == phase = "accepted" => \E S : Accepted(S) /\ HereRight(S, here)

LEMMA EvaluatesCompiled ==
    ASSUME Forms, Ordering, Tables, phase = "accepted", NEW S, Accepted(S)
    PROVE  Compiled(S)
<1>1. phase \notin Lowered \cup {"kinds"} /\ phase \notin Lowered \cup {"kinds", "innermost"}
  BY DEF Lowered
<1>2. SlotKindsRight /\ FiltersRight /\ purpose = "typing" BY <1>1 DEF Tables
<1>3. OrderProofs!Inductive /\ pass = "accepted" BY <1>1 DEF Ordering
<1> QED BY <1>2, <1>3 DEF Compiled, Typing, Forms

LEMMA EvaluatesStays ==
    ASSUME Evaluates, UNCHANGED typing_vars,
           \A S : Accepted(S) /\ HereRight(S, here) => HereRight(S, here')
    PROVE  Evaluates'
<1>1. /\ UNCHANGED typing_tables /\ phase' = phase /\ used' = used /\ program' = program
  BY DEF typing_tables, typing_vars
<1> SUFFICES ASSUME phase' = "accepted" PROVE (\E S : Accepted(S) /\ HereRight(S, here))'
  BY DEF Evaluates
<1>2. PICK S : Accepted(S) /\ HereRight(S, here) BY <1>1 DEF Evaluates
<1>3. PICK h : h = here' OBVIOUS
<1>4. HereRight(S, h) BY <1>2, <1>3
<1>5. HereRight(S, h)' BY ONLY <1>1, <1>4, HereKept
<1>6. PICK left, U, queue : Walked(S, left, U, queue) /\ left = <<>> /\ U = used /\ queue = <<>>
  BY <1>2 DEF Accepted
<1>7. Walked(S, left, U, queue)' BY ONLY <1>1, <1>6, WalkedKept
<1>8. Walked(S, <<>>, used, <<>>)' BY <1>1, <1>6, <1>7 DEF Walked
<1>9. TermViolations' = {} BY <1>1, <1>2, TermsKept DEF Accepted
<1>10. Accepted(S)' BY <1>8, <1>9 DEF Accepted
<1>11. HereRight(S, here)'
  BY <1>3, <1>5 DEF HereRight, RuleRight, PredicateRight, LookUpRight
<1> QED BY <1>10, <1>11

LEMMA EvaluatesOn ==
    ASSUME Forms, Ordering, Tables, Evaluates, Evaluate
    PROVE  Evaluates'
<1>1. UNCHANGED typing_vars BY DEF Evaluate, Query, Read, Traverse
<1>2. phase = "accepted"
  <2>1. here = Nowhere => ~(Read \/ Traverse) BY DEF Read, Traverse, Nowhere
  <2> QED BY <2>1 DEF Evaluate, Query, Tables
<1>3. ASSUME NEW S, Accepted(S), HereRight(S, here) PROVE HereRight(S, here')
  <2>1. Compiled(S) BY <1>2, <1>3, EvaluatesCompiled
  <2>2. CASE Query
    <3>1. PICK x \in Rules : here' = RunRule(x, Scope(x)) BY <2>2 DEF Query
    <3> QED BY <2>1, <3>1, RunRuleRight
  <2>3. CASE Read
    <3>1. PICK i \in 1..Len(here.body) : here' \in ReadsOf(program.nodes[here.body[i]])
      BY <2>3 DEF Read
    <3>2. here.what = "body" BY <2>3 DEF Read
    <3>3. RuleRight(S, here) \/ PredicateRight(S, here)
      BY <1>3, <3>2 DEF HereRight, Nowhere
    <3>4. PICK g : g = here' OBVIOUS
    <3>5. g \in ReadsOf(program.nodes[here.body[i]]) BY <3>1, <3>4
    <3>6. HereRight(S, g) BY <2>1, <3>2, <3>3, <3>5, RuleBodyRight, PredicateBodyRight
    <3> QED BY <3>4, <3>6
  <2>4. CASE Traverse
    <3>1. PICK g \in LookUpReads : g = here' BY <2>4 DEF Traverse
    <3>2. here.what = "lookup" BY <2>4 DEF Traverse
    <3>3. LookUpRight(here) BY <1>3, <3>2 DEF HereRight, Nowhere
    <3>4. HereRight(S, g) BY <2>1, <3>1, <3>2, <3>3, LookedUp
    <3> QED BY <3>1, <3>4
  <2> QED BY <2>2, <2>3, <2>4 DEF Evaluate
<1> QED BY <1>1, <1>3, EvaluatesStays

LEMMA EvaluatesNext ==
    Forms /\ Ordering /\ Tables /\ Walks /\ Evaluates /\ [Next]_vars => Evaluates'
<1> SUFFICES ASSUME Forms, Ordering, Tables, Walks, Evaluates, [Next]_vars PROVE Evaluates'
  OBVIOUS
<1>1. CASE UNCHANGED <<typing_vars, here>> BY <1>1, EvaluatesStays
<1>2. CASE Lowering
  <2>1. phase' # "accepted"
    BY <1>2 DEF Lowering, Direct, DeclareKinds, DirectAggregate, RefuseAggregate, DirectMember,
       RefuseMember, DirectTerms, DirectOther, StampKinds, Directing, Onward, Refuse
  <2> QED BY <2>1 DEF Evaluates
<1>3. CASE Check /\ here' = here
  <2>1. CASE CheckRoles /\ phase' = "accepted"
    <3>1. (\E S : Accepted(S))' BY <2>1, Accepting
    <3>2. here' = Nowhere BY <1>3, <2>1 DEF Tables, CheckRoles, Checked, Walking
    <3>3. \A S : HereRight(S, here)' BY <3>2 DEF HereRight, Nowhere
    <3> QED BY <3>1, <3>3 DEF Evaluates
  <2>2. CASE ~(CheckRoles /\ phase' = "accepted")
    <3>1. phase' # "accepted"
      BY <1>3, <2>2 DEF Check, ReadKinds, StartChecking, CheckAggregate, CheckMember, CheckTerms,
         CheckOther, CheckDerived, CheckRoles, ReturnUsed, Keep, Walking
    <3> QED BY <3>1 DEF Evaluates
  <2> QED BY <2>1, <2>2
<1>4. CASE Evaluate BY <1>4, EvaluatesOn
<1>5. FindOrder \/ DeriveInterface \/ UNCHANGED vars => UNCHANGED <<typing_vars, here>>
  BY DEF FindOrder, DeriveInterface, vars
<1> QED BY <1>1, <1>2, <1>3, <1>4, <1>5 DEF Next, Compile, Lowering

(* In an accepted program ids and slots only meet on one kind: nothing is *)
(* looked up in a slot of another kind's ids, no ids of two kinds are *)
(* compared, and a rule that is routed to an id runs on one of its kind. *)
THEOREM KindsSound == Spec => []KindsMeet
<1>1. Init => Tables /\ Walks /\ Evaluates
  <2>1. Init => phase \in {"declared", "kinds"} BY DEF Init, TypingInit
  <2> QED BY <2>1, TablesInit DEF Walks, Evaluates
<1>2. Forms /\ Forms' /\ Ordering /\ Tables /\ Walks /\ Evaluates /\ [Next]_vars
          => Tables' /\ Walks' /\ Evaluates'
  BY TablesNext, WalksNext, EvaluatesNext
<1>3. Tables /\ Evaluates => KindsMeet
  <2> SUFFICES ASSUME Tables, Evaluates, here.what = "meet" PROVE here.left = here.right
    BY DEF KindsMeet
  <2>1. here # Nowhere BY DEF Nowhere
  <2>2. PICK S : HereRight(S, here) BY <2>1 DEF Tables, Evaluates
  <2> QED BY <2>1, <2>2 DEF HereRight
<1> QED BY <1>1, <1>2, <1>3, FormsHold, PTL DEF Spec

(* The relations a body names are those its nodes name, node by node. *)
NamesOf(i) == NamedIn(<<i>>)
OwnNames(n) == IF n.op \in {"aggregate", "only", "member", "atom", "exists"} THEN {n.relation} ELSE {}

LEMMA NamedForm ==
    ASSUME ProgramForm(program)
    PROVE  /\ \A b : NamedIn(b) = UNION {NamesOf(i) : i \in Elements(b)}
           /\ \A i \in 1..Len(program.nodes) :
                  /\ NamesOf(i) = OwnNames(program.nodes[i]) \cup NamedIn(program.nodes[i].body)
                  /\ NamesOf(i) \subseteq Nat
<1> DEFINE N == Len(program.nodes)
           Gen(f) == [i \in DOMAIN program.nodes |->
               LET n == program.nodes[i]
               IN  (IF n.op \in {"aggregate", "only", "member", "atom", "exists"} THEN {n.relation} ELSE {})
                   \cup UNION {f[j] : j \in Elements(n.body)}]
           named == CHOOSE f : f = Gen(f)
           own == [i \in 1..N |-> OwnNames(program.nodes[i])]
           below == [i \in 1..N |-> Elements(program.nodes[i].body)]
           h == [x \in (1..N) \X SUBSET Nat |-> own[x[1]] \cup x[2]]
<1>1. \A b : NamedIn(b) = UNION {named[i] : i \in Elements(b)} BY DEF NamedIn
<1>2. /\ N \in Nat /\ DOMAIN program.nodes = 1..N
      /\ \A i \in 1..N : /\ program.nodes[i] \in NodeForm(program)
                         /\ Elements(program.nodes[i].body) \subseteq 1..N
                         /\ \A j \in Elements(program.nodes[i].body) : j > i
  BY NodeFacts
<1>3. \A i \in 1..N : OwnNames(program.nodes[i]) \in SUBSET Nat
  BY <1>2 DEF NodeForm, OwnNames
<1>4. \A f : Gen(f) = [i \in 1..N |-> OwnNames(program.nodes[i])
                                          \cup UNION {f[j] : j \in Elements(program.nodes[i].body)}]
  BY <1>2 DEF OwnNames
<1> HIDE DEF Gen, N
<1>5. own \in [1..N -> SUBSET Nat] /\ \A i \in 1..N : own[i] = OwnNames(program.nodes[i])
  BY <1>3
<1>6. below \in [1..N -> SUBSET (1..N)] /\ \A i \in 1..N : \A j \in below[i] : j > i
  BY <1>2
<1>7. \A i \in 1..N : below[i] = Elements(program.nodes[i].body) OBVIOUS
<1> HIDE DEF own, below
<1>8. h \in [(1..N) \X SUBSET Nat -> SUBSET Nat] BY <1>5
<1>9. \A i \in 1..N : \A S \in SUBSET Nat : h[<<i, S>>] = own[i] \cup S OBVIOUS
<1> HIDE DEF h
<1>10. PICK f \in [1..N -> SUBSET Nat] : Gathers(1, N, below, h, f)
  BY <1>2, <1>6, <1>8, Gathering
<1>11. f = Gen(f)
  <2>1. \A i \in 1..N : UNION {f[j] : j \in below[i]} \in SUBSET Nat BY <1>6, <1>10
  <2>2. \A i \in 1..N : f[i] = own[i] \cup UNION {f[j] : j \in Elements(program.nodes[i].body)}
    BY <1>7, <1>9, <1>10, <2>1 DEF Gathers
  <2> QED BY <1>4, <1>5, <1>10, <2>2
<1>12. named = Gen(named) BY <1>11
<1> HIDE DEF named
<1>13. \A i \in 1..N : named[i] = own[i] \cup UNION {named[j] : j \in Elements(program.nodes[i].body)}
  BY <1>4, <1>5, <1>12
<1>14. Amasses(N, below, own, named) BY <1>7, <1>13 DEF Amasses
<1>15. \A i \in 1..N : named[i] \subseteq Nat BY <1>2, <1>5, <1>6, <1>14, GatheredWithin
<1>16. \A i : NamesOf(i) = named[i]
  <2> TAKE i
  <2>1. \A s : s = <<i>> => Elements(s) = {i}
    <3>1. \A s : s = <<i>> => Len(s) = 1 /\ s[1] = i /\ 1..Len(s) = {1} OBVIOUS
    <3> QED BY <3>1 DEF Elements
  <2> QED BY <1>1, <2>1 DEF NamesOf
<1> QED BY <1>1, <1>5, <1>13, <1>15, <1>16 DEF N

(* What a derived relation leads to, and what a program's executed *)
(* formulas name. *)
LedTo(r) == Elements(Sources(r)) \cup NamedIn(Schema(r).predicate)
Base == UNION {NamedIn(Executed(x, purpose)) : x \in Rules}

LEMMA NamedNumbers ==
    ASSUME ProgramForm(program), NEW b \in Bodies(program)
    PROVE  NamedIn(b) \subseteq Nat
BY NamedForm, BodyElements

LEMMA LedToForm ==
    ASSUME ProgramForm(program), NEW r \in Derived
    PROVE  LedTo(r) \subseteq Nat
<1>1. Sources(r) \in Seq(Nat) BY SourcesAsList DEF IsDerived
<1>2. Elements(Sources(r)) \subseteq Nat BY <1>1 DEF Elements
<1>3. Schema(r).predicate \in Bodies(program) BY RelationForm DEF Derived, Schema
<1> QED BY <1>2, <1>3, NamedNumbers DEF LedTo

LEMMA ExecutedForm ==
    ASSUME ProgramForm(program), NEW x \in Rules, NEW for
    PROVE  Executed(x, for) \in Bodies(program)
BY RuleForms DEF Executed, Formulas

LEMMA BaseForm ==
    ASSUME ProgramForm(program)
    PROVE  Base \subseteq Nat
BY ExecutedForm, NamedNumbers DEF Base

(* Leading on from relations as many times as there are relations, and *)
(* once more, leads to all they lead to: every time but the last a derived *)
(* relation is added, or nothing leads further. *)
Further(S) == \E r \in S \cap Derived : ~(LedTo(r) \cap Derived \subseteq S)

LEMMA LeadsForm ==
    \A S : Leads(S) = S \cup UNION {LedTo(r) : r \in S \cap Derived}
BY DEF Leads, LedTo

LedThrough(S, N, f) ==
    /\ f \in [0..N -> SUBSET Nat] /\ f[0] = S /\ f[N] = ReachedFrom(S)
    /\ \A n \in 1..N : f[n] = Leads(f[n - 1])

LEMMA ReachedRounds ==
    ASSUME ProgramForm(program), NEW S \in SUBSET Nat, NEW N, N = Cardinality(Relations) + 1
    PROVE  \E f : LedThrough(S, N, f)
<1> DEFINE Gen(f) == [n \in 0..(Cardinality(Relations) + 1) |-> IF n = 0 THEN S ELSE Leads(f[n - 1])]
           after == CHOOSE f : f = Gen(f)
           h == [x \in (1..N) \X SUBSET Nat |-> Leads(x[2])]
<1>1. ReachedFrom(S) = after[N] BY DEF ReachedFrom
<1>2. N \in Nat BY NamesAssumption, FS_CardinalityType
<1>3. \A T \in SUBSET Nat : Leads(T) \in SUBSET Nat BY LedToForm, LeadsForm
<1>4. h \in [(1..N) \X SUBSET Nat -> SUBSET Nat] /\ \A n \in 1..N : \A T \in SUBSET Nat : h[<<n, T>>] = Leads(T)
  BY <1>3
<1>5. \A f : Gen(f) = [n \in 0..N |-> IF n = 0 THEN S ELSE Leads(f[n - 1])] OBVIOUS
<1> HIDE DEF h, Gen
<1>6. PICK f \in [0..N -> SUBSET Nat] : Follows(N, S, h, f) BY <1>2, <1>4, Iterating
<1>7. f = Gen(f)
  <2>1. \A n \in 0..N : f[n] = IF n = 0 THEN S ELSE Leads(f[n - 1])
    <3> TAKE n \in 0..N
    <3>1. CASE n = 0 BY <1>6, <3>1 DEF Follows
    <3>2. CASE n # 0
      <4>1. n \in 1..N /\ n - 1 \in 0..N BY <1>2, <3>2
      <4> QED BY <1>4, <1>6, <3>2, <4>1 DEF Follows
    <3> QED BY <3>1, <3>2
  <2> QED BY <1>5, <1>6, <2>1
<1>8. after = Gen(after) BY <1>7
<1> HIDE DEF after
<1>9. after = [n \in 0..N |-> IF n = 0 THEN S ELSE Leads(after[n - 1])] BY <1>5, <1>8
<1>10. after[0] = S /\ \A n \in 1..N : after[n] = Leads(after[n - 1]) BY <1>2, <1>9
<1> DEFINE Holds == {n \in 0..N : after[n] \in SUBSET Nat}
<1>11. 0..N \subseteq Holds
  <2>1. 0 \in Holds
    <3>1. 0 \in 0..N BY <1>2
    <3> QED BY <1>10, <3>1
  <2>2. \A n \in 1..N : n - 1 \in Holds => n \in Holds BY <1>2, <1>3, <1>10
  <2> HIDE DEF Holds
  <2> QED BY <1>2, <2>1, <2>2, Upward
<1>12. after \in [0..N -> SUBSET Nat] BY <1>9, <1>11
<1> QED BY <1>1, <1>10, <1>12 DEF LedThrough

(* A round that leads further adds a derived relation, of which there are *)
(* no more than relations. *)
LEMMA MoreDerived ==
    ASSUME NEW S, NEW T, T = Leads(S)
    PROVE  /\ IsFiniteSet(Derived) /\ IsFiniteSet(S \cap Derived) /\ IsFiniteSet(T \cap Derived)
           /\ Cardinality(S \cap Derived) \in Nat /\ Cardinality(T \cap Derived) \in Nat
           /\ Cardinality(S \cap Derived) <= Cardinality(Relations)
           /\ Cardinality(S \cap Derived) = Cardinality(Relations) => Derived \subseteq S
           /\ Further(S) => Cardinality(T \cap Derived) > Cardinality(S \cap Derived)
           /\ ~Further(S) => T \cap Derived = S \cap Derived
<1>1. IsFiniteSet(Relations) /\ Derived \subseteq Relations
  BY NamesAssumption DEF Derived
<1>2. IsFiniteSet(Derived) BY <1>1, FS_Subset
<1>3. \A V : IsFiniteSet(V \cap Derived) /\ Cardinality(V \cap Derived) \in Nat
  <2> TAKE V
  <2>1. V \cap Derived \in SUBSET Derived OBVIOUS
  <2> QED BY <1>2, <2>1, FS_Subset, FS_CardinalityType
<1>4. S \cap Derived \in SUBSET Relations BY <1>1
<1>5. /\ Cardinality(S \cap Derived) <= Cardinality(Relations)
      /\ Cardinality(S \cap Derived) = Cardinality(Relations) => S \cap Derived = Relations
  BY <1>1, <1>4, FS_Subset
<1>6. T = S \cup UNION {LedTo(r) : r \in S \cap Derived} BY LeadsForm
<1>7. ASSUME Further(S) PROVE Cardinality(T \cap Derived) > Cardinality(S \cap Derived)
  <2>1. PICK r \in S \cap Derived : ~(LedTo(r) \cap Derived \subseteq S)
    BY <1>7 DEF Further
  <2>2. PICK d : d \in LedTo(r) /\ d \in Derived /\ d \notin S BY <2>1
  <2>3. d \in T \cap Derived /\ d \notin S \cap Derived BY <1>6, <2>2
  <2>4. S \cap Derived \in SUBSET (T \cap Derived) BY <1>6
  <2>5. /\ Cardinality(S \cap Derived) <= Cardinality(T \cap Derived)
        /\ Cardinality(S \cap Derived) = Cardinality(T \cap Derived) => S \cap Derived = T \cap Derived
    BY <1>3, <2>4, FS_Subset
  <2> QED BY <1>3, <2>3, <2>5
<1>8. ASSUME ~Further(S) PROVE T \cap Derived = S \cap Derived BY <1>6, <1>8 DEF Further
<1> QED BY <1>1, <1>2, <1>3, <1>5, <1>7, <1>8

LEMMA ReachedForm ==
    ASSUME ProgramForm(program), NEW S \in SUBSET Nat
    PROVE  /\ S \subseteq ReachedFrom(S)
           /\ \A r \in ReachedFrom(S) \cap Derived : LedTo(r) \subseteq ReachedFrom(S)
           /\ \A T : S \subseteq T /\ (\A r \in T \cap Derived : LedTo(r) \subseteq T)
                         => ReachedFrom(S) \subseteq T
<1>1. PICK C : C = Cardinality(Relations) OBVIOUS
<1>2. PICK N : N = C + 1 OBVIOUS
<1>3. C \in Nat /\ N \in Nat BY <1>1, <1>2, NamesAssumption, FS_CardinalityType
<1>4. PICK f : LedThrough(S, N, f)
  <2>1. N = Cardinality(Relations) + 1 /\ S \in SUBSET Nat /\ ProgramForm(program)
    BY <1>1, <1>2
  <2> QED BY ONLY <2>1, ReachedRounds
<1>5. \A n \in 1..N : f[n] = f[n - 1] \cup UNION {LedTo(r) : r \in f[n - 1] \cap Derived}
  BY <1>4, LeadsForm DEF LedThrough
<1> DEFINE A == {n \in 0..N : ~Further(f[n]) \/ Cardinality(f[n] \cap Derived) >= n}
<1>6. 0..N \subseteq A
  <2>1. 0 \in A
    <3>1. 0 \in 0..N BY <1>3
    <3>2. Cardinality(f[0] \cap Derived) \in Nat BY MoreDerived
    <3> QED BY <3>1, <3>2
  <2>2. ASSUME NEW n \in 1..N, n - 1 \in A PROVE n \in A
    <3>1. n \in 0..N /\ n \in Nat /\ n - 1 \in Nat BY <1>3
    <3>2. PICK P, Q : P = f[n - 1] /\ Q = f[n] OBVIOUS
    <3>3. Q = Leads(P) BY <1>4, <3>2 DEF LedThrough
    <3>4. P \subseteq Q BY <3>3, LeadsForm
    <3>5. CASE ~Further(P)
      <4>1. Q \cap Derived = P \cap Derived BY ONLY <3>3, <3>5, MoreDerived
      <4>2. ~Further(Q) BY <3>4, <3>5, <4>1 DEF Further
      <4> QED BY <3>1, <3>2, <4>2
    <3>6. CASE Further(P)
      <4>1. Cardinality(P \cap Derived) >= n - 1 BY <2>2, <3>2, <3>6
      <4>2. /\ Cardinality(Q \cap Derived) > Cardinality(P \cap Derived)
            /\ Cardinality(Q \cap Derived) \in Nat /\ Cardinality(P \cap Derived) \in Nat
        BY ONLY <3>3, <3>6, MoreDerived
      <4>3. Cardinality(Q \cap Derived) >= n BY <3>1, <4>1, <4>2
      <4> QED BY <3>1, <3>2, <4>3
    <3> QED BY <3>5, <3>6
  <2> HIDE DEF A
  <2> QED BY <1>3, <2>1, <2>2, Upward
<1>7. C \in 0..N /\ N \in 1..N /\ N - 1 = C BY <1>2, <1>3
<1>8. PICK P, Q : P = f[C] /\ Q = f[N] OBVIOUS
<1>9. Q = Leads(P) /\ Q = ReachedFrom(S) BY <1>4, <1>7, <1>8 DEF LedThrough
<1>10. ~Further(P)
  <2>1. ~Further(P) \/ Cardinality(P \cap Derived) >= C BY <1>6, <1>7, <1>8
  <2>2. /\ Cardinality(P \cap Derived) \in Nat /\ Cardinality(P \cap Derived) <= Cardinality(Relations)
        /\ Cardinality(P \cap Derived) = Cardinality(Relations) => Derived \subseteq P
    BY ONLY <1>9, MoreDerived
  <2>3. Cardinality(P \cap Derived) >= C => Derived \subseteq P BY <1>1, <1>3, <2>2
  <2>4. Derived \subseteq P => ~Further(P) BY DEF Further
  <2> QED BY <2>1, <2>3, <2>4
<1>11. \A r \in Q \cap Derived : LedTo(r) \subseteq Q
  <2>1. Q \cap Derived = P \cap Derived BY ONLY <1>9, <1>10, MoreDerived
  <2>2. Q = P \cup UNION {LedTo(r) : r \in P \cap Derived} BY <1>9, LeadsForm
  <2> QED BY <2>1, <2>2
<1>12. S \subseteq Q
  <2> DEFINE B == {n \in 0..N : S \subseteq f[n]}
  <2>1. 0 \in B
    <3>1. 0 \in 0..N BY <1>3
    <3> QED BY <1>4, <3>1 DEF LedThrough
  <2>2. \A n \in 1..N : n - 1 \in B => n \in B
    <3> SUFFICES ASSUME NEW n \in 1..N, n - 1 \in B PROVE n \in B OBVIOUS
    <3>1. n \in 0..N /\ f[n - 1] \subseteq f[n] BY <1>3, <1>5
    <3> QED BY <3>1
  <2> HIDE DEF B
  <2>3. N \in B BY <1>3, <1>7, <2>1, <2>2, Upward
  <2> QED BY <1>8, <2>3 DEF B
<1>13. ASSUME NEW T, S \subseteq T, \A r \in T \cap Derived : LedTo(r) \subseteq T
       PROVE  Q \subseteq T
  <2> DEFINE B == {n \in 0..N : f[n] \subseteq T}
  <2>1. 0 \in B
    <3>1. 0 \in 0..N BY <1>3
    <3> QED BY <1>4, <1>13, <3>1 DEF LedThrough
  <2>2. \A n \in 1..N : n - 1 \in B => n \in B
    <3> SUFFICES ASSUME NEW n \in 1..N, n - 1 \in B PROVE n \in B OBVIOUS
    <3>1. n \in 0..N BY <1>3
    <3>2. f[n - 1] \subseteq T /\ f[n] = f[n - 1] \cup UNION {LedTo(r) : r \in f[n - 1] \cap Derived}
      BY <1>5
    <3>3. \A r \in f[n - 1] \cap Derived : LedTo(r) \subseteq T BY <1>13, <3>2
    <3> QED BY <3>1, <3>2, <3>3
  <2> HIDE DEF B
  <2>3. N \in B BY <1>3, <1>7, <2>1, <2>2, Upward
  <2> QED BY <1>8, <2>3 DEF B
<1> QED BY <1>9, <1>11, <1>12, <1>13

(* What is known to be executed: the relations used, and those named by *)
(* the nodes still to be visited. It holds what formulas name and what the *)
(* derived relations already checked lead to, and nothing that evaluation *)
(* cannot come to. *)
Ahead(left) == UNION {NamesOf(v.node) : v \in Elements(left)}

Gathered(left, U, queue) ==
    /\ left \in Seq(Elements(left)) /\ \A v \in Elements(left) : v.node \in 1..Len(program.nodes)
    /\ queue \in Seq(Nat) /\ Elements(queue) \subseteq U
    /\ Base \subseteq U \cup Ahead(left)
    /\ U \cup Ahead(left) \subseteq ReachedFrom(Base)
    /\ \A r \in (U \cap Derived) \ Elements(queue) : LedTo(r) \subseteq U \cup Ahead(left)

LEMMA NamesKept ==
    ASSUME program' = program
    PROVE  /\ \A b : NamedIn(b)' = NamedIn(b)
           /\ \A i : NamesOf(i)' = NamesOf(i)
           /\ Derived' = Derived
           /\ \A r : LedTo(r)' = LedTo(r)
           /\ purpose' = purpose => Base' = Base
           /\ \A S : ReachedFrom(S)' = ReachedFrom(S)
<1>1. \A b : NamedIn(b)' = NamedIn(b) BY DEF NamedIn
<1>2. \A i : NamesOf(i)' = NamesOf(i) BY <1>1 DEF NamesOf
<1>3. \A r : Schema(r)' = Schema(r) BY DEF Schema
<1>4. Derived' = Derived BY <1>3 DEF Derived
<1>5. \A r : Sources(r)' = Sources(r) BY <1>3 DEF Sources
<1>6. \A r : LedTo(r)' = LedTo(r) BY <1>1, <1>3, <1>5 DEF LedTo
<1>7. ASSUME purpose' = purpose PROVE Base' = Base
  <2>1. \A x : Executed(x, purpose)' = Executed(x, purpose)
    BY <1>7 DEF Executed, Formulas
  <2> QED BY <1>1, <2>1 DEF Base
<1>8. \A S : Leads(S)' = Leads(S) BY <1>1, <1>3, <1>4, <1>5 DEF Leads
<1>9. \A S : ReachedFrom(S)' = ReachedFrom(S) BY <1>8 DEF ReachedFrom
<1> QED BY <1>1, <1>2, <1>4, <1>6, <1>7, <1>9

LEMMA GatheredKept ==
    ASSUME program' = program, purpose' = purpose, NEW left, NEW U, NEW queue, Gathered(left, U, queue)
    PROVE  Gathered(left, U, queue)'
<1>1. Base' = Base /\ ReachedFrom(Base)' = ReachedFrom(Base)
  <2>1. PICK B : B = Base OBVIOUS
  <2>2. Base' = B /\ ReachedFrom(B)' = ReachedFrom(B) BY <2>1, NamesKept
  <2> QED BY <2>1, <2>2
<1>2. Ahead(left)' = Ahead(left) BY NamesKept DEF Ahead
<1>3. Derived' = Derived /\ \A r : LedTo(r)' = LedTo(r) BY NamesKept
<1> QED BY <1>1, <1>2, <1>3 DEF Gathered

(* What is used is queued from the list given and from the queue. *)
LEMMA UseWithin ==
    ASSUME NEW V, NEW list \in Seq(V), NEW queue \in Seq(V), Use(list, queue)
    PROVE  unchecked' \in Seq(V) /\ Elements(unchecked') \subseteq V
<1> DEFINE lists == [i \in 1..Len(list) |->
                        IF list[i] \in used \cup {list[j] : j \in 1..(i - 1)} THEN <<>> ELSE <<list[i]>>]
<1>1. unchecked' = queue \o Joined(lists) BY DEF Use
<1>2. lists \in Seq(Seq(V))
  <2>1. \A i \in 1..Len(list) : list[i] \in V OBVIOUS
  <2>2. \A i \in 1..Len(list) : lists[i] \in Seq(V) BY <2>1
  <2> QED BY <2>2
<1> HIDE DEF lists
<1>3. Joined(lists) \in Seq(V) BY <1>2, JoinedForm
<1>4. unchecked' \in Seq(V) BY <1>1, <1>3
<1> QED BY <1>4 DEF Elements

(* Visiting a node takes what it names out of what is ahead, and puts what *)
(* its body names in. *)
LEMMA VisitNames ==
    ASSUME ProgramForm(program), NEW body \in Bodies(program), NEW entity, NEW member, NEW citing,
           NEW visits, visits = Visit(body, entity, member, citing)
    PROVE  /\ visits \in Seq(Elements(visits)) /\ Ahead(visits) = NamedIn(body)
           /\ \A v \in Elements(visits) : v.node \in 1..Len(program.nodes)
<1>1. PICK T : T = Elements(visits) OBVIOUS
<1>2. /\ visits \in Seq(T) /\ Len(visits) = Len(body) /\ Met(body, entity, member, citing, T)
      /\ \A v \in Elements(visits) :
             /\ v.node \in 1..Len(program.nodes)
             /\ \E i \in 1..Len(body) : v = VisitOf(body[i], entity, member, citing)
  BY <1>1, VisitForm
<1>3. {v.node : v \in T} = Elements(body)
  <2>1. ASSUME NEW v \in T PROVE v.node \in Elements(body)
    <3>1. PICK i \in 1..Len(body) : v = VisitOf(body[i], entity, member, citing)
      BY <1>1, <1>2
    <3> QED BY <3>1 DEF VisitOf, Elements
  <2>2. ASSUME NEW i \in 1..Len(body) PROVE \E v \in T : v.node = body[i]
    <3>1. VisitOf(body[i], entity, member, citing) \in T BY <1>2 DEF Met
    <3> QED BY <3>1 DEF VisitOf
  <2> QED BY <2>1, <2>2 DEF Elements
<1>4. Ahead(visits) = UNION {NamesOf(i) : i \in Elements(body)} BY <1>1, <1>3 DEF Ahead
<1> QED BY <1>1, <1>2, <1>4, NamedForm

LEMMA AheadVisited ==
    ASSUME ProgramForm(program), NEW U, NEW queue, Gathered(agenda, U, queue), agenda # <<>>,
           NEW body \in Bodies(program), NEW entity, NEW member, NEW citing,
           Push(Visit(body, entity, member, citing))
    PROVE  /\ Visited.node \in 1..Len(program.nodes)
           /\ agenda' \in Seq(Elements(agenda'))
           /\ \A v \in Elements(agenda') : v.node \in 1..Len(program.nodes)
           /\ Ahead(agenda) = NamesOf(Visited.node) \cup Ahead(Tail(agenda))
           /\ Ahead(agenda') = NamedIn(body) \cup Ahead(Tail(agenda))
<1>1. PICK S : S = Elements(agenda) OBVIOUS
<1>2. agenda \in Seq(S) /\ \A v \in S : v.node \in 1..Len(program.nodes)
  BY <1>1 DEF Gathered
<1>3. PICK rest : rest = Tail(agenda) OBVIOUS
<1>4. rest \in Seq(S) /\ Visited \in S /\ S = {Visited} \cup Elements(rest)
  <2>1. /\ Head(agenda) = agenda[1] /\ rest \in Seq(S) /\ Len(rest) = Len(agenda) - 1
        /\ \A i \in 1..Len(rest) : rest[i] = agenda[i + 1]
        /\ Len(agenda) \in Nat /\ Len(agenda) # 0 /\ Head(agenda) \in S
    BY <1>2, <1>3
  <2>2. ASSUME NEW i \in 1..Len(agenda) PROVE agenda[i] \in {Head(agenda)} \cup Elements(rest)
    <3>1. CASE i = 1 BY <2>1, <3>1
    <3>2. CASE i # 1
      <4>1. i - 1 \in 1..Len(rest) /\ i - 1 + 1 = i BY <2>1, <3>2
      <4>2. rest[i - 1] = agenda[i] BY <2>1, <4>1
      <4> QED BY <4>1, <4>2 DEF Elements
    <3> QED BY <3>1, <3>2
  <2>3. Elements(rest) \subseteq S BY <2>1 DEF Elements
  <2> QED BY <1>1, <2>1, <2>2, <2>3 DEF Elements, Visited
<1>5. PICK visits : visits = Visit(body, entity, member, citing) OBVIOUS
<1>6. /\ visits \in Seq(Elements(visits)) /\ Ahead(visits) = NamedIn(body)
      /\ \A v \in Elements(visits) : v.node \in 1..Len(program.nodes)
  BY <1>5, VisitNames
<1>7. PICK T : T = S \cup Elements(visits) OBVIOUS
<1>8. visits \in Seq(T) /\ rest \in Seq(T) BY <1>4, <1>6, <1>7
<1>9. agenda' \in Seq(T) /\ Elements(agenda') = Elements(visits) \cup Elements(rest)
  <2>1. agenda' = visits \o rest BY <1>3, <1>5 DEF Push
  <2>2. visits \o rest \in Seq(T) /\ Elements(visits \o rest) = Elements(visits) \cup Elements(rest)
    BY ONLY <1>8, ConcatElements
  <2> QED BY <2>1, <2>2
<1>10. agenda' \in Seq(Elements(agenda'))
  <2>1. \A s : s \in Seq(T) => s \in Seq(Elements(s)) BY DEF Elements
  <2> QED BY <1>9, <2>1
<1>11. \A v \in Elements(agenda') : v.node \in 1..Len(program.nodes)
  BY <1>2, <1>4, <1>6, <1>9
<1>12. Ahead(agenda') = Ahead(visits) \cup Ahead(rest) BY <1>9 DEF Ahead
<1>13. Ahead(agenda) = NamesOf(Visited.node) \cup Ahead(rest) BY <1>1, <1>4 DEF Ahead
<1> QED BY <1>2, <1>3, <1>4, <1>6, <1>10, <1>11, <1>12, <1>13

(* A node visited adds nothing to what is known, and loses nothing. *)
LEMMA VisitGathers ==
    ASSUME ProgramForm(program), Gathered(agenda, used, unchecked), agenda # <<>>,
           NEW body \in Bodies(program), NEW entity, NEW member, NEW citing,
           Push(Visit(body, entity, member, citing)), NamedIn(body) = NamedIn(Node.body),
           used' = used \cup OwnNames(Node), unchecked' \in Seq(Nat),
           Elements(unchecked) \subseteq Elements(unchecked'), Elements(unchecked') \subseteq used',
           used' \ used \subseteq Elements(unchecked')
    PROVE  Gathered(agenda', used', unchecked')
<1>1. /\ Visited.node \in 1..Len(program.nodes)
      /\ agenda' \in Seq(Elements(agenda'))
      /\ \A v \in Elements(agenda') : v.node \in 1..Len(program.nodes)
      /\ Ahead(agenda) = NamesOf(Visited.node) \cup Ahead(Tail(agenda))
      /\ Ahead(agenda') = NamedIn(body) \cup Ahead(Tail(agenda))
  <2>1. PICK queue, U : queue = unchecked /\ U = used OBVIOUS
  <2>2. Gathered(agenda, U, queue) BY <2>1
  <2>3. ProgramForm(program) /\ agenda # <<>> /\ body \in Bodies(program)
        /\ Push(Visit(body, entity, member, citing))
    OBVIOUS
  <2> QED BY ONLY <2>2, <2>3, AheadVisited
<1>2. NamesOf(Visited.node) = OwnNames(Node) \cup NamedIn(Node.body)
  BY <1>1, NamedForm DEF Node
<1>3. used' \cup Ahead(agenda') = used \cup Ahead(agenda) BY <1>1, <1>2
<1>4. ASSUME NEW r \in (used' \cap Derived) \ Elements(unchecked')
      PROVE  LedTo(r) \subseteq used' \cup Ahead(agenda')
  BY <1>3 DEF Gathered
<1>5. /\ Base \subseteq used \cup Ahead(agenda)
      /\ used \cup Ahead(agenda) \subseteq ReachedFrom(Base)
  BY DEF Gathered
<1> QED BY <1>1, <1>3, <1>4, <1>5 DEF Gathered

(* One relation used, or none. *)
LEMMA UsedNamed ==
    ASSUME ProgramForm(program), Gathered(agenda, used, unchecked), agenda # <<>>,
           \/ /\ Node.op \in {"aggregate", "only", "member", "atom", "exists"}
              /\ Use(<<Node.relation>>, unchecked)
           \/ /\ Node.op \notin {"aggregate", "only", "member", "atom", "exists"}
              /\ UNCHANGED <<used, unchecked>>
    PROVE  /\ Node \in NodeForm(program) /\ Node.body \in Bodies(program)
           /\ used' = used \cup OwnNames(Node) /\ unchecked' \in Seq(Nat)
           /\ Elements(unchecked) \subseteq Elements(unchecked')
           /\ Elements(unchecked') \subseteq used'
           /\ used' \ used \subseteq Elements(unchecked')
<1>1. /\ agenda \in Seq(Elements(agenda)) /\ \A v \in Elements(agenda) : v.node \in 1..Len(program.nodes)
      /\ unchecked \in Seq(Nat) /\ Elements(unchecked) \subseteq used
  BY DEF Gathered
<1>2. Visited.node \in 1..Len(program.nodes)
  <2>1. PICK S : S = Elements(agenda) OBVIOUS
  <2>2. agenda \in Seq(S) BY <1>1, <2>1
  <2>3. Head(agenda) \in S BY <2>2
  <2> QED BY <1>1, <2>1, <2>3 DEF Visited
<1>3. Node \in NodeForm(program) /\ Node.body \in Bodies(program)
  BY <1>2, NodeFacts DEF Node
<1>4. Node.relation \in Nat BY <1>3 DEF NodeForm
<1>5. CASE /\ Node.op \in {"aggregate", "only", "member", "atom", "exists"}
           /\ Use(<<Node.relation>>, unchecked)
  <2>1. PICK list : list = <<Node.relation>> OBVIOUS
  <2>2. list \in Seq(Nat) /\ Elements(list) = {Node.relation}
    <3>1. \A x \in Nat : \A s : s = <<x>> => Len(s) = 1 /\ s[1] = x /\ s \in Seq(Nat)
      OBVIOUS
    <3>2. Len(list) = 1 /\ list[1] = Node.relation /\ list \in Seq(Nat)
      BY <1>4, <2>1, <3>1
    <3> QED BY <3>2 DEF Elements
  <2>3. OwnNames(Node) = {Node.relation} BY <1>5 DEF OwnNames
  <2>4. PICK queue : queue = unchecked OBVIOUS
  <2>5. Use(list, queue) /\ queue \in Seq(Nat) BY <1>1, <1>5, <2>1, <2>4
  <2>6. /\ used' = used \cup Elements(list) /\ unchecked' \in Seq(Nat)
        /\ Elements(queue) \subseteq Elements(unchecked')
        /\ Elements(list) \ used \subseteq Elements(unchecked')
    BY ONLY <2>2, <2>5, UseForm
  <2>7. PICK V : V = used' OBVIOUS
  <2>8. list \in Seq(V) /\ queue \in Seq(V)
    <3>1. \A s \in Seq(Nat) : Elements(s) \subseteq V => s \in Seq(V) BY DEF Elements
    <3>2. Elements(list) \subseteq V /\ Elements(queue) \subseteq V
      BY <1>1, <2>4, <2>6, <2>7
    <3> QED BY <2>2, <2>5, <3>1, <3>2
  <2>9. Elements(unchecked') \subseteq V BY ONLY <2>5, <2>8, UseWithin
  <2> QED BY <1>3, <2>2, <2>3, <2>4, <2>6, <2>7, <2>9
<1>6. CASE /\ Node.op \notin {"aggregate", "only", "member", "atom", "exists"}
           /\ UNCHANGED <<used, unchecked>>
  <2>1. OwnNames(Node) = {} BY <1>6 DEF OwnNames
  <2> QED BY <1>1, <1>3, <1>6, <2>1
<1> QED BY <1>5, <1>6

LEMMA NodeGathers ==
    ASSUME ProgramForm(program), Gathered(agenda, used, unchecked),
           CheckAggregate \/ CheckMember \/ CheckTerms \/ CheckOther
    PROVE  Gathered(agenda', used', unchecked')
<1>1. /\ agenda # <<>>
      /\ \/ /\ Node.op \in {"aggregate", "only", "member", "atom", "exists"}
            /\ Use(<<Node.relation>>, unchecked)
         \/ /\ Node.op \notin {"aggregate", "only", "member", "atom", "exists"}
            /\ UNCHANGED <<used, unchecked>>
  BY DEF CheckAggregate, CheckMember, CheckTerms, CheckOther, Meets
<1>2. /\ Node \in NodeForm(program) /\ Node.body \in Bodies(program)
      /\ used' = used \cup OwnNames(Node) /\ unchecked' \in Seq(Nat)
      /\ Elements(unchecked) \subseteq Elements(unchecked')
      /\ Elements(unchecked') \subseteq used'
      /\ used' \ used \subseteq Elements(unchecked')
  BY <1>1, UsedNamed
<1>3. ASSUME NEW body \in Bodies(program), NEW entity, NEW member, NEW citing,
             Push(Visit(body, entity, member, citing)), NamedIn(body) = NamedIn(Node.body)
      PROVE  Gathered(agenda', used', unchecked')
  <2>1. ProgramForm(program) /\ Gathered(agenda, used, unchecked) OBVIOUS
  <2> QED BY ONLY <1>1, <1>2, <1>3, <2>1, VisitGathers
<1>4. CASE CheckMember
  <2>1. Push(<<>>) /\ Node.op = "member" BY <1>4 DEF CheckMember, Meets
  <2>2. Visited.node \in 1..Len(program.nodes)
    <3>1. PICK S : S = Elements(agenda) OBVIOUS
    <3>2. agenda \in Seq(S) /\ \A v \in S : v.node \in 1..Len(program.nodes)
      BY <3>1 DEF Gathered
    <3>3. Head(agenda) \in S BY <1>1, <3>2
    <3> QED BY <3>2, <3>3 DEF Visited
  <2>3. Node.body = <<>> BY <2>1, <2>2 DEF ProgramForm, Node
  <2>4. Push(Visit(Node.body, NoKind, NoMember, 0))
    <3>1. Visit(<<>>, NoKind, NoMember, 0) = <<>> BY DEF Visit
    <3> QED BY <2>1, <2>3, <3>1
  <2>5. PICK body, entity, member, citing :
            body = Node.body /\ entity = NoKind /\ member = NoMember /\ citing = 0
    OBVIOUS
  <2>6. Push(Visit(body, entity, member, citing)) BY <2>4, <2>5
  <2> QED BY <1>2, <1>3, <2>5, <2>6
<1>5. CASE CheckAggregate \/ CheckTerms \/ CheckOther
  <2>1. \E entity, member : Push(Visit(Node.body, entity, member, Visited.citing))
    BY <1>5 DEF CheckAggregate, CheckTerms, CheckOther, Within
  <2>2. PICK entity, member : Push(Visit(Node.body, entity, member, Visited.citing))
    BY <2>1
  <2>3. PICK body, citing : body = Node.body /\ citing = Visited.citing OBVIOUS
  <2>4. Push(Visit(body, entity, member, citing)) BY <2>2, <2>3
  <2> QED BY <1>2, <1>3, <2>3, <2>4
<1> QED BY <1>4, <1>5

(* A derived relation checked adds what it leads to. *)
LEMMA DerivedGathers ==
    ASSUME ProgramForm(program), Gathered(agenda, used, unchecked), CheckDerived
    PROVE  Gathered(agenda', used', unchecked')
<1>1. agenda = <<>> /\ unchecked # <<>> /\ unchecked \in Seq(Nat) /\ Elements(unchecked) \subseteq used
  BY DEF CheckDerived, Gathered
<1>2. PICK r : r = unchecked[Len(unchecked)] OBVIOUS
<1>3. PICK queue : queue = SubSeq(unchecked, 1, Len(unchecked) - 1) OBVIOUS
<1>4. /\ queue \in Seq(Nat) /\ Elements(unchecked) = Elements(queue) \cup {r}
  <2>1. Len(unchecked) \in Nat /\ Len(unchecked) - 1 \in Nat BY <1>1
  <2>2. /\ queue \in Seq(Nat) /\ Len(queue) = Len(unchecked) - 1
        /\ \A i \in 1..(Len(unchecked) - 1) : queue[i] = unchecked[i]
    <3>1. PICK n : n = Len(unchecked) - 1 OBVIOUS
    <3>2. n \in Int /\ n \in Nat /\ 1 \in Int /\ \A i \in 1..n : unchecked[i] \in Nat
      BY <1>1, <2>1, <3>1
    <3>3. /\ SubSeq(unchecked, 1, n) \in Seq(Nat)
          /\ Len(SubSeq(unchecked, 1, n)) = IF 1 <= n THEN n - 1 + 1 ELSE 0
          /\ \A i \in 1..(n - 1 + 1) : SubSeq(unchecked, 1, n)[i] = unchecked[1 + i - 1]
      BY <3>2, SubSeqProperties
    <3> QED BY <1>3, <3>1, <3>2, <3>3
  <2>3. \A i \in 1..Len(unchecked) : i = Len(unchecked) \/ i \in 1..(Len(unchecked) - 1)
    BY <2>1
  <2>4. /\ Len(unchecked) \in 1..Len(unchecked)
        /\ \A i \in 1..(Len(unchecked) - 1) : i \in 1..Len(unchecked)
    BY <1>1, <2>1
  <2> QED BY <1>2, <2>2, <2>3, <2>4 DEF Elements
<1>5. Elements(agenda) = {} /\ Ahead(agenda) = {} BY <1>1 DEF Elements, Ahead
<1>6. /\ Base \subseteq used /\ used \subseteq ReachedFrom(Base)
      /\ \A s \in (used \cap Derived) \ Elements(unchecked) : LedTo(s) \subseteq used
  BY <1>5 DEF Gathered
<1>7. r \in used /\ Elements(queue) \subseteq used BY <1>1, <1>4
<1>8. CASE ~IsDerived(r)
  <2>1. unchecked' = queue /\ used' = used /\ agenda' = agenda
    BY <1>2, <1>3, <1>8 DEF CheckDerived
  <2>2. \A s \in (used \cap Derived) \ Elements(queue) : LedTo(s) \subseteq used
    BY <1>4, <1>6, <1>8 DEF IsDerived
  <2>3. \A v \in Elements(agenda) : v.node \in 1..Len(program.nodes) BY <1>5
  <2>4. agenda \in Seq(Elements(agenda)) BY DEF Gathered
  <2> QED BY <1>4, <1>5, <1>6, <1>7, <2>1, <2>2, <2>3, <2>4 DEF Gathered
<1>9. CASE IsDerived(r)
  <2>1. Use(Sources(r), queue) /\ agenda' = PredicateVisit(slot_kinds, r)
    BY <1>2, <1>3, <1>9 DEF CheckDerived
  <2>2. PICK list : list = Sources(r) OBVIOUS
  <2>3. list \in Seq(Nat) /\ Use(list, queue) BY <1>9, <2>1, <2>2, SourcesAsList
  <2>4. /\ used' = used \cup Elements(list) /\ unchecked' \in Seq(Nat)
        /\ Elements(queue) \subseteq Elements(unchecked')
        /\ Elements(list) \ used \subseteq Elements(unchecked')
    BY ONLY <1>4, <2>3, UseForm
  <2>5. PICK V : V = used' OBVIOUS
  <2>6. list \in Seq(V) /\ queue \in Seq(V)
    <3>1. \A s \in Seq(Nat) : Elements(s) \subseteq V => s \in Seq(V) BY DEF Elements
    <3>2. Elements(list) \subseteq V /\ Elements(queue) \subseteq V BY <1>7, <2>4, <2>5
    <3> QED BY <1>4, <2>3, <3>1, <3>2
  <2>7. Elements(unchecked') \subseteq V BY ONLY <2>3, <2>6, UseWithin
  <2>8. PICK body : body = Schema(r).predicate OBVIOUS
  <2>9. body \in Bodies(program)
    BY <1>9, <2>8, RelationForm DEF IsDerived, Derived, Schema
  <2>10. PICK entity, member : agenda' = Visit(body, entity, member, r)
    BY <2>1, <2>8 DEF PredicateVisit
  <2>11. PICK visits : visits = agenda' OBVIOUS
  <2>12. /\ visits \in Seq(Elements(visits)) /\ Ahead(visits) = NamedIn(body)
         /\ \A v \in Elements(visits) : v.node \in 1..Len(program.nodes)
    <3>1. visits = Visit(body, entity, member, r) BY <2>10, <2>11
    <3> QED BY <2>9, <3>1, VisitNames
  <2>13. LedTo(r) = Elements(list) \cup Ahead(visits) BY <2>2, <2>8, <2>12 DEF LedTo
  <2>14. LedTo(r) \subseteq ReachedFrom(Base)
    <3>1. PICK B : B = Base OBVIOUS
    <3>2. B \in SUBSET Nat BY <3>1, BaseForm
    <3>3. \A s \in ReachedFrom(B) \cap Derived : LedTo(s) \subseteq ReachedFrom(B)
      BY <3>2, ReachedForm
    <3> QED BY <1>6, <1>7, <1>9, <3>1, <3>3 DEF IsDerived
  <2>15. \A s \in (used' \cap Derived) \ Elements(unchecked') : LedTo(s) \subseteq used' \cup Ahead(visits)
    BY <1>4, <1>6, <2>4, <2>13
  <2>16. /\ Base \subseteq used' \cup Ahead(visits)
         /\ used' \cup Ahead(visits) \subseteq ReachedFrom(Base)
    BY <1>6, <2>4, <2>13, <2>14
  <2>17. Gathered(visits, used', unchecked')
    BY <2>4, <2>5, <2>7, <2>12, <2>15, <2>16 DEF Gathered
  <2> QED BY <2>11, <2>17
<1> QED BY <1>8, <1>9

(* The walk starts from all the nodes of what is executed. *)
LEMMA GatherStarts ==
    ASSUME ProgramForm(program), used = {}, unchecked = <<>>, StartChecking
    PROVE  Gathered(agenda, used, unchecked)'
<1>1. program' = program /\ used' = {} /\ unchecked' = <<>> BY DEF StartChecking
<1>2. PICK for : for = purpose' OBVIOUS
<1> DEFINE At_ == InOrder(Rules)
           visits(x) == Visit(Executed(x, for), Entity(x), NoMember, x)
           lists == [i \in 1..Cardinality(Rules) |-> visits(At_[i])]
           Nodes == UNION {Elements(visits(x)) : x \in Rules}
           B == UNION {NamedIn(Executed(x, for)) : x \in Rules}
<1>3. agenda' = Joined(lists) BY <1>2 DEF StartChecking, Across
<1>4. /\ Cardinality(Rules) \in Nat
      /\ \A i \in 1..Cardinality(Rules) : At_[i] \in Rules
      /\ \A x \in Rules : \E i \in 1..Cardinality(Rules) : At_[i] = x
  <2>1. Rules \in SUBSET Nat /\ IsFiniteSet(Rules) BY NamesAssumption
  <2> QED BY <2>1, InOrderForm
<1>5. \A x \in Rules : Executed(x, for) \in Bodies(program) BY ExecutedForm
<1>6. \A x \in Rules : /\ visits(x) \in Seq(Elements(visits(x)))
                       /\ Ahead(visits(x)) = NamedIn(Executed(x, for))
                       /\ \A v \in Elements(visits(x)) : v.node \in 1..Len(program.nodes)
  <2> TAKE x \in Rules
  <2>1. PICK body, entity, list : body = Executed(x, for) /\ entity = Entity(x) /\ list = visits(x)
    OBVIOUS
  <2>2. ProgramForm(program) /\ body \in Bodies(program) /\ list = Visit(body, entity, NoMember, x)
    BY <1>5, <2>1
  <2>3. /\ list \in Seq(Elements(list)) /\ Ahead(list) = NamedIn(body)
        /\ \A v \in Elements(list) : v.node \in 1..Len(program.nodes)
    BY ONLY <2>2, VisitNames
  <2> QED BY <2>1, <2>3
<1>7. Len(lists) = Cardinality(Rules) /\ \A i \in 1..Cardinality(Rules) : lists[i] = visits(At_[i])
  BY <1>4
<1> HIDE DEF visits, At_
<1>8. \A x \in Rules : visits(x) \in Seq(Nodes)
  <2> TAKE x \in Rules
  <2>1. Elements(visits(x)) \subseteq Nodes OBVIOUS
  <2> HIDE DEF Nodes
  <2> QED BY <1>6, <2>1
<1>9. lists \in Seq(Seq(Nodes))
  <2> HIDE DEF Nodes
  <2> QED BY <1>4, <1>8
<1> HIDE DEF lists
<1>10. /\ agenda' \in Seq(Nodes)
       /\ \A i \in 1..Cardinality(Rules) : Elements(lists[i]) \subseteq Elements(agenda')
  <2> HIDE DEF Nodes
  <2> QED BY <1>3, <1>7, <1>9, JoinedForm
<1>11. PICK left : left = agenda' OBVIOUS
<1>12. Elements(left) = Nodes
  <2>1. Elements(left) \subseteq Nodes
    <3> HIDE DEF Nodes
    <3> QED BY <1>10, <1>11 DEF Elements
  <2>2. \A x \in Rules : Elements(visits(x)) \subseteq Elements(left)
    BY <1>4, <1>7, <1>10, <1>11
  <2> QED BY <2>1, <2>2
<1>13. left \in Seq(Elements(left))
  <2> HIDE DEF Nodes
  <2>1. \A s : s \in Seq(Nodes) => s \in Seq(Elements(s)) BY DEF Elements
  <2> QED BY <1>10, <1>11, <2>1
<1>14. \A v \in Elements(left) : v.node \in 1..Len(program.nodes)
  <2> TAKE v \in Elements(left)
  <2>1. PICK x \in Rules : v \in Elements(visits(x)) BY <1>12
  <2> QED BY <1>6, <2>1
<1>15. Ahead(left) = B
  <2>1. Ahead(left) = UNION {NamesOf(v.node) : v \in Nodes} BY <1>12 DEF Ahead
  <2>2. \A x \in Rules : NamedIn(Executed(x, for)) = UNION {NamesOf(v.node) : v \in Elements(visits(x))}
    BY <1>6 DEF Ahead
  <2> QED BY <2>1, <2>2
<1>16. B \in SUBSET Nat BY <1>5, NamedNumbers
<1>17. PICK C : C = B OBVIOUS
<1>18. C \subseteq ReachedFrom(C) BY <1>16, <1>17, ReachedForm
<1>19. Base' = C
  <2>1. \A x : Executed(x, purpose)' = Executed(x, for)
    BY <1>1, <1>2 DEF Executed, Formulas
  <2>2. \A b : NamedIn(b)' = NamedIn(b) BY <1>1, NamesKept
  <2>3. Base' = UNION {NamedIn(Executed(x, for)) : x \in Rules} BY <2>1, <2>2 DEF Base
  <2> QED BY <1>17, <2>3
<1>20. ReachedFrom(C)' = ReachedFrom(C) /\ Ahead(left)' = Ahead(left)
  BY <1>1, NamesKept DEF Ahead
<1>21. Base' \subseteq ReachedFrom(Base)' BY <1>18, <1>19, <1>20
<1>22. Ahead(agenda)' = Base' BY <1>11, <1>15, <1>17, <1>19, <1>20 DEF Ahead
<1>23. Elements(<<>>) = {} /\ <<>> \in Seq(Nat) BY DEF Elements
<1> QED BY <1>1, <1>11, <1>13, <1>14, <1>21, <1>22, <1>23 DEF Gathered

-----------------------------------------------------------------------------
(* The walk for either purpose has gathered what it will have to, and in *)
(* the end exactly what is reached. *)
Usage ==
    /\ phase = "walking" => Gathered(agenda, used, unchecked)
    /\ phase \in {"accepted", "ill-typed", "executed"} => used = ReachedFrom(Base)

LEMMA GatheringKept ==
    ASSUME Usage, UNCHANGED <<program, purpose, agenda, used, unchecked, phase>>
    PROVE  Usage'
<1>1. CASE phase = "walking"
  <2>1. PICK left, U, queue : left = agenda /\ U = used /\ queue = unchecked OBVIOUS
  <2>2. Gathered(left, U, queue) /\ program' = program /\ purpose' = purpose
    BY <1>1, <2>1 DEF Usage
  <2>3. Gathered(left, U, queue)' BY ONLY <2>2, GatheredKept
  <2> QED BY <1>1, <2>1, <2>3 DEF Usage, Gathered, Ahead
<1>2. CASE phase \in {"accepted", "ill-typed", "executed"}
  <2>1. PICK B : B = Base OBVIOUS
  <2>2. Base' = B /\ ReachedFrom(B)' = ReachedFrom(B) BY <2>1, NamesKept
  <2> QED BY <1>2, <2>1, <2>2 DEF Usage
<1>3. CASE phase \notin {"walking", "accepted", "ill-typed", "executed"}
  BY <1>3 DEF Usage
<1> QED BY <1>1, <1>2, <1>3

(* When nothing is left, what is used is what is reached. *)
LEMMA GatheringDone ==
    ASSUME ProgramForm(program), Usage, CheckRoles \/ ReturnUsed
    PROVE  Usage'
<1>1. /\ phase = "walking" /\ agenda = <<>> /\ unchecked = <<>> /\ program' = program
      /\ purpose' = purpose /\ used' = used /\ phase' \in {"accepted", "ill-typed", "executed"}
  BY DEF CheckRoles, ReturnUsed, Checked, Walking, checker
<1>2. Elements(<<>>) = {} /\ Ahead(<<>>) = {} BY DEF Elements, Ahead
<1>3. /\ Base \subseteq used /\ used \subseteq ReachedFrom(Base)
      /\ \A r \in used \cap Derived : LedTo(r) \subseteq used
  BY <1>1, <1>2 DEF Usage, Gathered
<1>4. PICK B : B = Base OBVIOUS
<1>5. ReachedFrom(B) \subseteq used
  <2>1. B \in SUBSET Nat BY <1>4, BaseForm
  <2>2. B \subseteq used BY <1>3, <1>4
  <2> QED BY <1>3, <2>1, <2>2, ReachedForm
<1>6. Base' = B /\ ReachedFrom(B)' = ReachedFrom(B) BY <1>1, <1>4, NamesKept
<1> QED BY <1>1, <1>3, <1>4, <1>5, <1>6 DEF Usage

LEMMA GatheringNext ==
    Forms /\ Tables /\ Usage /\ [Next]_vars => Usage'
<1> SUFFICES ASSUME Forms, Tables, Usage, [Next]_vars PROVE Usage' OBVIOUS
<1>0. ProgramForm(program) BY DEF Forms
<1>1. CASE UNCHANGED typing_vars BY <1>1, GatheringKept DEF typing_vars
<1>2. CASE Lowering
  <2>1. phase' \notin {"walking", "accepted", "ill-typed", "executed"}
    BY <1>2 DEF Lowering, Direct, DeclareKinds, DirectAggregate, RefuseAggregate, DirectMember,
       RefuseMember, DirectTerms, DirectOther, StampKinds, Directing, Onward, Refuse
  <2> QED BY <2>1 DEF Usage
<1>3. CASE Check
  <2>1. CASE StartChecking
    <3>1. used = {} /\ unchecked = <<>> /\ phase' = "walking"
      BY <2>1 DEF Tables, StartChecking
    <3>2. Gathered(agenda, used, unchecked)' BY <1>0, <2>1, <3>1, GatherStarts
    <3> QED BY <3>1, <3>2 DEF Usage
  <2>2. CASE CheckAggregate \/ CheckMember \/ CheckTerms \/ CheckOther \/ CheckDerived
    <3>1. phase = "walking" /\ phase' = phase /\ program' = program /\ purpose' = purpose
      BY <2>2 DEF CheckAggregate, CheckMember, CheckTerms, CheckOther, CheckDerived, Keep, Walking
    <3>2. Gathered(agenda, used, unchecked) BY <3>1 DEF Usage
    <3>3. Gathered(agenda', used', unchecked')
      BY <1>0, <2>2, <3>2, NodeGathers, DerivedGathers
    <3>4. PICK left, U, queue : left = agenda' /\ U = used' /\ queue = unchecked'
      OBVIOUS
    <3>5. Gathered(left, U, queue) BY <3>3, <3>4
    <3>6. Gathered(left, U, queue)' BY ONLY <3>1, <3>5, GatheredKept
    <3> QED BY <3>1, <3>4, <3>6 DEF Usage, Gathered, Ahead
  <2>3. CASE CheckRoles \/ ReturnUsed BY <1>0, <2>3, GatheringDone
  <2>4. CASE ReadKinds BY <2>4 DEF ReadKinds, Usage
  <2>5. CASE phase \in {"kinds", "innermost"} /\ UNCHANGED <<program, phase, direction, checker>>
    BY <2>5 DEF Usage
  <2> QED BY <1>3, <2>1, <2>2, <2>3, <2>4, <2>5 DEF Check
<1>4. FindOrder \/ DeriveInterface \/ Evaluate \/ UNCHANGED vars => UNCHANGED typing_vars
  BY DEF FindOrder, DeriveInterface, Evaluate, Query, Read, Traverse, vars
<1> QED BY <1>1, <1>2, <1>3, <1>4 DEF Next, Compile, Lowering

(* The relations the walk collects are exactly those evaluation can come *)
(* to read, through sources, paths and predicates; and no relation is ever *)
(* looked up that it did not collect. *)
THEOREM ExecutedSound == Spec => []ExecutedExact
<1>1. Init => Tables /\ Walks /\ Evaluates /\ Usage
  <2>1. Init => phase \in {"declared", "kinds"} BY DEF Init, TypingInit
  <2> QED BY <2>1, TablesInit DEF Walks, Evaluates, Usage
<1>2. Forms /\ Forms' /\ Ordering /\ Tables /\ Walks /\ Evaluates /\ Usage /\ [Next]_vars
          => Tables' /\ Walks' /\ Evaluates' /\ Usage'
  BY TablesNext, WalksNext, EvaluatesNext, GatheringNext
<1>3. Tables /\ Evaluates /\ Usage => ExecutedExact
  <2> SUFFICES ASSUME Tables, Evaluates, Usage PROVE ExecutedExact OBVIOUS
  <2>1. phase \in {"accepted", "ill-typed", "executed"} =>
            used = ReachedFrom(UNION {NamedIn(Executed(x, purpose)) : x \in Rules})
    BY DEF Usage, Base
  <2>2. here.what = "lookup" => here.relation \in used
    <3> SUFFICES ASSUME here.what = "lookup" PROVE here.relation \in used OBVIOUS
    <3>1. here # Nowhere BY DEF Nowhere
    <3>2. PICK S : HereRight(S, here) BY <3>1 DEF Tables, Evaluates
    <3> QED BY <3>1, <3>2 DEF HereRight, LookUpRight
  <2> QED BY <2>1, <2>2 DEF ExecutedExact
<1> QED BY <1>1, <1>2, <1>3, FormsHold, PTL DEF Spec

(* The chain of a node: `m` lies on it if it is in every set that holds *)
(* the node and, with whatever passes on, what that passes on to. *)
Arrives(N, link, n, m) ==
    \A S \in SUBSET N : n \in S /\ (\A x \in S : ~link[x].ends => link[x].next \in S) => m \in S

(* What is found of a node other than what is said of a cycle is found at *)
(* the end of its chain, and every node a walk passed leads to where it is. *)
Founded(N, link, none) ==
    /\ \A n \in DOMAIN chain.resolved :
           chain.resolved[n] # none => \E m \in N : link[m].ends /\ Arrives(N, link, n, m)
    /\ chain.walking => \A n \in chain.path : Arrives(N, link, n, chain.at)

LEMMA ArrivesOn ==
    ASSUME NEW N, NEW link, NEW n, NEW m, NEW k,
           Arrives(N, link, n, m),
           m = k \/ Arrives(N, link, m, k) \/ (~link[m].ends /\ link[m].next = k)
    PROVE  Arrives(N, link, n, k)
<1> SUFFICES ASSUME NEW S \in SUBSET N, n \in S, \A x \in S : ~link[x].ends => link[x].next \in S
             PROVE  k \in S
  BY DEF Arrives
<1>1. m \in S BY DEF Arrives
<1> QED BY <1>1 DEF Arrives

LEMMA FoundedBegins ==
    ASSUME NEW N, NEW link, NEW none, chain = NoWalk
    PROVE  Founded(N, link, none)
<1>1. chain.resolved = <<>> /\ ~chain.walking BY DEF NoWalk
<1>2. DOMAIN chain.resolved = {} BY <1>1
<1> QED BY <1>1, <1>2 DEF Founded

LEMMA FoundedStarts ==
    ASSUME NEW N, NEW link, NEW none, Founded(N, link, none), NEW starts, StartWalk(starts)
    PROVE  Founded(N, link, none)'
<1>1. chain'.resolved = chain.resolved /\ chain'.path = {} BY DEF StartWalk
<1> QED BY <1>1 DEF Founded

LEMMA FoundedExtends ==
    ASSUME NEW N, NEW V, NEW link, NEW none, Followed(N, V, link), Founded(N, link, none), ExtendBy(link)
    PROVE  Founded(N, link, none)'
<1>1. /\ chain = [walking |-> TRUE, at |-> chain.at, path |-> chain.path, resolved |-> chain.resolved]
      /\ ~link[chain.at].ends /\ chain.walking
      /\ chain' = [chain EXCEPT !.at = link[chain.at].next, !.path = @ \cup {chain.at}]
  BY DEF Followed, ExtendBy
<1>2. PICK at, passed, known : at = chain.at /\ passed = chain.path /\ known = chain.resolved
  OBVIOUS
<1>3. chain = [walking |-> TRUE, at |-> at, path |-> passed, resolved |-> known]
  BY <1>1, <1>2
<1>4. chain' = [walking |-> TRUE, at |-> link[at].next, path |-> passed \cup {at}, resolved |-> known]
  BY <1>1, <1>2, <1>3
<1>5. chain'.resolved = chain.resolved /\ chain'.at = link[at].next /\ chain'.path = passed \cup {at}
  BY <1>2, <1>4
<1>6. \A n \in passed \cup {at} : Arrives(N, link, n, at)
  BY <1>1, <1>2 DEF Founded, Arrives
<1>7. \A n \in passed \cup {at} : Arrives(N, link, n, link[at].next)
  BY <1>1, <1>2, <1>6, ArrivesOn
<1> QED BY <1>5, <1>7 DEF Founded

LEMMA FoundedEnds ==
    ASSUME NEW N, NEW V, NEW link, NEW none, Followed(N, V, link), Founded(N, link, none),
           EndBy(link, none)
    PROVE  Founded(N, link, none)'
<1>1. chain.at \in N /\ \A n \in chain.path : Arrives(N, link, n, chain.at)
  BY DEF Followed, Founded, EndBy
<1>2. ASSUME NEW passed, NEW result, CloseWalk(passed, result),
             result # none => \A n \in passed : \E m \in N : link[m].ends /\ Arrives(N, link, n, m)
      PROVE  Founded(N, link, none)'
  <2>1. /\ DOMAIN chain'.resolved = DOMAIN chain.resolved \cup passed /\ ~chain'.walking
        /\ \A n \in DOMAIN chain.resolved \cup passed :
               chain'.resolved[n] = IF n \in passed THEN result ELSE chain.resolved[n]
    BY <1>2 DEF CloseWalk
  <2> QED BY <1>2, <2>1 DEF Founded
<1>3. CASE Resolved(chain.at) /\ CloseWalk(chain.path, chain.resolved[chain.at])
  <2>1. chain.resolved[chain.at] # none =>
            \A n \in chain.path : \E m \in N : link[m].ends /\ Arrives(N, link, n, m)
    BY <1>1, <1>3, ArrivesOn DEF Founded, Resolved
  <2> QED BY <1>2, <1>3, <2>1
<1>4. CASE CloseWalk(chain.path, none) BY <1>2, <1>4
<1>5. CASE link[chain.at].ends /\ CloseWalk(chain.path \cup {chain.at}, link[chain.at].result)
  <2>1. \A n \in chain.path \cup {chain.at} : Arrives(N, link, n, chain.at)
    BY <1>1 DEF Arrives
  <2> QED BY <1>1, <1>2, <1>5, <2>1
<1> QED BY <1>3, <1>4, <1>5 DEF EndBy

(* A chain node by node, `k` of them. *)
Runs(N, link, n, m, k, c) ==
    /\ k \in Nat \ {0} /\ c \in [1..k -> N]
    /\ c[1] = n /\ c[k] = m
    /\ \A i \in 1..(k - 1) : ~link[c[i]].ends /\ link[c[i]].next = c[i + 1]

LEMMA RunsFrom ==
    ASSUME NEW N, NEW V, NEW link, Links(N, V, link), NEW n \in N, NEW m, Arrives(N, link, n, m)
    PROVE  \E k, c : Runs(N, link, n, m, k, c)
<1> DEFINE S == {x \in N : \E k, c : Runs(N, link, n, x, k, c)}
<1>1. n \in S
  <2> DEFINE c == [i \in 1..1 |-> n]
  <2>1. Runs(N, link, n, n, 1, c) BY DEF Runs
  <2> QED BY <2>1
<1>2. ASSUME NEW x \in S, ~link[x].ends PROVE link[x].next \in S
  <2>1. PICK k, c : Runs(N, link, n, x, k, c) OBVIOUS
  <2>2. link[x].next \in N BY <1>2 DEF Links
  <2>3. PICK y : y = link[x].next OBVIOUS
  <2>4. k \in Nat \ {0} /\ c \in [1..k -> N] /\ c[1] = n /\ c[k] = x
        /\ \A i \in 1..(k - 1) : ~link[c[i]].ends /\ link[c[i]].next = c[i + 1]
    BY <2>1 DEF Runs
  <2> DEFINE d == [i \in 1..(k + 1) |-> IF i <= k THEN c[i] ELSE y]
  <2>5. d \in [1..(k + 1) -> N] /\ k + 1 \in Nat \ {0} BY <2>2, <2>3, <2>4
  <2>6. (\A i \in 1..k : d[i] = c[i]) /\ d[k + 1] = y BY <2>4
  <2> HIDE DEF d
  <2>7. ASSUME NEW i \in 1..k PROVE ~link[d[i]].ends /\ link[d[i]].next = d[i + 1]
    <3>1. CASE i = k BY <1>2, <2>3, <2>4, <2>6, <3>1
    <3>2. CASE i # k
      <4>1. i \in 1..(k - 1) /\ i \in 1..k /\ i + 1 \in 1..k BY <2>4, <3>2
      <4> QED BY <2>4, <2>6, <4>1
    <3> QED BY <3>1, <3>2
  <2>8. d[1] = n BY <2>4, <2>6
  <2>9. PICK l : l = k + 1 OBVIOUS
  <2>10. l \in Nat \ {0} /\ d \in [1..l -> N] /\ d[1] = n /\ d[l] = y
    BY ONLY <2>5, <2>6, <2>8, <2>9
  <2>11. \A i \in 1..(l - 1) : ~link[d[i]].ends /\ link[d[i]].next = d[i + 1]
    <3>1. l - 1 = k BY <2>4, <2>9
    <3> QED BY ONLY <2>7, <3>1
  <2>12. Runs(N, link, n, y, l, d) BY ONLY <2>10, <2>11 DEF Runs
  <2> QED BY <2>2, <2>3, <2>12
<1>3. S \in SUBSET N OBVIOUS
<1> HIDE DEF S
<1>4. m \in S BY <1>1, <1>2, <1>3 DEF Arrives
<1> QED BY <1>4 DEF S

(* What repeats can be left out: a shortest chain repeats nothing. *)
LEMMA RunsShort ==
    ASSUME NEW N, NEW link, NEW n, NEW m, \E k, c : Runs(N, link, n, m, k, c)
    PROVE  \E k, c : /\ Runs(N, link, n, m, k, c)
                     /\ \A i, j \in 1..k : c[i] = c[j] => i = j
<1> DEFINE K == {k \in Nat \ {0} : \E c : Runs(N, link, n, m, k, c)}
<1>1. K \in SUBSET Nat /\ K # {} BY DEF Runs
<1>2. PICK k \in K : \A l \in K : k <= l
  <2> HIDE DEF K
  <2> QED BY <1>1, LeastNumber
<1>3. PICK c : Runs(N, link, n, m, k, c) OBVIOUS
<1>4. /\ k \in Nat \ {0} /\ c \in [1..k -> N] /\ c[1] = n /\ c[k] = m
      /\ \A i \in 1..(k - 1) : ~link[c[i]].ends /\ link[c[i]].next = c[i + 1]
  BY <1>3 DEF Runs
<1>5. ASSUME NEW i \in 1..k, NEW j \in 1..k, i < j, c[i] = c[j] PROVE FALSE
  <2>0. PICK l : l = k - (j - i) OBVIOUS
  <2>1. l \in Nat \ {0} /\ l < k /\ i <= l /\ l + (j - i) = k BY <1>4, <1>5, <2>0
  <2> DEFINE d == [t \in 1..l |-> IF t <= i THEN c[t] ELSE c[t + (j - i)]]
  <2>2. \A t \in 1..l : t \in 1..k /\ t + (j - i) \in 1..k BY <1>4, <1>5, <2>1
  <2>3. d \in [1..l -> N] BY <1>4, <2>2
  <2>4. \A t \in 1..l : d[t] = IF t <= i THEN c[t] ELSE c[t + (j - i)] OBVIOUS
  <2> HIDE DEF d
  <2>5. d[1] = n BY <1>4, <2>1, <2>4
  <2>6. d[l] = m
    <3>1. CASE l = i BY <1>4, <1>5, <2>1, <2>4, <3>1
    <3>2. CASE l # i
      <4>1. l \in 1..l /\ ~(l <= i) BY <1>4, <2>1, <3>2
      <4>2. d[l] = c[l + (j - i)] BY <2>4, <4>1
      <4> QED BY <1>4, <2>1, <4>2
    <3> QED BY <3>1, <3>2
  <2>7. ASSUME NEW t \in 1..(l - 1) PROVE ~link[d[t]].ends /\ link[d[t]].next = d[t + 1]
    <3>0. t \in 1..l /\ t + 1 \in 1..l BY <2>1
    <3>1. CASE t < i
      <4>1. t \in 1..(k - 1) /\ d[t] = c[t] /\ d[t + 1] = c[t + 1]
        BY <1>4, <2>1, <2>4, <3>0, <3>1
      <4> QED BY <1>4, <4>1
    <3>2. CASE t = i
      <4>1. j \in 1..(k - 1) /\ ~(t + 1 <= i) /\ t + 1 + (j - i) = j + 1
        <5>1. /\ i \in Int /\ j \in Int /\ k \in Int /\ l \in Int /\ i <= l - 1 /\ i < j /\ 1 <= i
              /\ l + (j - i) = k
          BY <1>4, <1>5, <2>1, <3>2
        <5>2. j <= k - 1 /\ 1 <= j /\ ~(i + 1 <= i) /\ i + 1 + (j - i) = j + 1
          BY ONLY <5>1
        <5> QED BY <3>2, <5>1, <5>2
      <4>2. d[t] = c[j] /\ d[t + 1] = c[j + 1] BY <1>5, <2>4, <3>0, <3>2, <4>1
      <4> QED BY <1>4, <4>1, <4>2
    <3>3. CASE t > i
      <4>1. PICK s : s = t + (j - i) OBVIOUS
      <4>2. s \in 1..(k - 1) /\ ~(t <= i) /\ ~(t + 1 <= i) /\ t + 1 + (j - i) = s + 1
        BY <1>4, <1>5, <2>1, <3>3, <4>1
      <4>3. d[t] = c[s] /\ d[t + 1] = c[s + 1] BY <2>4, <3>0, <4>1, <4>2
      <4> QED BY <1>4, <4>2, <4>3
    <3> QED BY <3>1, <3>2, <3>3
  <2>8. Runs(N, link, n, m, l, d) BY <2>1, <2>3, <2>5, <2>6, <2>7 DEF Runs
  <2>9. l \in K BY <2>1, <2>8
  <2> QED BY <1>2, <1>4, <2>1, <2>9
<1>6. \A i, j \in 1..k : c[i] = c[j] => i = j
  <2> SUFFICES ASSUME NEW i \in 1..k, NEW j \in 1..k, c[i] = c[j], i # j PROVE FALSE
    OBVIOUS
  <2>1. i < j \/ j < i OBVIOUS
  <2> QED BY <1>5, <2>1
<1> QED BY <1>3, <1>6

LEMMA RunsFit ==
    ASSUME NEW S, IsFiniteSet(S), NEW k \in Nat, NEW c \in [1..k -> S],
           \A i, j \in 1..k : c[i] = c[j] => i = j
    PROVE  k <= Cardinality(S)
<1>1. IsFiniteSet(1..k) /\ Cardinality(1..k) = k
  <2>1. IsFiniteSet(1..k) /\ Cardinality(1..k) = IF 1 > k THEN 0 ELSE k - 1 + 1
    BY FS_Interval
  <2> QED BY <2>1
<1>2. Cardinality(S) \in Nat BY FS_CardinalityType
<1> SUFFICES ASSUME Cardinality(S) < k PROVE FALSE BY <1>2
<1>3. PICK D, g : D = 1..k /\ g = c OBVIOUS
<1>4. IsFiniteSet(D) /\ IsFiniteSet(S) /\ Cardinality(S) < Cardinality(D) /\ g \in [D -> S]
  BY <1>1, <1>3
<1>5. \E x, y \in D : x # y /\ g[x] = g[y] BY ONLY <1>4, FS_PigeonHole
<1> QED BY <1>3, <1>5

-----------------------------------------------------------------------------
(* A table of relations' kinds that is what the chains lead to: each *)
(* relation has what its link gives or its source's, and only relations *)
(* whose chain ends have any. *)
RightKinds(table) ==
    \A r \in Relations :
        /\ OwnKinds(r).ends => table[r] = OwnKinds(r).result
        /\ ~OwnKinds(r).ends =>
               table[r] = IF OwnKinds(r).next \in Relations THEN table[OwnKinds(r).next] ELSE Unknown
        /\ table[r] # Unknown =>
               \E m \in Nat : DeclaredLinks[m].ends /\ Arrives(Nat, DeclaredLinks, r, m)

LEMMA RightRead ==
    ASSUME Followed(Nat, Seq(EntityKinds), DeclaredLinks), Founded(Nat, DeclaredLinks, Unknown),
           NEW table, \A r \in Relations : r \in DOMAIN chain.resolved /\ table[r] = chain.resolved[r]
    PROVE  RightKinds(table) /\ \A r \in Relations : table[r] \in Seq(EntityKinds)
<1> SUFFICES ASSUME NEW r \in Relations
             PROVE  /\ table[r] \in Seq(EntityKinds)
                    /\ OwnKinds(r).ends => table[r] = OwnKinds(r).result
                    /\ ~OwnKinds(r).ends =>
                           table[r] = IF OwnKinds(r).next \in Relations
                                      THEN table[OwnKinds(r).next] ELSE Unknown
                    /\ table[r] # Unknown =>
                           \E m \in Nat : DeclaredLinks[m].ends /\ Arrives(Nat, DeclaredLinks, r, m)
  BY DEF RightKinds
<1>1. \A n \in Nat : DeclaredLinks[n] = OwnKinds(n) BY DEF DeclaredLinks
<1>2. r \in Nat /\ r \in DOMAIN chain.resolved /\ table[r] = chain.resolved[r]
  BY NamesAssumption
<1>3. /\ table[r] \in Seq(EntityKinds)
      /\ OwnKinds(r).ends => table[r] = OwnKinds(r).result
      /\ ~OwnKinds(r).ends => /\ OwnKinds(r).next \in DOMAIN chain.resolved
                              /\ chain.resolved[OwnKinds(r).next] = table[r]
  BY <1>1, <1>2 DEF Followed
<1>4. ASSUME ~OwnKinds(r).ends, OwnKinds(r).next \notin Relations PROVE table[r] = Unknown
  <2>1. PICK s : s = OwnKinds(r).next OBVIOUS
  <2>2. s \in Nat /\ s \in DOMAIN chain.resolved /\ chain.resolved[s] = table[r]
    BY <1>3, <1>4, <2>1 DEF Followed
  <2>3. OwnKinds(s) = Ends(Unknown) BY <1>4, <2>1 DEF OwnKinds, IsDerived, Derived
  <2>4. chain.resolved[s] = Unknown BY <1>1, <2>2, <2>3 DEF Followed, Ends
  <2> QED BY <2>2, <2>4
<1>5. table[r] # Unknown =>
          \E m \in Nat : DeclaredLinks[m].ends /\ Arrives(Nat, DeclaredLinks, r, m)
  BY <1>2 DEF Founded
<1> QED BY <1>3, <1>4, <1>5

(* What a relation's own link is. *)
LEMMA OwnLink ==
    ASSUME ProgramForm(program), NEW r
    PROVE  /\ Declares(r) => OwnKinds(r) = Ends(WrittenKinds(r)) /\ r \in Relations
           /\ ~OwnKinds(r).ends => /\ r \in Relations /\ ~Declares(r) /\ IsDerived(r)
                                   /\ Schema(r).path = <<>> /\ OwnKinds(r).next = Schema(r).source
           /\ ~Declares(r) /\ IsDerived(r) /\ Schema(r).path = <<>> =>
                  OwnKinds(r) = Passes(Schema(r).source)
           /\ OwnKinds(r).ends /\ ~Declares(r) => OwnKinds(r).result = Unknown
<1>1. CASE r \notin Relations BY <1>1 DEF Declares, OwnKinds, IsDerived, Derived, Ends
<1>2. CASE r \in Relations /\ IsDerived(r) /\ Schema(r).own # Unknown
  BY <1>2 DEF Declares, OwnKinds, WrittenKinds, Declared, Ends
<1>3. CASE r \in Relations /\ IsDerived(r) /\ Schema(r).own = Unknown /\ Schema(r).kinds = Unknown
  BY <1>3 DEF Declares, OwnKinds, WrittenKinds, Declared, Ends, Passes
<1>4. CASE /\ r \in Relations /\ ~(IsDerived(r) /\ Schema(r).own # Unknown)
           /\ ~(IsDerived(r) /\ Schema(r).own = Unknown /\ Schema(r).kinds = Unknown)
  <2>1. OwnKinds(r) = Ends(Schema(r).kinds) BY <1>4 DEF OwnKinds
  <2>2. Declares(r) <=> Schema(r).kinds # Unknown BY <1>4 DEF Declares
  <2>3. WrittenKinds(r) = Schema(r).kinds BY <1>4 DEF WrittenKinds, Declared
  <2>4. IsDerived(r) => Declares(r) BY <1>4, <2>2
  <2> QED BY <1>4, <2>1, <2>2, <2>3, <2>4 DEF Ends
<1> QED BY <1>1, <1>2, <1>3, <1>4

LEMMA ChainsGive ==
    ASSUME ProgramForm(program), NEW table, RightKinds(table), NEW r \in Relations, NEW c \in Chains(r)
    PROVE  table[r] = WrittenKinds(c[Len(c)])
<1>1. PICK n \in 1..Cardinality(Relations) :
          /\ c \in [1..n -> Relations] /\ c[1] = r /\ Declares(c[n])
          /\ \A i \in 1..(n - 1) : /\ ~Declares(c[i]) /\ IsDerived(c[i])
                                   /\ Schema(c[i]).path = <<>> /\ Schema(c[i]).source = c[i + 1]
  BY DEF Chains
<1>2. n \in Nat \ {0} /\ Len(c) = n
  <2>1. n \in Nat \ {0} BY NamesAssumption, FS_CardinalityType
  <2> QED BY <1>1, <2>1
<1> DEFINE A == {i \in Nat : i + 1 \in 1..n => table[c[i + 1]] = table[r]}
<1>3. 0 \in A BY <1>1
<1>4. ASSUME NEW i \in 1..n, i - 1 \in A PROVE i \in A
  <2> SUFFICES ASSUME i + 1 \in 1..n PROVE table[c[i + 1]] = table[r] BY <1>2
  <2>1. i \in 1..(n - 1) /\ i - 1 + 1 = i BY <1>2
  <2>2. table[c[i]] = table[r] BY <1>4, <2>1
  <2>3. c[i] \in Relations /\ c[i + 1] \in Relations BY <1>1
  <2>4. OwnKinds(c[i]) = Passes(c[i + 1]) BY <1>1, <2>1, OwnLink
  <2> QED BY <2>2, <2>3, <2>4 DEF RightKinds, Passes
<1> HIDE DEF A
<1>5. 0..n \subseteq A BY <1>2, <1>3, <1>4, Upward
<1>6. n - 1 \in 0..n /\ n - 1 + 1 = n /\ n \in 1..n BY <1>2
<1>7. table[c[n]] = table[r] BY <1>5, <1>6 DEF A
<1>8. c[n] \in Relations /\ OwnKinds(c[n]) = Ends(WrittenKinds(c[n]))
  BY <1>1, <1>6, OwnLink
<1> QED BY <1>2, <1>7, <1>8 DEF RightKinds, Ends

LEMMA ChainsFound ==
    ASSUME ProgramForm(program), NEW table, RightKinds(table), NEW r \in Relations, table[r] # Unknown
    PROVE  Chains(r) # {}
<1>1. PICK m \in Nat : DeclaredLinks[m].ends /\ Arrives(Nat, DeclaredLinks, r, m)
  BY DEF RightKinds
<1>2. PICK link : link = DeclaredLinks OBVIOUS
<1>3. \A n \in Nat : link[n] = OwnKinds(n) BY <1>2 DEF DeclaredLinks
<1>4. Links(Nat, Seq(EntityKinds), link) /\ r \in Nat
  BY <1>2, DeclaredLinksForm, NamesAssumption
<1>5. \E k, c : Runs(Nat, link, r, m, k, c) BY <1>1, <1>2, <1>4, RunsFrom
<1>6. PICK k, c : Runs(Nat, link, r, m, k, c) /\ \A i, j \in 1..k : c[i] = c[j] => i = j
  BY <1>5, RunsShort
<1>7. /\ k \in Nat \ {0} /\ c \in [1..k -> Nat] /\ c[1] = r /\ c[k] = m
      /\ \A i \in 1..(k - 1) : ~link[c[i]].ends /\ link[c[i]].next = c[i + 1]
  BY <1>6 DEF Runs
<1> DEFINE A == {i \in Nat : i + 1 \in 1..k => c[i + 1] \in Relations /\ table[c[i + 1]] # Unknown}
<1>8. 0 \in A BY <1>7
<1>9. ASSUME NEW i \in 1..k, i - 1 \in A PROVE i \in A
  <2> SUFFICES ASSUME i + 1 \in 1..k PROVE c[i + 1] \in Relations /\ table[c[i + 1]] # Unknown
    BY <1>7
  <2>1. i \in 1..(k - 1) /\ i - 1 + 1 = i BY <1>7
  <2>2. c[i] \in Relations /\ table[c[i]] # Unknown BY <1>9, <2>1
  <2>3. ~OwnKinds(c[i]).ends /\ OwnKinds(c[i]).next = c[i + 1] BY <1>3, <1>7, <2>1
  <2> QED BY <2>2, <2>3 DEF RightKinds
<1> HIDE DEF A
<1>10. 0..k \subseteq A BY <1>7, <1>8, <1>9, Upward
<1>11. ASSUME NEW i \in 1..k PROVE c[i] \in Relations /\ table[c[i]] # Unknown
  <2>1. i - 1 \in 0..k /\ i - 1 + 1 = i BY <1>7
  <2> QED BY <1>10, <2>1 DEF A
<1>12. c \in [1..k -> Relations] BY <1>7, <1>11
<1>13. k \in 1..Cardinality(Relations)
  <2>1. k <= Cardinality(Relations) BY <1>6, <1>7, <1>12, NamesAssumption, RunsFit
  <2>2. Cardinality(Relations) \in Nat BY NamesAssumption, FS_CardinalityType
  <2> QED BY <1>7, <2>1, <2>2
<1>14. Declares(c[k])
  <2>1. k \in 1..k BY <1>7
  <2>2. OwnKinds(c[k]).ends /\ table[c[k]] # Unknown /\ c[k] \in Relations
    BY <1>1, <1>2, <1>3, <1>7, <1>11, <2>1
  <2> QED BY <2>2, OwnLink DEF RightKinds
<1>15. ASSUME NEW i \in 1..(k - 1)
       PROVE  /\ ~Declares(c[i]) /\ IsDerived(c[i])
              /\ Schema(c[i]).path = <<>> /\ Schema(c[i]).source = c[i + 1]
  <2>0. c[i] \in Nat BY <1>7
  <2>1. ~OwnKinds(c[i]).ends /\ OwnKinds(c[i]).next = c[i + 1] BY <1>3, <1>7, <2>0
  <2> QED BY <2>1, OwnLink
<1>16. c \in Chains(r) BY <1>7, <1>12, <1>13, <1>14, <1>15 DEF Chains
<1> QED BY <1>16

(* Such a table says of each relation what its chain says of it alone. *)
LEMMA AloneRight ==
    ASSUME ProgramForm(program), NEW table, RightKinds(table), NEW r \in Relations
    PROVE  table[r] = KindsAlone(r)
<1>1. CASE Chains(r) = {} BY <1>1, ChainsFound DEF KindsAlone
<1>2. CASE Chains(r) # {}
  <2>1. PICK c : c = CHOOSE d \in Chains(r) : TRUE OBVIOUS
  <2>2. c \in Chains(r) BY <1>2, <2>1
  <2>3. KindsAlone(r) = WrittenKinds(c[Len(c)]) BY <1>2, <2>1 DEF KindsAlone
  <2> QED BY <2>2, <2>3, ChainsGive
<1> QED BY <1>1, <1>2

LEMMA RightKindsKept ==
    ASSUME program'.relations = program.relations, NEW table, RightKinds(table)
    PROVE  RightKinds(table)'
<1>1. \A r : Schema(r)' = Schema(r) BY DEF Schema
<1>2. Derived' = Derived BY <1>1 DEF Derived
<1>3. \A r : OwnKinds(r)' = OwnKinds(r) BY <1>1, <1>2 DEF OwnKinds, IsDerived
<1>4. DeclaredLinks' = DeclaredLinks BY <1>3 DEF DeclaredLinks
<1> QED BY <1>3, <1>4 DEF RightKinds, Arrives

(* Stamping writes down what a chain leads to where the chain begins. *)
LEMMA StampedRight ==
    ASSUME ProgramForm(program), StampKinds, RightKinds(effective),
           \A r \in Relations : effective[r] \in Seq(EntityKinds)
    PROVE  RightKinds(effective)'
<1>0. effective' = effective BY DEF StampKinds, direction
<1> DEFINE new == [r \in Relations |->
                IF r \in Derived /\ Stamped(r)
                THEN [Schema(r) EXCEPT !.own = Stamp(r), !.kinds = IF @ = Unknown THEN Stamp(r) ELSE @]
                ELSE Schema(r)]
<1>1. program' = [program EXCEPT !.relations = new] BY DEF StampKinds
<1>2. program'.relations = new BY <1>1 DEF ProgramForm
<1>3. \A r \in Relations : Schema(r)' = new[r] BY <1>2 DEF Schema
<1>4. ASSUME NEW r \in Relations, r \in Derived, Stamped(r)
      PROVE  /\ Schema(r)'.own = effective[r] /\ Schema(r)'.derived /\ effective[r] # Unknown
  <2>1. Schema(r) \in DerivedForm(program) /\ Schema(r).derived
    BY <1>4, RelationForm DEF Derived, Schema
  <2>2. new[r] = [Schema(r) EXCEPT !.own = Stamp(r), !.kinds = IF @ = Unknown THEN Stamp(r) ELSE @]
    BY <1>4
  <2>3. new[r].own = effective[r] /\ new[r].derived BY <2>1, <2>2 DEF DerivedForm, Stamp
  <2>4. effective[r] # Unknown
    <3>1. At(effective[r], Schema(r).current) # NoKind /\ Schema(r).current \in Nat
      BY <1>4, <2>1 DEF Stamped, DerivedForm
    <3> QED BY <3>1 DEF At, Unknown
  <2> QED BY <1>3, <2>3, <2>4
<1>5. \A r \in Relations : ~(r \in Derived /\ Stamped(r)) => Schema(r)' = Schema(r)
  BY <1>3
<1> HIDE DEF new
<1>6. Derived' = Derived BY <1>4, <1>5 DEF Derived
<1>7. \A r \in Relations : r \in Derived /\ Stamped(r) => OwnKinds(r)' = Ends(effective[r])
  BY <1>4, <1>6 DEF OwnKinds, IsDerived
<1>8. ASSUME NEW r, ~(r \in Derived /\ Stamped(r)) PROVE OwnKinds(r)' = OwnKinds(r)
  <2>1. CASE r \in Relations
    <3>1. Schema(r)' = Schema(r) /\ (IsDerived(r)' <=> IsDerived(r))
      BY <1>5, <1>6, <1>8, <2>1 DEF IsDerived
    <3> QED BY <2>1, <3>1 DEF OwnKinds
  <2>2. CASE r \notin Relations BY <1>6, <2>2 DEF OwnKinds, IsDerived, Derived
  <2> QED BY <2>1, <2>2
<1>9. ASSUME NEW r \in Relations, effective[r] # Unknown
      PROVE  \E m \in Nat : DeclaredLinks'[m].ends /\ Arrives(Nat, DeclaredLinks', r, m)
  <2> DEFINE T == {x \in Nat : Arrives(Nat, DeclaredLinks', r, x)}
  <2> SUFFICES ASSUME \A x \in T : ~DeclaredLinks'[x].ends PROVE FALSE OBVIOUS
  <2>1. PICK m \in Nat : DeclaredLinks[m].ends /\ Arrives(Nat, DeclaredLinks, r, m)
    BY <1>9 DEF RightKinds
  <2>2. \A x \in Nat : DeclaredLinks[x] = OwnKinds(x) /\ DeclaredLinks'[x] = OwnKinds(x)'
    BY DEF DeclaredLinks
  <2>3. \A x \in T : DeclaredLinks'[x] = DeclaredLinks[x]
    BY <1>7, <1>8, <2>2 DEF Ends, Derived
  <2>4. r \in T BY NamesAssumption DEF Arrives
  <2>5. \A x \in T : DeclaredLinks[x].next \in T
    <3> SUFFICES ASSUME NEW x \in T PROVE DeclaredLinks[x].next \in T OBVIOUS
    <3>1. x \in Nat /\ ~DeclaredLinks[x].ends /\ DeclaredLinks'[x] = DeclaredLinks[x]
      BY <2>3
    <3>2. DeclaredLinks[x].next \in Nat BY <3>1, DeclaredLinksForm DEF Links
    <3>3. Arrives(Nat, DeclaredLinks', r, DeclaredLinks'[x].next) BY <3>1 DEF Arrives
    <3> QED BY <3>1, <3>2, <3>3
  <2>6. m \in T
    <3>1. T \in SUBSET Nat OBVIOUS
    <3> HIDE DEF T
    <3> QED BY <2>1, <2>4, <2>5, <3>1 DEF Arrives
  <2> QED BY <2>1, <2>3, <2>6
<1> SUFFICES ASSUME NEW r \in Relations
             PROVE  /\ OwnKinds(r)'.ends => effective[r] = OwnKinds(r)'.result
                    /\ ~OwnKinds(r)'.ends =>
                           effective[r] = IF OwnKinds(r)'.next \in Relations
                                          THEN effective[OwnKinds(r)'.next] ELSE Unknown
  BY <1>0, <1>9 DEF RightKinds
<1>10. CASE r \in Derived /\ Stamped(r) BY <1>7, <1>10 DEF Ends
<1>11. CASE ~(r \in Derived /\ Stamped(r)) BY <1>8, <1>11 DEF RightKinds
<1> QED BY <1>10, <1>11

(* The steps of the walks that build the tables. *)
LEMMA DeclaredStep ==
    ASSUME ProgramForm(program), program' = program, NEW starts \in SUBSET Nat,
           Followed(Nat, Seq(EntityKinds), DeclaredLinks), Founded(Nat, DeclaredLinks, Unknown),
           FollowChains(starts, OwnKinds, Unknown)
    PROVE  Followed(Nat, Seq(EntityKinds), DeclaredLinks)' /\ Founded(Nat, DeclaredLinks, Unknown)'
<1>1. PICK link, V : link = DeclaredLinks /\ V = Seq(EntityKinds) OBVIOUS
<1>2. DeclaredLinks' = link BY <1>1, OwnKindsKept DEF DeclaredLinks
<1>3. Links(Nat, V, link) /\ Followed(Nat, V, link) /\ Founded(Nat, link, Unknown)
  BY <1>1, DeclaredLinksForm
<1>4. \A n \in Nat : link[n] = OwnKinds(n) BY <1>1 DEF DeclaredLinks
<1>5. Unknown \in V BY <1>1 DEF Unknown
<1> SUFFICES Followed(Nat, V, link)' /\ Founded(Nat, link, Unknown)' BY <1>1, <1>2
<1>6. CASE StartWalk(starts) BY <1>3, <1>6, WalkStarted, FoundedStarts
<1>7. CASE EndWalk(OwnKinds, Unknown)
  <2>1. chain.at \in Nat BY <1>3, <1>7 DEF EndWalk, Followed
  <2>2. EndBy(link, Unknown) BY <1>4, <1>7, <2>1 DEF EndWalk, EndBy
  <2> QED BY <1>3, <1>5, <2>2, WalkEnded, FoundedEnds
<1>8. CASE ExtendWalk(OwnKinds)
  <2>1. chain.at \in Nat BY <1>3, <1>8 DEF ExtendWalk, Followed
  <2>2. ExtendBy(link) BY <1>4, <1>8, <2>1 DEF ExtendWalk, ExtendBy
  <2> QED BY <1>3, <2>2, WalkExtended, FoundedExtends
<1> QED BY <1>6, <1>7, <1>8 DEF FollowChains

LEMMA FilterStep ==
    ASSUME program' = program, slot_kinds' = slot_kinds,
           Followed(EntityKinds, EntityKinds \cup {NoKind}, FilterLinks),
           Founded(EntityKinds, FilterLinks, NoKind),
           FollowChains(DOMAIN Agreed(slot_kinds), InnermostLink, NoKind)
    PROVE  Founded(EntityKinds, FilterLinks, NoKind)'
<1>1. PICK link, V : link = FilterLinks /\ V = EntityKinds \cup {NoKind} OBVIOUS
<1>2. FilterLinks' = link BY <1>1, FilterLinksKept
<1>3. Followed(EntityKinds, V, link) /\ Founded(EntityKinds, link, NoKind) BY <1>1
<1>4. \A n \in EntityKinds : link[n] = InnermostLink(n) BY <1>1 DEF FilterLinks
<1> SUFFICES Founded(EntityKinds, link, NoKind)' BY <1>2
<1>5. CASE StartWalk(DOMAIN Agreed(slot_kinds))
  <2>1. PICK starts : starts = DOMAIN Agreed(slot_kinds) OBVIOUS
  <2> QED BY <1>3, <1>5, <2>1, FoundedStarts
<1>6. CASE EndWalk(InnermostLink, NoKind)
  <2>1. chain.at \in EntityKinds BY <1>3, <1>6 DEF EndWalk, Followed
  <2>2. EndBy(link, NoKind) BY <1>4, <1>6, <2>1 DEF EndWalk, EndBy
  <2> QED BY <1>3, <2>2, FoundedEnds
<1>7. CASE ExtendWalk(InnermostLink)
  <2>1. chain.at \in EntityKinds BY <1>3, <1>7 DEF ExtendWalk, Followed
  <2>2. ExtendBy(link) BY <1>4, <1>7, <2>1 DEF ExtendWalk, ExtendBy
  <2> QED BY <1>3, <2>2, FoundedExtends
<1> QED BY <1>5, <1>6, <1>7 DEF FollowChains

(* A filtered entity's kind is the one at the end of its own chain. *)
LEMMA EntitiesFinite == IsFiniteSet(Entities)
<1>1. IsFiniteSet(Derived) BY NamesAssumption, FS_Subset DEF Derived
<1> DEFINE name == [r \in Derived |-> Schema(r).entity]
<1>2. IsFiniteSet({name[r] : r \in Derived}) BY <1>1, FiniteImage
<1>3. Entities \subseteq {name[r] : r \in Derived} BY DEF Entities
<1> HIDE DEF name
<1> QED BY <1>2, <1>3, FS_Subset

EndsAlone(table, e, kind) ==
    /\ InnermostLink(kind).ends
    /\ \E n \in 1..Cardinality(Entities) : \E c \in [1..n -> DOMAIN Agreed(table)] :
           /\ c[1] = e /\ Agreed(table)[c[n]] = kind
           /\ \A i \in 1..(n - 1) : Agreed(table)[c[i]] = c[i + 1]

LEMMA InnermostEnds ==
    ASSUME Followed(EntityKinds, EntityKinds \cup {NoKind}, FilterLinks),
           NEW e \in DOMAIN chain.resolved, NEW m \in EntityKinds,
           FilterLinks[m].ends, Arrives(EntityKinds, FilterLinks, e, m)
    PROVE  chain.resolved[e] = m
<1> DEFINE T == {x \in EntityKinds : x \in DOMAIN chain.resolved /\ chain.resolved[x] = chain.resolved[e]}
<1>1. e \in T /\ T \in SUBSET EntityKinds BY DEF Followed
<1>2. \A x \in T : ~FilterLinks[x].ends => FilterLinks[x].next \in T BY DEF Followed
<1>3. m \in T
  <2> HIDE DEF T
  <2> QED BY <1>1, <1>2 DEF Arrives
<1>4. FilterLinks[m] = InnermostLink(m) BY DEF FilterLinks
<1>5. InnermostLink(m).result = m BY <1>4 DEF InnermostLink, FilterLink, Ends, Passes
<1> QED BY <1>3, <1>4, <1>5 DEF Followed

LEMMA InnermostExact ==
    ASSUME ProgramForm(program), SlotKindsRight,
           Followed(EntityKinds, EntityKinds \cup {NoKind}, FilterLinks),
           Founded(EntityKinds, FilterLinks, NoKind),
           NEW e \in DOMAIN Agreed(slot_kinds), e \in DOMAIN chain.resolved,
           chain.resolved[e] # NoKind
    PROVE  EndsAlone(slot_kinds, e, chain.resolved[e])
<1>1. PICK m \in EntityKinds : FilterLinks[m].ends /\ Arrives(EntityKinds, FilterLinks, e, m)
  BY DEF Founded
<1>2. chain.resolved[e] = m BY <1>1, InnermostEnds
<1>3. PICK link : link = FilterLinks OBVIOUS
<1>4. \A x \in EntityKinds : link[x] = InnermostLink(x) BY <1>3 DEF FilterLinks
<1>5. InnermostLink(m).ends BY <1>1, <1>3, <1>4
<1>6. e \in EntityKinds /\ e \in Entities BY AgreedForm
<1>7. \E k, c : Runs(EntityKinds, link, e, m, k, c)
  BY <1>1, <1>3, <1>6, FilterLinksForm, RunsFrom
<1>8. PICK k, c : Runs(EntityKinds, link, e, m, k, c) /\ \A i, j \in 1..k : c[i] = c[j] => i = j
  BY <1>7, RunsShort
<1>9. /\ k \in Nat \ {0} /\ c \in [1..k -> EntityKinds] /\ c[1] = e /\ c[k] = m
      /\ \A i \in 1..(k - 1) : ~link[c[i]].ends /\ link[c[i]].next = c[i + 1]
  BY <1>8 DEF Runs
<1>10. Cardinality(Entities) \in Nat BY EntitiesFinite, FS_CardinalityType
<1>11. CASE k = 1
  <2>1. e = m BY <1>9, <1>11
  <2>2. Agreed(slot_kinds)[e] = e BY <1>5, <2>1 DEF InnermostLink, FilterLink, Passes
  <2> DEFINE d == [i \in 1..1 |-> e]
  <2>3. d \in [1..1 -> Entities] /\ d \in [1..1 -> DOMAIN Agreed(slot_kinds)] /\ d[1] = e
    BY <1>6
  <2>4. \A i, j \in 1..1 : d[i] = d[j] => i = j OBVIOUS
  <2> HIDE DEF d
  <2>5. 1 <= Cardinality(Entities) BY <2>3, <2>4, EntitiesFinite, RunsFit
  <2>6. 1 \in 1..Cardinality(Entities) /\ \A i \in 1..(1 - 1) : FALSE BY <1>10, <2>5
  <2>7. /\ d[1] = e /\ Agreed(slot_kinds)[d[1]] = m
        /\ \A i \in 1..(1 - 1) : Agreed(slot_kinds)[d[i]] = d[i + 1]
    BY <2>1, <2>2, <2>3, <2>6
  <2> QED BY <1>2, <1>5, <2>3, <2>6, <2>7 DEF EndsAlone
<1>12. CASE k # 1
  <2>1. PICK n : n = k - 1 OBVIOUS
  <2>2. n \in Nat \ {0} /\ k = n + 1 /\ 1 \in 1..n /\ n \in 1..n /\ \A i \in 1..n : i \in 1..k
    BY <1>9, <1>12, <2>1
  <2>3. ASSUME NEW i \in 1..n
        PROVE  /\ c[i] \in Entities /\ c[i] \in DOMAIN Agreed(slot_kinds)
               /\ Agreed(slot_kinds)[c[i]] = c[i + 1]
    <3>1. c[i] \in EntityKinds /\ ~link[c[i]].ends /\ link[c[i]].next = c[i + 1]
      BY <1>9, <2>1, <2>2
    <3>2. c[i] \in DOMAIN Agreed(slot_kinds) /\ Agreed(slot_kinds)[c[i]] = c[i + 1]
      <4>1. ~InnermostLink(c[i]).ends /\ InnermostLink(c[i]).next = c[i + 1]
        BY <1>4, <3>1
      <4> QED BY ONLY <4>1 DEF InnermostLink, FilterLink, Ends, Passes
    <3> QED BY <3>2, AgreedForm
  <2> DEFINE d == [i \in 1..n |-> c[i]]
  <2>4. /\ d \in [1..n -> Entities] /\ d \in [1..n -> DOMAIN Agreed(slot_kinds)]
        /\ \A i \in 1..n : d[i] = c[i]
    BY <2>3
  <2> HIDE DEF d
  <2>5. \A i, j \in 1..n : d[i] = d[j] => i = j BY <1>8, <2>2, <2>4
  <2>6. n <= Cardinality(Entities) BY <2>2, <2>4, <2>5, EntitiesFinite, RunsFit
  <2>7. n \in 1..Cardinality(Entities) BY <1>10, <2>2, <2>6
  <2>8. d[1] = e /\ Agreed(slot_kinds)[d[n]] = m BY <1>9, <2>2, <2>3, <2>4
  <2>9. ASSUME NEW i \in 1..(n - 1) PROVE Agreed(slot_kinds)[d[i]] = d[i + 1]
    <3>1. i \in 1..n /\ i + 1 \in 1..n BY <2>2
    <3> QED BY <2>3, <2>4, <3>1
  <2> QED BY <1>2, <1>5, <2>4, <2>7, <2>8, <2>9 DEF EndsAlone
<1> QED BY <1>11, <1>12

-----------------------------------------------------------------------------
(* The tables, as they are built and read: relations' kinds before *)
(* lowering rewrites them, after it, and the entities' last. *)
Tabled(table) == table \in [Relations -> Seq(EntityKinds)] /\ RightKinds(table)
FiltersExact == \A e \in DOMAIN filtered : EndsAlone(slot_kinds, e, filtered[e])

Kinded ==
    /\ phase = "declared" => Followed(Nat, Seq(EntityKinds), DeclaredLinks)
    /\ phase \in {"declared", "kinds"} => Founded(Nat, DeclaredLinks, Unknown)
    /\ phase = "innermost" => Founded(EntityKinds, FilterLinks, NoKind)
    /\ phase = "directing" => Tabled(effective)
    /\ phase \notin Lowered => effective = <<>> \/ Tabled(effective)
    /\ phase \notin Lowered \cup {"kinds"} => Tabled(slot_kinds)
    /\ phase \notin Lowered \cup {"kinds", "innermost"} => FiltersExact

LEMMA KindedExact ==
    ASSUME ProgramForm(program), Kinded
    PROVE  KindsExact
<1>1. ASSUME NEW table, Tabled(table) PROVE \A r \in Relations : table[r] = KindsAlone(r)
  BY <1>1, AloneRight DEF Tabled
<1>2. ASSUME NEW one, NEW two, Tabled(one), Tabled(two) PROVE one = two
  <2>1. \A r \in Relations : one[r] = two[r] BY <1>1, <1>2
  <2> QED BY <1>2, <2>1 DEF Tabled
<1>3. phase = "directing" => \A r \in Relations : effective[r] = KindsAlone(r)
  BY <1>1 DEF Kinded
<1>4. ASSUME phase \in {"accepted", "ill-typed", "executed"}
      PROVE  /\ \A r \in Relations : slot_kinds[r] = KindsAlone(r)
             /\ effective # <<>> => slot_kinds = effective
             /\ FiltersExact
  <2>1. Tabled(slot_kinds) /\ FiltersExact /\ (effective # <<>> => Tabled(effective))
    BY <1>4 DEF Kinded, Lowered
  <2> QED BY <1>1, <1>2, <2>1
<1> QED BY <1>3, <1>4 DEF KindsExact, FiltersExact, EndsAlone

LEMMA TabledKept ==
    ASSUME program'.relations = program.relations, NEW table, Tabled(table)
    PROVE  Tabled(table)'
BY RightKindsKept DEF Tabled

LEMMA FoundedNothing ==
    (chain = NoWalk => /\ Founded(Nat, DeclaredLinks, Unknown)
                       /\ Founded(EntityKinds, FilterLinks, NoKind))'
<1>1. chain = NoWalk => /\ Founded(Nat, DeclaredLinks, Unknown)
                        /\ Founded(EntityKinds, FilterLinks, NoKind)
  BY FoundedBegins
<1> QED BY <1>1, PTL

LEMMA KindedInit == Init => Kinded
<1> SUFFICES ASSUME Init PROVE Kinded OBVIOUS
<1>1. phase \in {"declared", "kinds"} /\ chain = NoWalk /\ effective = <<>>
  BY DEF Init, TypingInit
<1>2. Followed(Nat, Seq(EntityKinds), DeclaredLinks) BY <1>1, NothingFollowed
<1>3. Founded(Nat, DeclaredLinks, Unknown) BY <1>1, FoundedBegins
<1> QED BY <1>1, <1>2, <1>3 DEF Kinded, Lowered

LEMMA EndsAloneKept ==
    ASSUME program' = program, slot_kinds' = slot_kinds, NEW e, NEW kind, EndsAlone(slot_kinds, e, kind)
    PROVE  EndsAlone(slot_kinds, e, kind)'
<1>1. \A s : Schema(s)' = Schema(s) BY DEF Schema
<1>2. Derived' = Derived BY <1>1 DEF Derived
<1>3. \A d : Filters(d)' = Filters(d) BY <1>1, <1>2 DEF Filters
<1>4. Entities' = Entities BY <1>1, <1>2 DEF Entities
<1>5. \A kinds, d : CurrentKinds(kinds, d)' = CurrentKinds(kinds, d)
  BY <1>1, <1>3 DEF CurrentKinds
<1>6. Agreed(slot_kinds)' = Agreed(slot_kinds) BY <1>4, <1>5 DEF Agreed
<1>7. InnermostLink(kind)' = InnermostLink(kind) BY <1>6 DEF InnermostLink
<1> QED BY <1>4, <1>6, <1>7 DEF EndsAlone

LEMMA KindedLowering ==
    ASSUME Forms, Tables, Kinded, Lowering
    PROVE  Kinded'
<1>0. ProgramForm(program) BY DEF Forms
<1>1. CASE phase = "declared" /\ FollowChains(Relations, OwnKinds, Unknown)
           /\ UNCHANGED <<program, phase, direction>>
  <2>1. PICK starts : starts = Relations OBVIOUS
  <2>2. starts \in SUBSET Nat BY <2>1, NamesAssumption
  <2>3. Followed(Nat, Seq(EntityKinds), DeclaredLinks) /\ Founded(Nat, DeclaredLinks, Unknown)
    BY <1>1 DEF Kinded
  <2>4. Followed(Nat, Seq(EntityKinds), DeclaredLinks)' /\ Founded(Nat, DeclaredLinks, Unknown)'
    BY <1>0, <1>1, <2>1, <2>2, <2>3, DeclaredStep
  <2> QED BY <1>1, <2>4 DEF Kinded, Lowered
<1>2. CASE DeclareKinds
  <2>1. /\ phase = "declared" /\ phase' \in {"directing", "refused"} /\ program' = program
        /\ effective' = [r \in Relations |-> chain.resolved[r]]
        /\ Relations \subseteq DOMAIN chain.resolved
    BY <1>2 DEF DeclareKinds, AllFollowed
  <2>2. PICK table : table = effective' OBVIOUS
  <2>3. \A r \in Relations : r \in DOMAIN chain.resolved /\ table[r] = chain.resolved[r]
    BY <2>1, <2>2
  <2>4. Followed(Nat, Seq(EntityKinds), DeclaredLinks) /\ Founded(Nat, DeclaredLinks, Unknown)
    BY <2>1 DEF Kinded
  <2>5. RightKinds(table) /\ \A r \in Relations : table[r] \in Seq(EntityKinds)
    BY <2>3, <2>4, RightRead
  <2>6. Tabled(table) BY <2>1, <2>2, <2>5 DEF Tabled
  <2>7. Tabled(table)' BY <2>1, <2>6, TabledKept
  <2>8. Tabled(effective)' BY <2>2, <2>7 DEF Tabled, RightKinds
  <2> QED BY <2>1, <2>8 DEF Kinded, Lowered
<1>3. CASE DirectAggregate \/ DirectMember \/ DirectTerms \/ DirectOther
  <2>1. phase = "directing" /\ phase' = phase /\ effective' = effective
    BY <1>3 DEF DirectAggregate, DirectMember, DirectTerms, DirectOther, Directing, Onward
  <2>2. program'.relations = program.relations
    <3>1. program' = program \/ \E slots : Rewrite(slots)
      BY <1>3 DEF DirectAggregate, DirectMember, DirectTerms, DirectOther
    <3>2. \A slots : Rewrite(slots) => program'.relations = program.relations
      BY <1>0 DEF Rewrite, ProgramForm
    <3> QED BY <3>1, <3>2
  <2>3. PICK table : table = effective OBVIOUS
  <2>4. Tabled(table)' BY <2>1, <2>2, <2>3, TabledKept DEF Kinded
  <2>5. Tabled(effective)' BY <2>1, <2>3, <2>4 DEF Tabled, RightKinds
  <2> QED BY <2>1, <2>5 DEF Kinded, Lowered
<1>4. CASE RefuseAggregate \/ RefuseMember
  <2>1. phase' = "refused" BY <1>4 DEF RefuseAggregate, RefuseMember, Refuse
  <2> QED BY <2>1 DEF Kinded, Lowered
<1>5. CASE StampKinds
  <2>1. phase = "directing" /\ phase' = "kinds" /\ effective' = effective /\ chain' = chain
    BY <1>5 DEF StampKinds, Directing, direction
  <2>2. Tabled(effective) /\ chain' = NoWalk BY <2>1 DEF Kinded, Tables
  <2>3. RightKinds(effective)' BY <1>0, <1>5, <2>2, StampedRight DEF Tabled
  <2>4. Tabled(effective)' /\ Founded(Nat, DeclaredLinks, Unknown)'
    BY <2>1, <2>2, <2>3, FoundedNothing DEF Tabled
  <2> QED BY <2>1, <2>4 DEF Kinded, Lowered
<1> QED BY <1>1, <1>2, <1>3, <1>4, <1>5 DEF Lowering, Direct

LEMMA KindedChecking ==
    ASSUME Forms, Tables, Kinded, Check
    PROVE  Kinded'
<1>0. ProgramForm(program) /\ program' = program /\ phase \notin Lowered
  BY CheckingPhase DEF Forms, Lowered
<1>1. effective' = effective
  BY DEF Check, ReadKinds, StartChecking, CheckAggregate, CheckMember, CheckTerms, CheckOther,
     CheckDerived, CheckRoles, ReturnUsed, Keep, direction
<1>2. (effective = <<>> \/ Tabled(effective))'
  <2>1. PICK table : table = effective OBVIOUS
  <2>2. table = <<>> \/ Tabled(table)' BY <1>0, <2>1, TabledKept DEF Kinded
  <2> QED BY <1>1, <2>1, <2>2 DEF Tabled, RightKinds
<1>3. ASSUME Tabled(slot_kinds), slot_kinds' = slot_kinds PROVE Tabled(slot_kinds)'
  <2>1. PICK table : table = slot_kinds OBVIOUS
  <2>2. Tabled(table)' BY <1>0, <1>3, <2>1, TabledKept
  <2> QED BY <1>3, <2>1, <2>2 DEF Tabled, RightKinds
<1>4. CASE phase = "kinds" /\ FollowChains(NextByName, OwnKinds, Unknown)
           /\ UNCHANGED <<program, phase, direction, checker>>
  <2>1. PICK starts : starts = NextByName OBVIOUS
  <2>2. starts \in SUBSET Nat BY <2>1, NextByNameForm
  <2>3. Followed(Nat, Seq(EntityKinds), DeclaredLinks) /\ Founded(Nat, DeclaredLinks, Unknown)
    BY <1>4 DEF Kinded, Tables
  <2>4. Founded(Nat, DeclaredLinks, Unknown)'
    BY <1>0, <1>4, <2>1, <2>2, <2>3, DeclaredStep
  <2> QED BY <1>2, <1>4, <2>4 DEF Kinded, Lowered
<1>5. CASE phase = "innermost" /\ FollowChains(DOMAIN Agreed(slot_kinds), InnermostLink, NoKind)
           /\ UNCHANGED <<program, phase, direction, checker>>
  <2>1. Followed(EntityKinds, EntityKinds \cup {NoKind}, FilterLinks)
        /\ Founded(EntityKinds, FilterLinks, NoKind) /\ Tabled(slot_kinds)
    BY <1>5 DEF Kinded, Tables, Lowered
  <2>2. slot_kinds' = slot_kinds BY <1>5 DEF checker
  <2>3. Founded(EntityKinds, FilterLinks, NoKind)' BY <1>0, <1>5, <2>1, <2>2, FilterStep
  <2>4. Tabled(slot_kinds)' BY <1>3, <2>1, <2>2
  <2> QED BY <1>2, <1>5, <2>3, <2>4 DEF Kinded, Lowered
<1>6. CASE ReadKinds
  <2>1. /\ phase = "kinds" /\ phase' = "innermost" /\ chain' = NoWalk
        /\ slot_kinds' = [r \in Relations |-> chain.resolved[r]]
        /\ Relations \subseteq DOMAIN chain.resolved
    BY <1>6 DEF ReadKinds, AllFollowed
  <2>2. PICK table : table = slot_kinds' OBVIOUS
  <2>3. \A r \in Relations : r \in DOMAIN chain.resolved /\ table[r] = chain.resolved[r]
    BY <2>1, <2>2
  <2>4. Followed(Nat, Seq(EntityKinds), DeclaredLinks) /\ Founded(Nat, DeclaredLinks, Unknown)
    BY <2>1 DEF Kinded, Tables
  <2>5. RightKinds(table) /\ \A r \in Relations : table[r] \in Seq(EntityKinds)
    BY <2>3, <2>4, RightRead
  <2>6. Tabled(table) BY <2>1, <2>2, <2>5 DEF Tabled
  <2>7. Tabled(table)' BY <1>0, <2>6, TabledKept
  <2>8. Tabled(slot_kinds)' BY <2>2, <2>7 DEF Tabled, RightKinds
  <2>9. Founded(EntityKinds, FilterLinks, NoKind)' BY <2>1, FoundedNothing
  <2> QED BY <1>2, <2>1, <2>8, <2>9 DEF Kinded, Lowered
<1>7. CASE StartChecking
  <2>1. /\ phase = "innermost" /\ phase' = "walking" /\ slot_kinds' = slot_kinds
        /\ DOMAIN Agreed(slot_kinds) \subseteq DOMAIN chain.resolved
        /\ \/ filtered' = <<>>
           \/ filtered' = [e \in {e \in DOMAIN Agreed(slot_kinds) : chain.resolved[e] # NoKind} |->
                               chain.resolved[e]]
    BY <1>7 DEF StartChecking, AllFollowed
  <2>2. /\ Followed(EntityKinds, EntityKinds \cup {NoKind}, FilterLinks) /\ SlotKindsRight
        /\ Founded(EntityKinds, FilterLinks, NoKind) /\ Tabled(slot_kinds)
    BY <2>1 DEF Kinded, Tables, Lowered
  <2>3. ASSUME NEW e \in DOMAIN filtered' PROVE EndsAlone(slot_kinds, e, filtered[e])'
    <3>1. /\ filtered'[e] = chain.resolved[e] /\ chain.resolved[e] # NoKind
          /\ e \in DOMAIN Agreed(slot_kinds) /\ e \in DOMAIN chain.resolved
      BY <2>1, <2>3
    <3>2. PICK kind : kind = chain.resolved[e] OBVIOUS
    <3>3. EndsAlone(slot_kinds, e, kind) BY <1>0, <2>2, <3>1, <3>2, InnermostExact
    <3>4. EndsAlone(slot_kinds, e, kind)' BY <1>0, <2>1, <3>3, EndsAloneKept
    <3> QED BY <3>1, <3>2, <3>4
  <2>4. FiltersExact' BY <2>3 DEF FiltersExact
  <2>5. Tabled(slot_kinds)' BY <1>3, <2>1, <2>2
  <2> QED BY <1>2, <2>1, <2>4, <2>5 DEF Kinded, Lowered
<1>8. CASE CheckAggregate \/ CheckMember \/ CheckTerms \/ CheckOther \/ CheckDerived
           \/ CheckRoles \/ ReturnUsed
  <2>1. /\ UNCHANGED typing_tables /\ phase = "walking"
        /\ phase' \in {"walking", "accepted", "ill-typed", "executed"}
    BY <1>8 DEF CheckAggregate, CheckMember, CheckTerms, CheckOther, CheckDerived, CheckRoles,
       ReturnUsed, Keep, Walking, Checked, typing_tables, checker
  <2>2. slot_kinds' = slot_kinds /\ filtered' = filtered /\ Tabled(slot_kinds) /\ FiltersExact
    BY <2>1 DEF Kinded, Lowered, typing_tables
  <2>3. Tabled(slot_kinds)' BY <1>3, <2>2
  <2>4. ASSUME NEW e \in DOMAIN filtered PROVE EndsAlone(slot_kinds, e, filtered[e])'
    <3>1. PICK kind : kind = filtered[e] OBVIOUS
    <3>2. EndsAlone(slot_kinds, e, kind)'
      BY <1>0, <2>2, <3>1, EndsAloneKept DEF FiltersExact
    <3> QED BY <2>2, <3>1, <3>2
  <2>5. FiltersExact' BY <2>2, <2>4 DEF FiltersExact
  <2> QED BY <1>2, <2>1, <2>3, <2>5 DEF Kinded, Lowered
<1> QED BY <1>4, <1>5, <1>6, <1>7, <1>8 DEF Check

LEMMA KindedNext == Forms /\ Tables /\ Kinded /\ [Next]_vars => Kinded'
<1> SUFFICES ASSUME Forms, Tables, Kinded, [Next]_vars PROVE Kinded' OBVIOUS
<1>1. CASE UNCHANGED typing_vars
  <2>1. UNCHANGED <<program, phase, chain, effective, slot_kinds, filtered>>
    BY <1>1 DEF typing_vars
  <2>2. DeclaredLinks' = DeclaredLinks /\ FilterLinks' = FilterLinks
    BY <2>1, OwnKindsKept, FilterLinksKept DEF DeclaredLinks
  <2>3. PICK one, two : one = effective /\ two = slot_kinds OBVIOUS
  <2>4. (Tabled(one) => Tabled(one)') /\ (Tabled(two) => Tabled(two)')
    BY <2>1, TabledKept
  <2>5. (Tabled(effective) => Tabled(effective)') /\ (Tabled(slot_kinds) => Tabled(slot_kinds)')
    BY <2>1, <2>3, <2>4 DEF Tabled, RightKinds
  <2>6. FiltersExact => FiltersExact'
    <3> SUFFICES ASSUME FiltersExact, NEW e \in DOMAIN filtered
                 PROVE  EndsAlone(slot_kinds, e, filtered[e])'
      BY <2>1 DEF FiltersExact
    <3>1. PICK kind : kind = filtered[e] OBVIOUS
    <3>2. EndsAlone(slot_kinds, e, kind)' BY <2>1, <3>1, EndsAloneKept DEF FiltersExact
    <3> QED BY <2>1, <3>1, <3>2
  <2>7. Followed(Nat, Seq(EntityKinds), DeclaredLinks) => Followed(Nat, Seq(EntityKinds), DeclaredLinks)'
    BY <2>1, <2>2 DEF Followed
  <2>8. /\ Founded(Nat, DeclaredLinks, Unknown) => Founded(Nat, DeclaredLinks, Unknown)'
        /\ Founded(EntityKinds, FilterLinks, NoKind) => Founded(EntityKinds, FilterLinks, NoKind)'
    BY <2>1, <2>2 DEF Founded, Arrives
  <2> QED BY <2>1, <2>5, <2>6, <2>7, <2>8 DEF Kinded, Lowered
<1>2. CASE Lowering BY <1>2, KindedLowering
<1>3. CASE Check BY <1>3, KindedChecking
<1>4. FindOrder \/ DeriveInterface \/ Evaluate \/ UNCHANGED vars => UNCHANGED typing_vars
  BY DEF FindOrder, DeriveInterface, Evaluate, Query, Read, Traverse, vars
<1> QED BY <1>1, <1>2, <1>3, <1>4 DEF Next, Compile, Lowering

(* Whatever order the chains are followed in, whatever they share and *)
(* wherever they are circles: each relation has the kinds its own chain of *)
(* sources leads to, stamped or not, and each filtered entity the kind at *)
(* the end of its own. *)
THEOREM TablesSound == Spec => []KindsExact
<1>1. Init => Tables /\ Kinded BY TablesInit, KindedInit
<1>2. Forms /\ Forms' /\ Tables /\ Kinded /\ [Next]_vars => Tables' /\ Kinded'
  BY TablesNext, KindedNext
<1>3. Forms /\ Kinded => KindsExact BY KindedExact DEF Forms
<1> QED BY <1>1, <1>2, <1>3, FormsHold, PTL DEF Spec

(* The kinds of rules, gone round until nothing is added: each kind of a *)
(* reference is a kind of the rule it refers to. *)
FlowForm(V) == {OfRule(x) : x \in Rules} \cup {OfKind(k) : k \in V \cup {NoKind}}
Referring(found, x) == {f \in found : f.what = "reference" /\ f.name = x}
Spread(found, kinds) ==
    [x \in Rules |-> kinds[x] \cup UNION {Flows(kinds, f.flow) : f \in Referring(found, x)}]
Referenced(found, V) == \A f \in found : f.what = "reference" => f.flow \in FlowForm(V)

LEMMA FlowsForm ==
    ASSUME NEW V, NEW kinds \in [Rules -> SUBSET V], NEW flow \in FlowForm(V)
    PROVE  /\ Flows(kinds, flow) \subseteq V
           /\ flow.rule \in Rules \/ flow.rule = 0
           /\ flow.rule \in Rules => Flows(kinds, flow) = kinds[flow.rule]
           /\ flow.rule = 0 => Flows(kinds, flow) = {flow.kind} \ {NoKind}
<1>1. 0 \notin Rules BY NamesAssumption
<1>2. CASE \E x \in Rules : flow = OfRule(x)
  <2>1. PICK x \in Rules : flow = OfRule(x) BY <1>2
  <2>2. flow.rule = x BY <2>1 DEF OfRule
  <2> QED BY <1>1, <2>2 DEF Flows
<1>3. CASE \E k \in V \cup {NoKind} : flow = OfKind(k)
  <2>1. PICK k \in V \cup {NoKind} : flow = OfKind(k) BY <1>3
  <2>2. flow.rule = 0 /\ flow.kind = k BY <2>1 DEF OfKind
  <2> QED BY <1>1, <2>1, <2>2 DEF Flows
<1> QED BY <1>2, <1>3 DEF FlowForm

LEMMA SpreadForm ==
    ASSUME NEW V, NEW found, Referenced(found, V), NEW kinds \in [Rules -> SUBSET V]
    PROVE  /\ Spread(found, kinds) \in [Rules -> SUBSET V]
           /\ \A x \in Rules : kinds[x] \subseteq Spread(found, kinds)[x]
<1>1. ASSUME NEW x \in Rules, NEW f \in Referring(found, x) PROVE Flows(kinds, f.flow) \subseteq V
  <2>1. f.flow \in FlowForm(V) BY DEF Referring, Referenced
  <2> QED BY <2>1, FlowsForm
<1>2. \A x \in Rules : UNION {Flows(kinds, f.flow) : f \in Referring(found, x)} \subseteq V
  BY <1>1
<1> QED BY <1>2 DEF Spread

SpreadThrough(found, V, N, f) ==
    /\ f \in [0..N -> [Rules -> SUBSET V]] /\ f[N] = RuleKinds(found)
    /\ f[0] = [x \in Rules |-> {Scope(x)}]
    /\ \A n \in 1..N : f[n] = Spread(found, f[n - 1])

LEMMA SpreadRounds ==
    ASSUME NEW V, NEW found, Referenced(found, V), \A x \in Rules : Scope(x) \in V,
           NEW N, N = Cardinality(Rules)
    PROVE  \E f : SpreadThrough(found, V, N, f)
<1> DEFINE Begin == [x \in Rules |-> {Scope(x)}]
           Gen(f) == [n \in 0..Rounds |->
               IF n = 0 THEN [x \in Rules |-> {Scope(x)}]
               ELSE [x \in Rules |->
                        f[n - 1][x] \cup
                        UNION {Flows(f[n - 1], g.flow) : g \in {g \in found : g.what = "reference" /\ g.name = x}}]]
           after == CHOOSE f : f = Gen(f)
           F == [Rules -> SUBSET V]
           h == [x \in (1..N) \X F |-> Spread(found, x[2])]
<1>1. RuleKinds(found) = after[Rounds] BY DEF RuleKinds
<1>2. N \in Nat /\ Rounds = N BY NamesAssumption, FS_CardinalityType DEF Rounds
<1>3. \A g \in F : Spread(found, g) \in F BY SpreadForm
<1>4. h \in [(1..N) \X F -> F] /\ \A n \in 1..N : \A g \in F : h[<<n, g>>] = Spread(found, g)
  BY <1>3
<1>5. \A f : Gen(f) = [n \in 0..N |-> IF n = 0 THEN Begin ELSE Spread(found, f[n - 1])]
  BY <1>2 DEF Spread, Referring
<1>6. Begin \in F OBVIOUS
<1> HIDE DEF h, Gen, Begin, F
<1>7. PICK f \in [0..N -> F] : Follows(N, Begin, h, f) BY <1>2, <1>4, <1>6, Iterating
<1>8. f = Gen(f)
  <2>1. \A n \in 0..N : f[n] = IF n = 0 THEN Begin ELSE Spread(found, f[n - 1])
    <3> TAKE n \in 0..N
    <3>1. CASE n = 0 BY <1>7, <3>1 DEF Follows
    <3>2. CASE n # 0
      <4>1. n \in 1..N /\ n - 1 \in 0..N BY <1>2, <3>2
      <4> QED BY <1>4, <1>7, <3>2, <4>1 DEF Follows
    <3> QED BY <3>1, <3>2
  <2> QED BY <1>5, <1>7, <2>1
<1>9. after = Gen(after) BY <1>8
<1> HIDE DEF after
<1>10. after = [n \in 0..N |-> IF n = 0 THEN Begin ELSE Spread(found, after[n - 1])]
  BY <1>5, <1>9
<1>11. after[0] = Begin /\ \A n \in 1..N : after[n] = Spread(found, after[n - 1])
  <2>1. 0 \in 0..N /\ \A n \in 1..N : n \in 0..N /\ n # 0 BY <1>2
  <2> QED BY <1>10, <2>1
<1> DEFINE Holds == {n \in 0..N : after[n] \in F}
<1>12. 0..N \subseteq Holds
  <2>1. 0 \in Holds
    <3>1. 0 \in 0..N BY <1>2
    <3> QED BY <1>6, <1>11, <3>1
  <2>2. \A n \in 1..N : n - 1 \in Holds => n \in Holds BY <1>2, <1>3, <1>11
  <2> HIDE DEF Holds
  <2> QED BY <1>2, <2>1, <2>2, Upward
<1>13. after \in [0..N -> F] BY <1>10, <1>12
<1> QED BY <1>1, <1>2, <1>11, <1>13 DEF SpreadThrough, Begin, F

(* Whether a kind reaches a rule depends on the rules it has reached; each *)
(* round that adds a rule is one of as many as there are rules. *)
Having(kinds, k) == {x \in Rules : k \in kinds[x]}

LEMMA SpreadHaving ==
    ASSUME NEW V, NEW found, Referenced(found, V),
           NEW one \in [Rules -> SUBSET V], NEW two \in [Rules -> SUBSET V], NEW k,
           Having(one, k) = Having(two, k)
    PROVE  Having(Spread(found, one), k) = Having(Spread(found, two), k)
<1>1. ASSUME NEW flow \in FlowForm(V) PROVE k \in Flows(one, flow) <=> k \in Flows(two, flow)
  <2>1. CASE flow.rule \in Rules
    <3>1. k \in one[flow.rule] <=> k \in two[flow.rule] BY <2>1 DEF Having
    <3> QED BY <2>1, <3>1, FlowsForm
  <2>2. CASE flow.rule = 0
    <3>1. Flows(one, flow) = Flows(two, flow) BY <2>2, FlowsForm
    <3> QED BY <3>1
  <2> QED BY <2>1, <2>2, FlowsForm
<1>2. ASSUME NEW x \in Rules PROVE k \in Spread(found, one)[x] <=> k \in Spread(found, two)[x]
  <2>1. \A f \in Referring(found, x) : f.flow \in FlowForm(V)
    BY DEF Referring, Referenced
  <2>2. k \in one[x] <=> k \in two[x] BY DEF Having
  <2>3. (\E f \in Referring(found, x) : k \in Flows(one, f.flow))
            <=> \E f \in Referring(found, x) : k \in Flows(two, f.flow)
    BY <1>1, <2>1
  <2> QED BY <2>2, <2>3 DEF Spread
<1> QED BY <1>2 DEF Having

LEMMA RuleKindsClosed ==
    ASSUME NEW V, NEW found, Referenced(found, V), \A x \in Rules : Scope(x) \in V
    PROVE  /\ RuleKinds(found) \in [Rules -> SUBSET V]
           /\ \A x \in Rules : Scope(x) \in RuleKinds(found)[x]
           /\ Spread(found, RuleKinds(found)) = RuleKinds(found)
<1>1. PICK N : N = Cardinality(Rules) OBVIOUS
<1>2. N \in Nat /\ IsFiniteSet(Rules) BY <1>1, NamesAssumption, FS_CardinalityType
<1>3. PICK f : SpreadThrough(found, V, N, f) BY <1>1, SpreadRounds
<1>4. \A n \in 0..N : f[n] \in [Rules -> SUBSET V] BY <1>3 DEF SpreadThrough
<1>5. 0 \in 0..N /\ N \in 0..N BY <1>2
<1>6. ASSUME NEW n \in 1..N
      PROVE  /\ n \in 0..N /\ n - 1 \in 0..N /\ f[n] = Spread(found, f[n - 1])
             /\ \A x \in Rules : f[n - 1][x] \subseteq f[n][x]
  <2>1. n \in 0..N /\ n - 1 \in 0..N BY <1>2
  <2>2. f[n] = Spread(found, f[n - 1]) /\ f[n - 1] \in [Rules -> SUBSET V]
    BY <1>3, <1>4, <2>1 DEF SpreadThrough
  <2> QED BY <2>1, <2>2, SpreadForm
<1>7. \A x \in Rules : Scope(x) \in f[N][x]
  <2> SUFFICES ASSUME NEW x \in Rules PROVE Scope(x) \in f[N][x] OBVIOUS
  <2> DEFINE A == {n \in 0..N : Scope(x) \in f[n][x]}
  <2>1. 0 \in A BY <1>3, <1>5 DEF SpreadThrough
  <2>2. ASSUME NEW n \in 1..N, n - 1 \in A PROVE n \in A BY <1>6, <2>2
  <2> HIDE DEF A
  <2>3. N \in A BY <1>2, <1>5, <2>1, <2>2, Upward
  <2> QED BY <2>3 DEF A
<1>8. ASSUME NEW x \in Rules, NEW k, k \in Spread(found, f[N])[x], k \notin f[N][x] PROVE FALSE
  <2> DEFINE H(n) == Having(f[n], k)
             A == {n \in 0..N : Cardinality(H(n)) >= n}
  <2>1. \A n \in 0..N : /\ H(n) \in SUBSET Rules /\ IsFiniteSet(H(n)) /\ Cardinality(H(n)) \in Nat
                        /\ Cardinality(H(n)) <= N
                        /\ Cardinality(H(n)) = N => H(n) = Rules
    <3> TAKE n \in 0..N
    <3>1. H(n) \in SUBSET Rules BY DEF Having
    <3> QED BY <1>1, <1>2, <3>1, FS_Subset, FS_CardinalityType
  <2>2. ASSUME NEW n \in 1..N PROVE H(n - 1) # H(n)
    <3> SUFFICES ASSUME H(n - 1) = H(n) PROVE FALSE OBVIOUS
    <3> DEFINE B == {m \in 0..N : m >= n => H(m - 1) = H(m)}
    <3>1. 0 \in B BY <1>5
    <3>2. ASSUME NEW m \in 1..N, m - 1 \in B PROVE m \in B
      <4>1. m \in 0..N /\ m - 1 \in 0..N /\ m \in Nat /\ n \in Nat BY <1>2
      <4>2. CASE m < n BY <4>1, <4>2
      <4>3. CASE m = n BY <4>1, <4>3
      <4>4. CASE m > n
        <5>1. m - 1 >= n /\ m - 1 \in 1..N BY <4>1, <4>4
        <5>2. PICK l : l = m - 1 OBVIOUS
        <5>3. H(l - 1) = H(l) /\ l \in 1..N BY <3>2, <5>1, <5>2
        <5>4. l - 1 \in 0..N /\ l \in 0..N /\ f[l] = Spread(found, f[l - 1])
          BY <1>6, <5>3
        <5>5. f[m] = Spread(found, f[l]) BY <1>6, <5>2
        <5>6. Having(f[l], k) = Having(f[m], k) BY <1>4, <5>3, <5>4, <5>5, SpreadHaving
        <5> QED BY <4>1, <5>2, <5>6
      <4> QED BY <4>1, <4>2, <4>3, <4>4
    <3> HIDE DEF B
    <3>3. N \in B BY <1>2, <1>5, <3>1, <3>2, Upward
    <3>4. N \in 1..N /\ N >= n BY <1>2
    <3>5. H(N - 1) = H(N) BY <3>3, <3>4 DEF B
    <3>6. N - 1 \in 0..N /\ f[N] = Spread(found, f[N - 1]) BY <1>6, <3>4
    <3>7. Having(f[N], k) = Having(Spread(found, f[N]), k)
      BY <1>4, <1>5, <3>5, <3>6, SpreadHaving
    <3> QED BY <1>8, <3>7 DEF Having
  <2>3. 0 \in A BY <1>5, <2>1
  <2>4. ASSUME NEW n \in 1..N, n - 1 \in A PROVE n \in A
    <3>1. n \in 0..N /\ n - 1 \in 0..N /\ n \in Nat BY <1>2, <1>6
    <3>2. PICK P, Q : P = H(n - 1) /\ Q = H(n) OBVIOUS
    <3>3. P \subseteq Q /\ P # Q BY <1>6, <2>2, <3>2 DEF Having
    <3>4. IsFiniteSet(Q) /\ Cardinality(P) \in Nat /\ Cardinality(Q) \in Nat /\ Cardinality(P) >= n - 1
      BY <2>1, <2>4, <3>1, <3>2
    <3>5. P \in SUBSET Q BY <3>3
    <3>6. Cardinality(P) <= Cardinality(Q) /\ (Cardinality(P) = Cardinality(Q) => P = Q)
      BY <3>4, <3>5, FS_Subset
    <3>7. Cardinality(Q) >= n BY <3>1, <3>3, <3>4, <3>6
    <3> QED BY <3>1, <3>2, <3>7
  <2> HIDE DEF A
  <2>5. N \in A BY <1>2, <1>5, <2>3, <2>4, Upward
  <2>6. Cardinality(H(N)) >= N BY <2>5 DEF A
  <2> HIDE DEF H
  <2>7. Cardinality(H(N)) = N BY <1>2, <1>5, <2>1, <2>6
  <2>8. H(N) = Rules BY <1>5, <2>1, <2>7
  <2> QED BY <1>8, <2>8 DEF H, Having
<1>9. Spread(found, f[N]) = f[N]
  <2>1. f[N] \in [Rules -> SUBSET V] /\ Spread(found, f[N]) \in [Rules -> SUBSET V]
        /\ \A x \in Rules : f[N][x] \subseteq Spread(found, f[N])[x]
    BY <1>4, <1>5, SpreadForm
  <2>2. \A x \in Rules : Spread(found, f[N])[x] \subseteq f[N][x] BY <1>8
  <2>3. \A x \in Rules : Spread(found, f[N])[x] = f[N][x] BY <2>1, <2>2
  <2> QED BY <2>1, <2>3
<1> QED BY <1>3, <1>4, <1>5, <1>7, <1>9 DEF SpreadThrough

(* The expressions the interface is collected from, with what is passed *)
(* down to them. Bodies lie deeper the later their nodes are numbered, so *)
(* as many rounds as there are nodes find all of them. *)
Held == UNION {Elements(slot_kinds[r]) : r \in Relations}
RoutingForm == [relation : Derived \cup {0}, variables : Seq(Held \cup {NoKind})]
ExpressionForm ==
    [node : 1..Len(program.nodes), flow : FlowForm(Held), routing : RoutingForm]

LEMMA SlotKindForm ==
    ASSUME Typing, NEW r, NEW slot \in Nat
    PROVE  SlotKind(r, slot) \in Held \cup {NoKind}
<1>1. PICK kinds : kinds = Kinds(r) OBVIOUS
<1>2. Len(kinds) \in Nat /\ (slot < Len(kinds) => kinds[slot + 1] \in Held)
  <2>1. CASE r \in Relations
    <3>1. kinds = slot_kinds[r] /\ kinds \in Seq(EntityKinds)
      BY <1>1, <2>1 DEF Kinds, Declared, Typing, SlotKindsRight
    <3>2. slot < Len(kinds) => kinds[slot + 1] \in Elements(kinds) BY <3>1 DEF Elements
    <3> QED BY <2>1, <3>1, <3>2 DEF Held
  <2>2. CASE r \notin Relations
    <3>1. kinds = <<>> BY <1>1, <2>2 DEF Kinds, Declared, Unknown
    <3> QED BY <3>1
  <2> QED BY <2>1, <2>2
<1> QED BY <1>1, <1>2 DEF SlotKind, At

LEMMA KindFlow ==
    ASSUME NEW V, NEW k \in V \cup {NoKind}
    PROVE  OfKind(k) \in FlowForm(V)
BY DEF FlowForm

LEMMA TraversedForm ==
    ASSUME Typing, NEW n \in NodeForm(program)
    PROVE  TraversedSlots(n)[1] \in Nat /\ TraversedSlots(n)[2] \in Nat
<1>1. CASE IsDerived(n.relation)
  <2>1. Schema(n.relation).current \in Nat /\ Schema(n.relation).related \in Nat
    BY <1>1, RelationForm DEF IsDerived, Derived, Schema, Typing
  <2> QED BY <1>1, <2>1 DEF TraversedSlots, Own
<1>2. CASE ~IsDerived(n.relation)
  <2>1. n.current \in Nat /\ n.related \in Nat BY DEF NodeForm
  <2> QED BY <1>2, <2>1 DEF TraversedSlots
<1> QED BY <1>1, <1>2

LEMMA RelatedFlowForm ==
    ASSUME Typing, NEW n \in NodeForm(program)
    PROVE  RelatedFlow(n) \in FlowForm(Held)
<1>1. SlotKind(n.relation, TraversedSlots(n)[2]) \in Held \cup {NoKind}
  BY TraversedForm, SlotKindForm
<1> QED BY <1>1, KindFlow DEF RelatedFlow

LEMMA InsideForm ==
    ASSUME Typing, NEW e \in ExpressionForm, NEW d \in Inside(e)
    PROVE  d \in ExpressionForm /\ d.node > e.node
<1>1. PICK i, n, flow, routing :
          /\ i = e.node /\ n = program.nodes[i] /\ flow = e.flow /\ routing = e.routing
          /\ i \in 1..Len(program.nodes) /\ flow \in FlowForm(Held) /\ routing \in RoutingForm
  BY DEF ExpressionForm
<1>2. /\ n \in NodeForm(program) /\ Elements(n.body) \subseteq 1..Len(program.nodes)
      /\ \A j \in Elements(n.body) : j > i
  BY <1>1, NodeFacts DEF Typing
<1>3. ASSUME NEW f \in FlowForm(Held), NEW g \in RoutingForm, d \in Body(e, f, g)
      PROVE  d \in ExpressionForm /\ d.node > e.node
  <2>1. PICK j \in Elements(n.body) : d = Expression(j, f, g) BY <1>1, <1>3 DEF Body
  <2>2. j \in 1..Len(program.nodes) /\ j > i BY <1>2
  <2> QED BY <1>1, <2>1, <2>2 DEF Expression, ExpressionForm
<1>4. Unrouted \in RoutingForm BY DEF Unrouted, RoutingForm
<1>5. CASE n.op \in {"aggregate", "only"}
  <2>1. d \in Body(e, RelatedFlow(n), Unrouted) BY <1>1, <1>5 DEF Inside
  <2> QED BY <1>2, <1>3, <1>4, <2>1, RelatedFlowForm
<1>6. CASE n.op = "unbound"
  <2>1. d \in Body(e, flow, routing) BY <1>1, <1>6 DEF Inside
  <2> QED BY <1>1, <1>3, <2>1
<1>7. CASE n.op = "exists"
  <2>1. PICK k, more : /\ k = SlotKind(n.relation, n.slot)
                       /\ more = [routing EXCEPT !.variables = Append(@, k)]
    OBVIOUS
  <2>2. d \in Body(e, flow, more) BY <1>1, <1>7, <2>1 DEF Inside
  <2>3. k \in Held \cup {NoKind}
    <3>1. n.slot \in Nat BY <1>2 DEF NodeForm
    <3> QED BY <2>1, <3>1, SlotKindForm
  <2>4. more \in RoutingForm
    <3>1. routing.variables \in Seq(Held \cup {NoKind}) BY <1>1 DEF RoutingForm
    <3>2. Append(routing.variables, k) \in Seq(Held \cup {NoKind}) BY <2>3, <3>1
    <3> QED BY <1>1, <2>1, <3>2 DEF RoutingForm
  <2> QED BY <1>1, <1>3, <2>2, <2>4
<1>8. CASE n.op \notin {"aggregate", "only", "unbound", "exists"}
  BY <1>1, <1>8 DEF Inside
<1> QED BY <1>5, <1>6, <1>7, <1>8

Deeper(E) == UNION {Inside(e) : e \in E}
DeepenThrough(body, flow, routing, N, f) ==
    /\ f \in [0..N -> SUBSET ExpressionForm]
    /\ f[0] = {Expression(i, flow, routing) : i \in Elements(body)}
    /\ \A n \in 1..N : f[n] = Deeper(f[n - 1])
    /\ Expressions(body, flow, routing) = UNION {f[d] : d \in 0..N}

LEMMA DeepenRounds ==
    ASSUME Typing, NEW body \in Bodies(program), NEW flow \in FlowForm(Held), NEW routing \in RoutingForm,
           NEW N, N = Len(program.nodes)
    PROVE  \E f : DeepenThrough(body, flow, routing, N, f)
<1> DEFINE Begin == {Expression(i, flow, routing) : i \in Elements(body)}
           Gen(f) == [d \in 0..Len(program.nodes) |->
               IF d = 0 THEN {Expression(i, flow, routing) : i \in Elements(body)}
               ELSE UNION {Inside(e) : e \in f[d - 1]}]
           within == CHOOSE f : f = Gen(f)
           F == SUBSET ExpressionForm
           h == [x \in (1..N) \X F |-> Deeper(x[2])]
<1>1. Expressions(body, flow, routing) = UNION {within[d] : d \in 0..N}
  BY DEF Expressions
<1>2. N \in Nat BY NodeFacts DEF Typing
<1>3. \A E \in F : Deeper(E) \in F BY InsideForm DEF Deeper
<1>4. h \in [(1..N) \X F -> F] /\ \A n \in 1..N : \A E \in F : h[<<n, E>>] = Deeper(E)
  BY <1>3
<1>5. \A f : Gen(f) = [n \in 0..N |-> IF n = 0 THEN Begin ELSE Deeper(f[n - 1])]
  BY DEF Deeper
<1>6. Begin \in F
  <2>1. \A i \in Elements(body) : i \in 1..Len(program.nodes) BY DEF Elements, Bodies
  <2>2. \A i \in Elements(body) : Expression(i, flow, routing) \in ExpressionForm
    BY <2>1 DEF Expression, ExpressionForm
  <2> QED BY <2>2
<1> HIDE DEF h, Gen, Begin, F
<1>7. PICK f \in [0..N -> F] : Follows(N, Begin, h, f) BY <1>2, <1>4, <1>6, Iterating
<1>8. f = Gen(f)
  <2>1. \A n \in 0..N : f[n] = IF n = 0 THEN Begin ELSE Deeper(f[n - 1])
    <3> TAKE n \in 0..N
    <3>1. CASE n = 0 BY <1>7, <3>1 DEF Follows
    <3>2. CASE n # 0
      <4>1. n \in 1..N /\ n - 1 \in 0..N BY <1>2, <3>2
      <4> QED BY <1>4, <1>7, <3>2, <4>1 DEF Follows
    <3> QED BY <3>1, <3>2
  <2> QED BY <1>5, <1>7, <2>1
<1>9. within = Gen(within) BY <1>8
<1> HIDE DEF within
<1>10. within = [n \in 0..N |-> IF n = 0 THEN Begin ELSE Deeper(within[n - 1])]
  BY <1>5, <1>9
<1>11. within[0] = Begin /\ \A n \in 1..N : within[n] = Deeper(within[n - 1])
  <2>1. 0 \in 0..N /\ \A n \in 1..N : n \in 0..N /\ n # 0 BY <1>2
  <2> QED BY <1>10, <2>1
<1> DEFINE Holds == {n \in 0..N : within[n] \in F}
<1>12. 0..N \subseteq Holds
  <2>1. 0 \in Holds
    <3>1. 0 \in 0..N BY <1>2
    <3> QED BY <1>6, <1>11, <3>1
  <2>2. \A n \in 1..N : n - 1 \in Holds => n \in Holds BY <1>2, <1>3, <1>11
  <2> HIDE DEF Holds
  <2> QED BY <1>2, <2>1, <2>2, Upward
<1>13. within \in [0..N -> F] BY <1>10, <1>12
<1> QED BY <1>1, <1>11, <1>13 DEF DeepenThrough, Begin, F

LEMMA ExpressionsClosed ==
    ASSUME Typing, NEW body \in Bodies(program), NEW flow \in FlowForm(Held), NEW routing \in RoutingForm
    PROVE  /\ Expressions(body, flow, routing) \subseteq ExpressionForm
           /\ \A i \in Elements(body) : Expression(i, flow, routing) \in Expressions(body, flow, routing)
           /\ \A e \in Expressions(body, flow, routing) : Inside(e) \subseteq Expressions(body, flow, routing)
<1>1. PICK N : N = Len(program.nodes) OBVIOUS
<1>2. N \in Nat BY <1>1, NodeFacts DEF Typing
<1>3. PICK f : DeepenThrough(body, flow, routing, N, f) BY <1>1, DeepenRounds
<1>4. PICK all : all = Expressions(body, flow, routing) OBVIOUS
<1>5. /\ f \in [0..N -> SUBSET ExpressionForm]
      /\ f[0] = {Expression(i, flow, routing) : i \in Elements(body)}
      /\ \A n \in 1..N : f[n] = Deeper(f[n - 1])
      /\ all = UNION {f[d] : d \in 0..N}
  BY <1>3, <1>4 DEF DeepenThrough
<1>6. 0 \in 0..N BY <1>2
<1> DEFINE Deep == {d \in 0..N : \A e \in f[d] : e.node > d}
<1>7. \A e \in ExpressionForm : e.node \in 1..N BY <1>1 DEF ExpressionForm
<1>8. 0..N \subseteq Deep
  <2>1. 0 \in Deep
    <3>1. \A e \in f[0] : e.node > 0
      <4>1. f[0] \subseteq ExpressionForm BY <1>5, <1>6
      <4> QED BY <1>7, <4>1
    <3> QED BY <1>6, <3>1
  <2>2. ASSUME NEW n \in 1..N, n - 1 \in Deep PROVE n \in Deep
    <3>1. n - 1 \in 0..N /\ n \in 0..N BY <1>2
    <3>2. f[n - 1] \subseteq ExpressionForm BY <1>5, <3>1
    <3>3. ASSUME NEW d \in f[n] PROVE d.node > n
      <4>1. PICK e \in f[n - 1] : d \in Inside(e) BY <1>5, <3>3 DEF Deeper
      <4>2. e \in ExpressionForm BY <3>2
      <4>3. d \in ExpressionForm /\ d.node > e.node BY <4>1, <4>2, InsideForm
      <4>4. e.node > n - 1 BY <2>2
      <4>5. e.node \in Nat /\ d.node \in Nat /\ n \in Nat BY <1>2, <1>7, <4>2, <4>3
      <4> QED BY <4>3, <4>4, <4>5
    <3> QED BY <3>1, <3>3
  <2> HIDE DEF Deep
  <2> QED BY <1>2, <2>1, <2>2, Upward
<1>9. all \subseteq ExpressionForm BY <1>5
<1>10. \A i \in Elements(body) : Expression(i, flow, routing) \in all BY <1>5, <1>6
<1>11. ASSUME NEW e \in all PROVE Inside(e) \subseteq all
  <2>1. PICK d \in 0..N : e \in f[d] BY <1>5
  <2>2. e.node > d /\ e.node \in 1..N BY <1>7, <1>8, <1>9, <2>1
  <2>3. PICK m : m = d + 1 OBVIOUS
  <2>4. m \in 1..N /\ m - 1 = d /\ m \in 0..N BY <1>2, <2>2, <2>3
  <2>5. Inside(e) \subseteq f[m] BY <1>5, <2>1, <2>4 DEF Deeper
  <2> QED BY <1>5, <2>4, <2>5
<1> QED BY <1>4, <1>9, <1>10, <1>11

-----------------------------------------------------------------------------
(* What is collected from an expression, and from all of them. *)
LEMMA ReadFlowForm ==
    ASSUME Typing, NEW e \in ExpressionForm, NEW term
    PROVE  ReadFlow(e, term) \in FlowForm(Held)
<1>1. PICK r, bound, flow : r = e.routing.relation /\ bound = e.routing.variables /\ flow = e.flow
  OBVIOUS
<1>2. r \in Derived \cup {0} /\ bound \in Seq(Held \cup {NoKind}) /\ flow \in FlowForm(Held)
  BY <1>1 DEF ExpressionForm, RoutingForm
<1>3. CASE r = 0 BY <1>1, <1>2, <1>3 DEF ReadFlow
<1>4. CASE r # 0
  <2>1. r \in Derived BY <1>2, <1>4
  <2>2. Schema(r).current \in Nat /\ Schema(r).related \in Nat
    BY <2>1, OwnForm DEF IsDerived
  <2>3. SlotKind(r, Schema(r).current) \in Held \cup {NoKind} /\ SlotKind(r, Schema(r).related) \in Held \cup {NoKind}
    BY <2>2, SlotKindForm
  <2>4. term \in 0..(Len(bound) - 1) => bound[Len(bound) - term] \in Held \cup {NoKind}
    BY <1>2
  <2>5. PICK k : k = CASE term = Anchor -> SlotKind(r, Schema(r).current)
                       [] term = Candidate -> SlotKind(r, Schema(r).related)
                       [] term \in 0..(Len(bound) - 1) -> bound[Len(bound) - term]
                       [] OTHER -> NoKind
    OBVIOUS
  <2>6. k \in Held \cup {NoKind}
    <3>1. CASE term = Anchor BY <2>3, <2>5, <3>1 DEF Anchor, Candidate
    <3>2. CASE term = Candidate BY <2>3, <2>5, <3>2 DEF Anchor, Candidate
    <3>3. CASE term \notin {Anchor, Candidate} /\ term \in 0..(Len(bound) - 1)
      BY <2>4, <2>5, <3>3
    <3>4. CASE term \notin {Anchor, Candidate} /\ term \notin 0..(Len(bound) - 1)
      BY <2>5, <3>4
    <3> QED BY <3>1, <3>2, <3>3, <3>4
  <2>7. ReadFlow(e, term) = OfKind(k) BY <1>1, <1>4, <2>5 DEF ReadFlow, TermFlow
  <2> QED BY <2>6, <2>7, KindFlow
<1> QED BY <1>3, <1>4

LEMMA ReferenceFlowForm ==
    ASSUME Typing, NEW x, NEW flow \in FlowForm(Held), NEW routing \in RoutingForm
    PROVE  ReferenceFlow(x, flow, routing) \in FlowForm(Held)
<1>1. PICK r : r = routing.relation OBVIOUS
<1>2. CASE r # 0 /\ RoutesToCurrent(r, Entity(x))
  <2>1. r \in Derived BY <1>1, <1>2 DEF RoutingForm
  <2>2. SlotKind(r, Schema(r).current) \in Held \cup {NoKind}
    BY <2>1, OwnForm, SlotKindForm DEF IsDerived
  <2> QED BY <1>1, <1>2, <2>2, KindFlow DEF ReferenceFlow
<1>3. CASE ~(r # 0 /\ RoutesToCurrent(r, Entity(x))) BY <1>1, <1>3 DEF ReferenceFlow
<1> QED BY <1>2, <1>3

(* Flows are those of a rule or of a kind that some slot holds. *)
Flowing(f) == f.what \in {"site", "reference"} => f.flow \in FlowForm(Held)

LEMMA FlowingForms ==
    /\ \A r, s : Flowing(Lookup(r, s))
    /\ \A i : \A flow \in FlowForm(Held) : Flowing(Site(i, flow))
    /\ \A x : \A flow \in FlowForm(Held) : Flowing(Reference(x, flow))
    /\ \A x : \A flow \in FlowForm(Held) : \A f \in References(x, flow) : Flowing(f)
BY DEF Flowing, Lookup, Site, Reference, References

LEMMA CollectsForm ==
    ASSUME Typing, NEW e \in ExpressionForm, NEW f \in Collects(e)
    PROVE  Flowing(f)
<1>1. PICK n, flow, routing, related, read :
          /\ n = program.nodes[e.node] /\ flow = e.flow /\ routing = e.routing
          /\ related = RelatedFlow(n) /\ read = ReadFlow(e, n.terms[1])
  OBVIOUS
<1>2. flow \in FlowForm(Held) /\ routing \in RoutingForm /\ n \in NodeForm(program)
  <2>1. e.node \in 1..Len(program.nodes) BY DEF ExpressionForm
  <2> QED BY <1>1, <2>1, NodeFacts DEF Typing, ExpressionForm
<1>3. related \in FlowForm(Held) /\ read \in FlowForm(Held)
  BY <1>1, <1>2, RelatedFlowForm, ReadFlowForm
<1>4. ReferenceFlow(n.value, flow, routing) \in FlowForm(Held)
  BY <1>2, ReferenceFlowForm
<1>5. CASE n.op \in {"aggregate", "only"}
  <2>1. f = Lookup(n.relation, n.current) \/ f = Site(e.node, related) \/ f \in References(n.value, related)
    BY <1>1, <1>5 DEF Collects
  <2> QED BY <1>3, <2>1, FlowingForms
<1>6. CASE n.op = "rule"
  <2>1. f = Site(e.node, flow) \/ f = Reference(n.value, ReferenceFlow(n.value, flow, routing))
    BY <1>1, <1>6 DEF Collects
  <2> QED BY <1>2, <1>4, <2>1, FlowingForms
<1>7. CASE n.op = "read"
  <2>1. f = Site(e.node, read) \/ f \in References(n.value, read)
    BY <1>1, <1>7 DEF Collects
  <2> QED BY <1>3, <2>1, FlowingForms
<1>8. CASE n.op \in {"member", "atom", "exists"}
  <2>1. \E r, s : f = Lookup(r, s) BY <1>1, <1>8 DEF Collects, TermLookups
  <2> QED BY <2>1, FlowingForms
<1>9. CASE n.op = "unbound"
  <2>1. f = Site(e.node, flow) BY <1>1, <1>9 DEF Collects
  <2> QED BY <1>2, <2>1, FlowingForms
<1>10. CASE n.op \notin {"aggregate", "only", "rule", "read", "member", "atom", "exists", "unbound"}
  BY <1>1, <1>10 DEF Collects
<1> QED BY <1>5, <1>6, <1>7, <1>8, <1>9, <1>10

PredicateFlow(r) == OfKind(SlotKind(r, Schema(r).related))

LEMMA CollectorsClosed ==
    ASSUME Typing
    PROVE  /\ Collectors \subseteq ExpressionForm
           /\ \A e \in Collectors : Inside(e) \subseteq Collectors
           /\ \A x \in Rules : \A i \in Elements(Formulas(x)) : Expression(i, OfRule(x), Unrouted) \in Collectors
           /\ \A r \in Derived : \A i \in Elements(Schema(r).predicate) :
                  Expression(i, PredicateFlow(r), RoutedBy(r)) \in Collectors
<1> DEFINE ofRule(x) == Expressions(Formulas(x), OfRule(x), Unrouted)
           ofRelation(r) == Expressions(Schema(r).predicate, PredicateFlow(r), RoutedBy(r))
<1>1. Collectors = (UNION {ofRule(x) : x \in Rules}) \cup UNION {ofRelation(r) : r \in Derived}
  BY DEF Collectors, PredicateFlow
<1>2. ASSUME NEW x \in Rules
      PROVE  /\ ofRule(x) \subseteq ExpressionForm
             /\ \A i \in Elements(Formulas(x)) : Expression(i, OfRule(x), Unrouted) \in ofRule(x)
             /\ \A e \in ofRule(x) : Inside(e) \subseteq ofRule(x)
  <2>1. Formulas(x) \in Bodies(program) BY RuleForms DEF Typing, Formulas
  <2>2. OfRule(x) \in FlowForm(Held) /\ Unrouted \in RoutingForm
    BY DEF FlowForm, Unrouted, RoutingForm
  <2> QED BY <2>1, <2>2, ExpressionsClosed
<1>3. ASSUME NEW r \in Derived
      PROVE  /\ ofRelation(r) \subseteq ExpressionForm
             /\ \A i \in Elements(Schema(r).predicate) :
                    Expression(i, PredicateFlow(r), RoutedBy(r)) \in ofRelation(r)
             /\ \A e \in ofRelation(r) : Inside(e) \subseteq ofRelation(r)
  <2>1. Schema(r).predicate \in Bodies(program) /\ Schema(r).related \in Nat
    BY OwnForm DEF IsDerived
  <2>2. PredicateFlow(r) \in FlowForm(Held)
    BY <2>1, SlotKindForm, KindFlow DEF PredicateFlow
  <2>3. RoutedBy(r) \in RoutingForm BY DEF RoutedBy, RoutingForm
  <2> QED BY <2>1, <2>2, <2>3, ExpressionsClosed
<1> HIDE DEF ofRule, ofRelation
<1> QED BY <1>1, <1>2, <1>3

LEMMA Collected ==
    ASSUME Typing
    PROVE  /\ \A e \in Collectors : Collects(e) \subseteq Collection
           /\ \A r \in Derived : OfSources(r) \subseteq Collection
           /\ \A f \in Collection : Flowing(f)
<1>1. \A e \in Collectors : Collects(e) \subseteq Collection BY DEF Collection
<1>2. \A r \in Derived : OfSources(r) \subseteq Collection BY DEF Collection
<1>3. ASSUME NEW f \in Collection PROVE Flowing(f)
  <2>1. CASE \E r \in Derived : f \in OfSources(r)
    <3>1. \E r, s : f = Lookup(r, s) BY <2>1 DEF OfSources
    <3> QED BY <3>1, FlowingForms
  <2>2. CASE \E e \in Collectors : f \in Collects(e)
    BY <2>2, CollectorsClosed, CollectsForm
  <2> QED BY <2>1, <2>2 DEF Collection
<1> QED BY <1>1, <1>2, <1>3

(* The kinds each rule is evaluated on. *)
KindsOf == RuleKinds(Collection)
Ids == Held \cup {Scope(x) : x \in Rules}

LEMMA KindsClosed ==
    ASSUME Typing
    PROVE  /\ KindsOf \in [Rules -> SUBSET Ids]
           /\ \A x \in Rules : Scope(x) \in KindsOf[x]
           /\ \A f \in Collection : f.what \in {"site", "reference"} => Flows(KindsOf, f.flow) \subseteq Ids
           /\ \A x \in Rules : \A flow : Reference(x, flow) \in Collection =>
                  Flows(KindsOf, flow) \subseteq KindsOf[x]
<1>1. FlowForm(Held) \subseteq FlowForm(Ids) BY DEF FlowForm, Ids
<1>2. Referenced(Collection, Ids) BY <1>1, Collected DEF Referenced, Flowing
<1>3. \A x \in Rules : Scope(x) \in Ids BY DEF Ids
<1>4. PICK found, kinds, V : found = Collection /\ kinds = KindsOf /\ V = Ids /\ kinds = RuleKinds(found)
  BY DEF KindsOf
<1>5. /\ kinds \in [Rules -> SUBSET V]
      /\ \A x \in Rules : Scope(x) \in kinds[x]
      /\ Spread(found, kinds) = kinds
  <2>1. Referenced(found, V) /\ \A x \in Rules : Scope(x) \in V BY <1>2, <1>3, <1>4
  <2> QED BY ONLY <1>4, <2>1, RuleKindsClosed
<1>6. ASSUME NEW f \in found, f.what \in {"site", "reference"} PROVE Flows(kinds, f.flow) \subseteq V
  <2>1. f.flow \in FlowForm(V) BY <1>1, <1>4, <1>6, Collected DEF Flowing
  <2> QED BY <1>5, <2>1, FlowsForm
<1>7. ASSUME NEW x \in Rules, NEW flow, Reference(x, flow) \in found PROVE Flows(kinds, flow) \subseteq kinds[x]
  <2>1. PICK f : f = Reference(x, flow) OBVIOUS
  <2>2. f \in Referring(found, x) /\ f.flow = flow
    BY <1>7, <2>1 DEF Reference, Referring
  <2>3. kinds[x] = kinds[x] \cup UNION {Flows(kinds, g.flow) : g \in Referring(found, x)}
    <3>1. Spread(found, kinds)[x] = kinds[x] \cup UNION {Flows(kinds, g.flow) : g \in Referring(found, x)}
      BY DEF Spread
    <3> QED BY <1>5, <3>1
  <2> QED BY <2>2, <2>3
<1> QED BY <1>4, <1>5, <1>6, <1>7

(* What was passed down to the body evaluated; and what is announced of *)
(* the place evaluation has come to. *)
Passed(h, flow, routing) ==
    /\ flow \in FlowForm(Held) /\ routing \in RoutingForm
    /\ \A i \in Elements(h.body) : Expression(i, flow, routing) \in Collectors
    /\ h.id \in Flows(KindsOf, flow)
    /\ routing.relation = h.relation
    /\ h.relation # 0 => routing.variables = h.variables
    /\ h.relation = 0 => TermUses(h.body) = {}

Announces(h) ==
    /\ h.what = "body" => \E flow, routing : Passed(h, flow, routing)
    /\ h.what = "lookup" => Lookup(h.relation, h.slots[1]) \in Collection

LEMMA FlowsTo ==
    /\ \A x \in Rules : Flows(KindsOf, OfRule(x)) = KindsOf[x]
    /\ \A k : k # NoKind => Flows(KindsOf, OfKind(k)) = {k}
<1>1. \A x \in Rules : x # 0 BY NamesAssumption
<1>2. \A x \in Rules : Flows(KindsOf, OfRule(x)) = KindsOf[x]
  <2> TAKE x \in Rules
  <2>1. OfRule(x).rule = x BY DEF OfRule
  <2> QED BY <1>1, <2>1 DEF Flows
<1>3. \A k : k # NoKind => Flows(KindsOf, OfKind(k)) = {k}
  <2> TAKE k
  <2>1. OfKind(k).rule = 0 /\ OfKind(k).kind = k BY DEF OfKind
  <2> QED BY <2>1 DEF Flows
<1> QED BY <1>2, <1>3

LEMMA AnnouncesOther ==
    /\ \A k, l : Announces(Meet(k, l))
    /\ \A r, slots, id : Lookup(r, slots[1]) \in Collection => Announces(LookUp(r, slots, id))
BY DEF Announces, Meet, LookUp

LEMMA BodyAnnounced ==
    ASSUME NEW body, NEW id, NEW relation, NEW current, NEW variables, NEW rule, NEW h,
           h = Evaluating(body, id, relation, current, variables, rule),
           NEW flow \in FlowForm(Held), NEW routing \in RoutingForm,
           \A i \in Elements(body) : Expression(i, flow, routing) \in Collectors,
           id \in Flows(KindsOf, flow), routing.relation = relation,
           relation # 0 => routing.variables = variables,
           relation = 0 => TermUses(body) = {}
    PROVE  Announces(h)
<1>1. /\ h.what = "body" /\ h.body = body /\ h.id = id /\ h.relation = relation
      /\ h.variables = variables
  BY DEF Evaluating
<1>2. Passed(h, flow, routing) BY <1>1 DEF Passed
<1> QED BY <1>1, <1>2 DEF Announces

(* Terms are not used outside predicates. *)
LEMMA NoTerms ==
    ASSUME TermViolations = {}, NEW x \in Rules
    PROVE  TermUses(Formulas(x)) = {}
<1> SUFFICES ASSUME NEW use \in TermUses(Formulas(x)) PROVE FALSE OBVIOUS
<1>1. Fault({"relation_role_outside_scope"}, use.clause, x) \subseteq TermViolations
  BY DEF TermViolations
<1>2. {"relation_role_outside_scope"} = {} BY <1>1, NoFault
<1> QED BY <1>2

LEMMA NoTermsIn == TermUses(<<>>) = {}
<1>1. Elements(<<>>) = {} BY DEF Elements
<1> QED BY <1>1 DEF TermUses

LEMMA ClauseTerms ==
    ASSUME Typing, NEW bindings, TermsRight(here, bindings), here.body \in Bodies(program),
           NEW k \in Elements(here.body), NEW n, n = program.nodes[k], n.relation # 0,
           n.op = "aggregate"
    PROVE  TermUses(n.body) = {}
<1> SUFFICES ASSUME NEW use \in TermUses(n.body) PROVE FALSE OBVIOUS
<1>1. Around(n, use) \in TermUses(here.body) BY TermUsesWithin DEF Typing
<1>2. PICK outer : outer = Below(Around(n, use), bindings) OBVIOUS
<1>3. outer.clause # 0 BY <1>2 DEF Below, Around
<1>4. UseFaults(here.relation, outer) = {} BY <1>1, <1>2 DEF TermsRight
<1>5. Fault({"relation_role_outside_scope"}, outer.clause, here.relation) = {}
  BY <1>3, <1>4 DEF UseFaults
<1>6. {"relation_role_outside_scope"} = {} BY <1>5, NoFault
<1> QED BY <1>6

LEMMA RunAnnounced ==
    ASSUME Typing, TermViolations = {}, NEW x \in Rules, NEW id \in KindsOf[x]
    PROVE  Announces(RunRule(x, id))
<1>1. PICK body, flow, routing, h :
          /\ body = Formulas(x) /\ flow = OfRule(x) /\ routing = Unrouted
          /\ h = Evaluating(body, id, 0, NoKind, <<>>, x)
  OBVIOUS
<1>2. h = RunRule(x, id) BY <1>1 DEF RunRule, Formulas
<1>3. flow \in FlowForm(Held) /\ routing \in RoutingForm /\ routing.relation = 0
  BY <1>1 DEF FlowForm, Unrouted, RoutingForm
<1>4. \A i \in Elements(body) : Expression(i, flow, routing) \in Collectors
  BY <1>1, CollectorsClosed
<1>5. id \in Flows(KindsOf, flow) BY <1>1, FlowsTo
<1>6. TermUses(body) = {} BY <1>1, NoTerms
<1>7. Announces(h) BY ONLY <1>1, <1>3, <1>4, <1>5, <1>6, BodyAnnounced
<1> QED BY <1>2, <1>7

LEMMA RuleReadAnnounced ==
    ASSUME Typing, TermViolations = {}, NEW x \in Rules, NEW flow, Reference(x, flow) \in Collection,
           NEW id \in Flows(KindsOf, flow), NEW g \in RuleRead(x, id)
    PROVE  Announces(g)
<1>1. id \in KindsOf[x] BY KindsClosed
<1>2. g = RunRule(x, id) \/ \E k : g = Meet(id, k) BY DEF RuleRead
<1> QED BY <1>1, <1>2, RunAnnounced, AnnouncesOther

(* An aggregation in order is looked up by its own slots, and its clause *)
(* and value run on the kind announced. *)
LEMMA Undiverted ==
    ASSUME Typing, NEW n \in NodeForm(program), NEW entity, AggregateCodes(n, entity) = {}
    PROVE  TraversedSlots(n)[1] = n.current
<1>1. PICK r, kinds, slots : r = n.relation /\ kinds = TypedSlots(r) /\ slots = TraversedSlots(n)
  OBVIOUS
<1> DEFINE inside == kinds # Unknown /\ InRange(kinds, slots)
           two == Code("derived_relation_slots_diverge", Diverges(r, <<n.current, n.related>>))
           three == Code("relation_slot_out_of_range", kinds # Unknown /\ ~InRange(kinds, slots))
           four == Code("relation_current_slot_entity_mismatch", inside /\ KeyedWrong(n, entity, kinds))
           five == Code("relation_related_slot_entity_mismatch", inside /\ Strays(n, kinds) # {})
           six == Code("only_related_shape",
                       n.op = "only" /\ \/ n.current = n.related \/ n.current > 1 \/ n.related > 1
                                        \/ n.value # 0 \/ (Declared(r) /\ Schema(r).arity # 2))
<1>2. AggregateCodes(n, entity) = SlotFaults(r) \cup two \cup three \cup four \cup five \cup six
  BY <1>1 DEF AggregateCodes
<1> HIDE DEF two, three, four, five, six
<1>3. two = {} BY <1>2, NoFaults
<1>4. ~Diverges(r, <<n.current, n.related>>)
  <2> HIDE DEF Diverges
  <2> QED BY <1>3, NoCode DEF two
<1>5. CASE IsDerived(r) BY <1>1, <1>4, <1>5 DEF Diverges, TraversedSlots
<1>6. CASE ~IsDerived(r) BY <1>1, <1>6 DEF TraversedSlots
<1> QED BY <1>5, <1>6

LEMMA RelatedIds ==
    ASSUME NEW S, Compiled(S), NEW n \in NodeForm(program), NEW entity, entity # NoKind,
           AggregateCodes(n, entity) = {}, n.relation \in used
    PROVE  /\ Gives(n.relation, TraversedSlots(n)[2]) \in Flows(KindsOf, RelatedFlow(n))
           /\ n.relation \in Relations
<1>0. Typing /\ OrderProofs!Inductive /\ pass = "accepted" /\ Accepted(S)
  BY DEF Compiled
<1>1. PICK r, slots, kinds :
          r = n.relation /\ slots = TraversedSlots(n) /\ kinds = Kinds(r)
  OBVIOUS
<1>2. PICK current \in Nat, related \in Nat :
          /\ SlotFaults(r) = {} /\ slots = <<current, related>>
          /\ current < Len(kinds) /\ related < Len(kinds)
          /\ IsDerived(r) => slots = Own(r)
  BY <1>0, <1>1, AggregateSlots
<1>3. PICK kind : kind = At(kinds, related) OBVIOUS
<1>4. kind # NoKind /\ r \in Relations BY <1>0, <1>1, <1>2, <1>3, SlotSound
<1>5. Gives(r, related) = kind
  <2>1. IsDerived(r) => related = Schema(r).related BY <1>2 DEF Own
  <2> QED BY <1>0, <1>1, <1>2, <1>3, <2>1, GivesKind
<1>6. RelatedFlow(n) = OfKind(kind) BY <1>1, <1>2, <1>3 DEF RelatedFlow, SlotKind
<1> QED BY <1>1, <1>2, <1>4, <1>5, <1>6, FlowsTo

LEMMA AggregateAnnounced ==
    ASSUME NEW S, Compiled(S), NEW e \in Collectors, NEW n \in NodeForm(program), n = program.nodes[e.node],
           n.op \in {"aggregate", "only"}, NEW entity, entity # NoKind,
           AggregateCodes(n, entity) = {}, n.relation \in used, TermUses(n.body) = {},
           NEW g \in AggregateReads(n)
    PROVE  Announces(g)
<1>0. Typing /\ TermViolations = {} BY DEF Compiled, Accepted
<1>1. PICK related, flow, slots :
          /\ related = Gives(n.relation, TraversedSlots(n)[2]) /\ flow = RelatedFlow(n)
          /\ slots = TraversedSlots(n)
  OBVIOUS
<1>2. related \in Flows(KindsOf, flow) /\ flow \in FlowForm(Held) /\ slots[1] = n.current
  BY <1>0, <1>1, RelatedIds, RelatedFlowForm, Undiverted
<1>3. /\ Lookup(n.relation, n.current) \in Collection
      /\ References(n.value, flow) \subseteq Collection
  <2>1. Collects(e) \subseteq Collection BY <1>0, Collected
  <2>2. /\ Lookup(n.relation, n.current) \in Collects(e)
        /\ References(n.value, flow) \subseteq Collects(e)
    BY <1>1 DEF Collects
  <2> QED BY <2>1, <2>2
<1>4. \A i \in Elements(n.body) : Expression(i, flow, Unrouted) \in Collectors
  <2>1. Inside(e) \subseteq Collectors BY <1>0, CollectorsClosed
  <2>2. Inside(e) = {Expression(i, flow, Unrouted) : i \in Elements(n.body)}
    BY <1>1 DEF Inside, Body
  <2> QED BY <2>1, <2>2
<1>5. \/ g = LookUp(n.relation, slots, here.id)
      \/ g = Evaluating(n.body, related, 0, NoKind, <<>>, 0)
      \/ n.value \in Rules /\ g \in RuleRead(n.value, related)
  BY <1>1 DEF AggregateReads
<1>6. CASE g = LookUp(n.relation, slots, here.id) BY <1>2, <1>3, <1>6, AnnouncesOther
<1>7. CASE g = Evaluating(n.body, related, 0, NoKind, <<>>, 0)
  <2>1. PICK routing : routing = Unrouted OBVIOUS
  <2>2. routing \in RoutingForm /\ routing.relation = 0
    BY <2>1 DEF Unrouted, RoutingForm
  <2>3. PICK body, rule, variables, current :
            body = n.body /\ rule = 0 /\ variables = <<>> /\ current = NoKind
    OBVIOUS
  <2>4. /\ g = Evaluating(body, related, 0, current, variables, rule)
        /\ \A i \in Elements(body) : Expression(i, flow, routing) \in Collectors
        /\ TermUses(body) = {}
    BY <1>4, <1>7, <2>1, <2>3
  <2> QED BY ONLY <1>2, <2>2, <2>4, BodyAnnounced
<1>8. CASE n.value \in Rules /\ g \in RuleRead(n.value, related)
  <2>1. PICK x : x = n.value OBVIOUS
  <2>2. Reference(x, flow) \in Collection BY <1>3, <1>8, <2>1 DEF References
  <2> QED BY <1>0, <1>2, <1>8, <2>1, <2>2, RuleReadAnnounced
<1> QED BY <1>5, <1>6, <1>7, <1>8

(* A node of the body evaluated has been collected from. *)
LEMMA PassedTo ==
    ASSUME Typing, here.body \in Bodies(program), NEW flow, NEW routing, Passed(here, flow, routing),
           NEW i \in 1..Len(here.body), NEW k, k = here.body[i], NEW n, n = program.nodes[k]
    PROVE  \E e \in Collectors :
               /\ e = Expression(k, flow, routing) /\ e.node = k /\ e.flow = flow /\ e.routing = routing
               /\ Inside(e) \subseteq Collectors /\ Collects(e) \subseteq Collection
               /\ n \in NodeForm(program) /\ k \in Elements(here.body)
<1>1. k \in Elements(here.body) /\ k \in 1..Len(program.nodes) BY DEF Elements, Bodies
<1>2. PICK e : e = Expression(k, flow, routing) OBVIOUS
<1>3. e \in Collectors /\ e.node = k /\ e.flow = flow /\ e.routing = routing
  BY <1>1, <1>2 DEF Passed, Expression
<1>4. Inside(e) \subseteq Collectors /\ Collects(e) \subseteq Collection
  BY <1>3, CollectorsClosed, Collected
<1>5. n \in NodeForm(program) BY <1>1, NodeFacts DEF Typing
<1> QED BY <1>1, <1>2, <1>3, <1>4, <1>5

LEMMA RuleBodyAnnounced ==
    ASSUME NEW S, Compiled(S), here.what = "body", RuleRight(S, here), Announces(here),
           NEW i \in 1..Len(here.body), NEW g \in ReadsOf(program.nodes[here.body[i]])
    PROVE  Announces(g)
<1>0. Typing /\ OrderProofs!Inductive /\ pass = "accepted" /\ Accepted(S) /\ ProgramForm(program)
      /\ TermViolations = {}
  BY DEF Compiled, Typing, Accepted
<1>1. PICK body, id, rule : body = here.body /\ id = here.id /\ rule = here.rule OBVIOUS
<1>2. here = Evaluating(body, id, 0, NoKind, <<>>, rule) /\ body \in Bodies(program)
  BY <1>1 DEF RuleRight
<1>3. here.relation = 0 BY <1>2 DEF Evaluating
<1>4. PICK citing, entity :
          /\ entity \in EntityKinds /\ Met(body, entity, NoMember, citing, S)
          /\ rule \in Rules => entity = Entity(rule)
  BY <1>1 DEF RuleRight
<1>5. PICK k, n : k = body[i] /\ n = program.nodes[k] OBVIOUS
<1>6. n.op \in {"aggregate", "only"} => n.relation \in used /\ AggregateCodes(n, entity) = {}
  BY <1>1, <1>2, <1>4, <1>5, NodeMet
<1>7. PICK flow, routing : Passed(here, flow, routing) BY DEF Announces
<1>8. PICK e \in Collectors :
          /\ e.node = k /\ e.flow = flow /\ e.routing = routing
          /\ Inside(e) \subseteq Collectors /\ Collects(e) \subseteq Collection
          /\ n \in NodeForm(program) /\ k \in Elements(here.body)
  <2>1. /\ Typing /\ here.body \in Bodies(program) /\ Passed(here, flow, routing)
        /\ i \in 1..Len(here.body) /\ k = here.body[i] /\ n = program.nodes[k]
    BY <1>0, <1>1, <1>2, <1>5, <1>7
  <2>2. \E e \in Collectors :
            /\ e = Expression(k, flow, routing) /\ e.node = k /\ e.flow = flow /\ e.routing = routing
            /\ Inside(e) \subseteq Collectors /\ Collects(e) \subseteq Collection
            /\ n \in NodeForm(program) /\ k \in Elements(here.body)
    BY ONLY <2>1, PassedTo
  <2> QED BY <2>2
<1>9. /\ flow \in FlowForm(Held) /\ routing \in RoutingForm /\ id \in Flows(KindsOf, flow)
      /\ routing.relation = 0 /\ TermUses(body) = {}
  BY <1>1, <1>3, <1>7 DEF Passed
<1>10. TermUses(n.body) = {}
  <2>1. \A use \in TermUses(n.body) : Around(n, use) \in TermUses(body)
    BY <1>0, <1>1, <1>2, <1>5, <1>8, TermUsesWithin
  <2> QED BY <1>9, <2>1
<1>11. CASE n.op = "rule" /\ n.value \in Rules /\ g \in PlainRead(n.value)
  <2>1. PICK x : x = n.value OBVIOUS
  <2>2. Reference(x, flow) \in Collection
    <3>1. ReferenceFlow(x, flow, routing) = flow BY <1>9 DEF ReferenceFlow
    <3>2. Reference(x, ReferenceFlow(x, flow, routing)) \in Collects(e)
      BY <1>5, <1>8, <1>11, <2>1 DEF Collects
    <3> QED BY <1>8, <3>1, <3>2
  <2>3. g = RunRule(x, id) \/ g \in RuleRead(x, id)
    BY <1>1, <1>3, <1>11, <2>1 DEF PlainRead, RoutedId
  <2>4. id \in KindsOf[x] BY <1>0, <1>9, <1>11, <2>1, <2>2, KindsClosed
  <2>5. CASE g = RunRule(x, id) BY <1>0, <1>11, <2>1, <2>4, <2>5, RunAnnounced
  <2>6. CASE g \in RuleRead(x, id)
    BY <1>0, <1>9, <1>11, <2>1, <2>2, <2>6, RuleReadAnnounced
  <2> QED BY <2>3, <2>5, <2>6
<1>12. CASE n.op \in {"aggregate", "only"} /\ g \in AggregateReads(n)
  <2>1. entity # NoKind BY <1>4, ProgramAssumption
  <2> QED BY <1>5, <1>6, <1>8, <1>10, <1>12, <2>1, AggregateAnnounced
<1>13. CASE n.op = "unbound" /\ g = Into(n.body)
  <2>1. PICK inner, variables, relation, current : inner = n.body /\ variables = <<>> /\ relation = 0
                                                  /\ current = NoKind
    OBVIOUS
  <2>2. g = Evaluating(inner, id, relation, current, variables, rule)
    BY <1>2, <1>13, <2>1 DEF Into, Evaluating
  <2>3. \A j \in Elements(inner) : Expression(j, flow, routing) \in Collectors
    <3>1. Inside(e) = {Expression(j, flow, routing) : j \in Elements(inner)}
      BY <1>5, <1>8, <1>13, <2>1 DEF Inside, Body
    <3> QED BY <1>8, <3>1
  <2>4. TermUses(inner) = {} /\ routing.relation = relation BY <1>9, <1>10, <2>1
  <2> QED BY ONLY <1>9, <2>1, <2>2, <2>3, <2>4, BodyAnnounced
<1> QED BY <1>1, <1>3, <1>5, <1>11, <1>12, <1>13, ScopeLost

(* A term is read on the kind announced for it. *)
LEMMA TermAnnounced ==
    ASSUME Typing, NEW r, NEW bindings, Ground(r, bindings), NEW t \in TermForm,
           TermFaults(r, t, bindings) = {}, r # 0,
           NEW e, e.routing.relation = r, e.routing.variables = here.variables
    PROVE  /\ ReadFlow(e, t) = OfKind(TermId(t))
           /\ TermId(t) \in Flows(KindsOf, ReadFlow(e, t))
<1>1. TermId(t) # NoKind BY TermRight DEF Plain
<1>2. InScope(t, bindings)
  <2> DEFINE bare == t \in {Anchor, Candidate} /\ TermKind(r, t, bindings) = NoKind
             two == Code("relation_roles_need_slot_kinds", bare)
  <2>1. TermFaults(r, t, bindings) =
            Fault(Code("relation_variable_out_of_scope", ~InScope(t, bindings)) \cup two, r, r)
    BY DEF TermFaults
  <2> HIDE DEF two
  <2>2. Code("relation_variable_out_of_scope", ~InScope(t, bindings)) = {}
    BY <2>1, FaultParts
  <2> QED BY <2>2, NoCode
<1>3. PICK variables : variables = here.variables OBVIOUS
<1>4. ReadFlow(e, t) = TermFlow(e.routing, t) BY DEF ReadFlow
<1>5. CASE t = Anchor
  <2>1. TermFlow(e.routing, t) = OfKind(SlotKind(r, Schema(r).current)) /\ TermId(t) = here.current
    BY <1>5 DEF TermFlow, TermId, Anchor, Candidate
  <2>2. SlotKind(r, Schema(r).current) = here.current BY DEF Ground, SlotKind
  <2> QED BY <1>1, <1>4, <2>1, <2>2, FlowsTo
<1>6. CASE t = Candidate
  <2>1. TermFlow(e.routing, t) = OfKind(SlotKind(r, Schema(r).related)) /\ TermId(t) = here.id
    BY <1>6 DEF TermFlow, TermId, Anchor, Candidate
  <2>2. SlotKind(r, Schema(r).related) = here.id BY DEF Ground, SlotKind
  <2> QED BY <1>1, <1>4, <2>1, <2>2, FlowsTo
<1>7. CASE t \notin {Anchor, Candidate}
  <2>1. t \in Nat /\ t < Len(bindings) /\ Len(bindings) = Len(variables) /\ Len(bindings) \in Nat
    BY <1>2, <1>3, <1>7 DEF TermForm, InScope, Ground
  <2>2. t \in 0..(Len(variables) - 1) BY <2>1
  <2>3. TermId(t) = variables[Len(variables) - t] BY <1>3, <1>7 DEF TermId
  <2>4. TermFlow(e.routing, t) = OfKind(variables[Len(variables) - t])
    BY <1>3, <1>7, <2>2 DEF TermFlow
  <2> QED BY <1>1, <1>4, <2>3, <2>4, FlowsTo
<1> QED BY <1>5, <1>6, <1>7

(* The lookups of an atom or of an `exists`, its free term aside. *)
LEMMA AtomAnnounced ==
    ASSUME NEW e, NEW n, n = program.nodes[e.node], n.op \in {"atom", "exists"},
           Collects(e) \subseteq Collection, NEW free, NEW g \in AtomReads(n, free)
    PROVE  Announces(g)
<1>1. CASE ~IsDerived(n.relation)
  <2>1. \E k, l : g = Meet(k, l) BY <1>1 DEF AtomReads
  <2> QED BY <2>1, AnnouncesOther
<1>2. CASE IsDerived(n.relation)
  <2>0. Own(n.relation)[1] = Schema(n.relation).current BY DEF Own
  <2>1. PICK slots : slots = Own(n.relation) /\ slots[1] = Schema(n.relation).current
    BY <2>0
  <2>2. \/ \E id : g = LookUp(n.relation, slots, id)
        \/ \E k, l : g = Meet(k, l)
    BY <1>2, <2>1 DEF AtomReads
  <2>3. Lookup(n.relation, slots[1]) \in Collection
    BY <1>2, <2>1 DEF Collects, TermLookups
  <2> QED BY <2>2, <2>3, AnnouncesOther
<1> QED BY <1>1, <1>2

(* A variable is bound to ids of the kind passed down for it. *)
LEMMA VariableKind ==
    ASSUME NEW S, Compiled(S), NEW r, NEW bindings, Ground(r, bindings),
           NEW n \in NodeForm(program), n.relation \in used, ExistsFaults(r, n, bindings) = {}
    PROVE  Gives(n.relation, n.slot) = SlotKind(n.relation, n.slot)
<1>0. Typing /\ OrderProofs!Inductive /\ pass = "accepted" /\ Accepted(S)
  BY DEF Compiled
<1>1. /\ ~(n.slot >= Len(n.terms))
      /\ IsDerived(n.relation) => n.slot = Schema(n.relation).related
      /\ AtomFaults(r, n, n.slot, bindings) = {}
  BY ExistsTerms
<1>2. PICK to, slot : to = n.relation /\ slot = n.slot OBVIOUS
<1>3. slot \in Nat /\ slot \in Int BY <1>2 DEF NodeForm
<1>4. SlotFaults(to) = {} /\ Len(n.terms) \in Nat /\ Len(n.terms) = Len(Kinds(to))
  BY <1>0, <1>1, <1>2, <1>3, AtomTerms
<1>5. slot < Len(Kinds(to)) BY <1>1, <1>2, <1>3, <1>4
<1>6. Gives(to, slot) = At(Kinds(to), slot)
  BY <1>0, <1>1, <1>2, <1>3, <1>4, <1>5, GivesKind
<1> QED BY <1>2, <1>6 DEF SlotKind

(* A rule read by its plain name runs on the kind of the id it is routed *)
(* to. *)
LEMMA RoutedAnnounced ==
    ASSUME Typing, TermViolations = {}, here.rule = 0, here.relation # 0,
           here.current = SlotKind(here.relation, Schema(here.relation).current), here.current # NoKind,
           NEW flow, NEW routing, routing.relation = here.relation, here.id \in Flows(KindsOf, flow),
           NEW x \in Rules, Reference(x, ReferenceFlow(x, flow, routing)) \in Collection,
           NEW g \in PlainRead(x)
    PROVE  Announces(g)
<1>1. PICK id, to : id = RoutedId(Entity(x)) /\ to = ReferenceFlow(x, flow, routing)
  OBVIOUS
<1>2. g \in RuleRead(x, id) BY <1>1 DEF PlainRead
<1>3. CASE RoutesToCurrent(here.relation, Entity(x))
  <2>1. id = here.current /\ to = OfKind(here.current)
    BY <1>1, <1>3 DEF RoutedId, ReferenceFlow
  <2>2. id \in Flows(KindsOf, to) BY <2>1, FlowsTo
  <2> QED BY <1>1, <1>2, <2>2, RuleReadAnnounced
<1>4. CASE ~RoutesToCurrent(here.relation, Entity(x))
  <2>1. id = here.id /\ to = flow BY <1>1, <1>4 DEF RoutedId, ReferenceFlow
  <2> QED BY <1>1, <1>2, <2>1, RuleReadAnnounced
<1> QED BY <1>3, <1>4

(* An `exists` goes on with its variable bound. *)
LEMMA ExistsAnnounced ==
    ASSUME NEW S, Compiled(S), NEW r, r = here.relation, r # 0, here.what = "body", here.rule = 0,
           here = Evaluating(here.body, here.id, here.relation, here.current, here.variables, here.rule),
           NEW bindings, Ground(r, bindings),
           NEW n \in NodeForm(program), n.op = "exists", n.relation \in used,
           ExistsFaults(r, n, bindings) = {},
           NEW e \in Collectors, n = program.nodes[e.node], NEW flow, NEW routing,
           Passed(here, flow, routing), e.flow = flow, e.routing = routing,
           NEW g \in ExistsReads(n)
    PROVE  Announces(g)
<1>0. Typing BY DEF Compiled
<1>1. CASE g \in AtomReads(n, n.slot)
  <2>1. Collects(e) \subseteq Collection BY <1>0, Collected
  <2> QED BY <1>1, <2>1, AtomAnnounced
<1>2. CASE g \notin AtomReads(n, n.slot)
  <2>1. PICK body, id, current, variables, rule, kind, inner, more :
            /\ body = here.body /\ id = here.id /\ current = here.current
            /\ variables = here.variables /\ rule = here.rule
            /\ kind = SlotKind(n.relation, n.slot) /\ inner = n.body /\ more = Append(variables, kind)
    OBVIOUS
  <2>2. here = Evaluating(body, id, r, current, variables, rule) BY <2>1
  <2>3. g = [Into(n.body) EXCEPT !.variables = Append(@, Gives(n.relation, n.slot))]
    BY <1>2 DEF ExistsReads
  <2>4. g = [Into(n.body) EXCEPT !.variables = Append(@, kind)]
    BY <2>1, <2>3, VariableKind
  <2>5. PICK outer : outer = Into(n.body) OBVIOUS
  <2>6. outer = Evaluating(inner, id, r, current, variables, rule)
    BY <2>1, <2>2, <2>5 DEF Into, Evaluating
  <2>7. outer.variables = variables BY ONLY <2>6 DEF Evaluating
  <2>8. g = [outer EXCEPT !.variables = more] BY ONLY <2>1, <2>4, <2>5, <2>7
  <2>9. g = Evaluating(inner, id, r, current, more, rule)
    BY ONLY <2>6, <2>8 DEF Evaluating
  <2>10. PICK longer : longer = [routing EXCEPT !.variables = Append(@, kind)] OBVIOUS
  <2>11. /\ flow \in FlowForm(Held) /\ routing \in RoutingForm /\ id \in Flows(KindsOf, flow)
         /\ routing.relation = r /\ routing.variables = variables
    BY <2>1 DEF Passed
  <2>12. longer = [relation |-> r, variables |-> more]
    <3>1. routing = [relation |-> routing.relation, variables |-> routing.variables]
      BY <2>11 DEF RoutingForm
    <3>2. routing = [relation |-> r, variables |-> variables] BY <2>11, <3>1
    <3>3. longer = [[relation |-> r, variables |-> variables] EXCEPT !.variables = Append(@, kind)]
      BY <2>10, <3>2
    <3> QED BY ONLY <2>1, <3>3
  <2>13. longer.relation = r /\ longer.variables = more BY ONLY <2>12
  <2>14. Inside(e) \subseteq Collectors BY <1>0, CollectorsClosed
  <2>15. Inside(e) = {Expression(j, flow, longer) : j \in Elements(inner)}
    BY <2>1, <2>10 DEF Inside, Body
  <2>16. \A j \in Elements(inner) : Expression(j, flow, longer) \in Collectors
    BY <2>14, <2>15
  <2>17. longer \in RoutingForm
    <3>1. kind \in Held \cup {NoKind}
      <4>1. n.slot \in Nat BY DEF NodeForm
      <4> QED BY <1>0, <2>1, <4>1, SlotKindForm
    <3>2. variables \in Seq(Held \cup {NoKind}) /\ r \in Derived \cup {0}
      <4>1. routing.variables \in Seq(Held \cup {NoKind}) /\ routing.relation \in Derived \cup {0}
        BY <2>11 DEF RoutingForm
      <4> QED BY <2>11, <4>1
    <3>3. more \in Seq(Held \cup {NoKind})
      <4>1. Append(variables, kind) \in Seq(Held \cup {NoKind}) BY ONLY <3>1, <3>2
      <4> QED BY <2>1, <4>1
    <3> QED BY <2>12, <3>2, <3>3 DEF RoutingForm
  <2>18. r # 0 OBVIOUS
  <2> QED BY ONLY <2>9, <2>11, <2>13, <2>16, <2>17, <2>18, BodyAnnounced
<1> QED BY <1>1, <1>2

LEMMA PredicateBodyAnnounced ==
    ASSUME NEW S, Compiled(S), here.what = "body", PredicateRight(S, here), Announces(here),
           NEW i \in 1..Len(here.body), NEW g \in ReadsOf(program.nodes[here.body[i]])
    PROVE  Announces(g)
<1>0. Typing /\ OrderProofs!Inductive /\ pass = "accepted" /\ Accepted(S) /\ ProgramForm(program)
      /\ TermViolations = {}
  BY DEF Compiled, Typing, Accepted
<1>1. PICK body, id, r, current, variables :
          /\ body \in Bodies(program)
          /\ here = Evaluating(body, id, r, current, variables, 0)
          /\ here.body = body /\ here.id = id /\ here.relation = r /\ here.current = current /\ r # 0
          /\ here.variables = variables /\ here.rule = 0
          /\ r \in used /\ IsDerived(r) /\ SlotFaults(r) = {}
          /\ Schema(r).current < Len(Kinds(r)) /\ current = At(Kinds(r), Schema(r).current)
          /\ Schema(r).related < Len(Kinds(r)) /\ id = At(Kinds(r), Schema(r).related)
          /\ Met(body, id, Bound(current, id), r, S)
  BY PredicateForm
<1>2. PICK bindings : TermsRight(here, bindings) BY DEF PredicateRight
<1>3. Ground(r, bindings) BY <1>1, <1>2, PredicateGround
<1>4. Plain(current) /\ Plain(id)
  <2>1. Schema(r).current \in Nat /\ Schema(r).related \in Nat BY <1>0, <1>1, OwnForm
  <2> QED BY <1>0, <1>1, <2>1, SlotPlain
<1>5. PICK k, n : k = body[i] /\ n = program.nodes[k] OBVIOUS
<1>6. PICK member : member = Bound(current, id) OBVIOUS
<1>7. i \in 1..Len(body) /\ g \in ReadsOf(n) BY <1>1, <1>5
<1>8. /\ n \in NodeForm(program) /\ k \in Elements(body) /\ k \in 1..Len(program.nodes)
      /\ n.op \in {"aggregate", "only"} => n.relation \in used /\ AggregateCodes(n, id) = {}
      /\ n.op \in {"atom", "exists"} => n.relation \in used
  <2>1. Compiled(S) /\ body \in Bodies(program) /\ i \in 1..Len(body) /\ Met(body, id, member, r, S)
    BY <1>1, <1>6, <1>7
  <2> QED BY ONLY <1>5, <2>1, NodeMet
<1>9. PICK use : use = [node |-> n, clause |-> 0, bindings |-> bindings] OBVIOUS
<1>10. n.op \in TermOps => UseFaults(r, use) = {}
  <2>1. k \in Elements(here.body) /\ here.body \in Bodies(program) BY <1>1, <1>8
  <2> QED BY <1>0, <1>1, <1>2, <1>5, <1>9, <2>1, UseRight
<1>11. use.node = n /\ use.clause = 0 /\ use.bindings = bindings BY <1>9
<1>12. PICK flow, routing : Passed(here, flow, routing) BY DEF Announces
<1>13. PICK e \in Collectors :
           /\ e.node = k /\ e.flow = flow /\ e.routing = routing
           /\ Inside(e) \subseteq Collectors /\ Collects(e) \subseteq Collection
  <2>1. /\ Typing /\ here.body \in Bodies(program) /\ Passed(here, flow, routing)
        /\ i \in 1..Len(here.body) /\ k = here.body[i] /\ n = program.nodes[k]
    BY <1>0, <1>1, <1>5, <1>12
  <2>2. \E d \in Collectors :
            /\ d = Expression(k, flow, routing) /\ d.node = k /\ d.flow = flow /\ d.routing = routing
            /\ Inside(d) \subseteq Collectors /\ Collects(d) \subseteq Collection
            /\ n \in NodeForm(program) /\ k \in Elements(here.body)
    BY ONLY <2>1, PassedTo
  <2> QED BY <2>2
<1>14. /\ id \in Flows(KindsOf, flow) /\ routing.relation = r /\ routing.variables = variables
  BY <1>1, <1>12 DEF Passed
<1>15. CASE n.op = "rule" /\ n.value \in Rules /\ g \in PlainRead(n.value)
  <2>1. Reference(n.value, ReferenceFlow(n.value, flow, routing)) \in Collection
    BY <1>5, <1>13, <1>15 DEF Collects
  <2>2. here.current = SlotKind(r, Schema(r).current) /\ here.current # NoKind
    BY <1>1, <1>4 DEF SlotKind, Plain
  <2> QED BY <1>0, <1>1, <1>14, <1>15, <2>1, <2>2, RoutedAnnounced
<1>16. CASE n.op \in {"aggregate", "only"} /\ g \in AggregateReads(n)
  <2>1. id # NoKind BY <1>4 DEF Plain
  <2>2. TermUses(n.body) = {}
    <3>1. CASE n.op = "only"
      <4>1. n.body = <<>> BY <1>0, <1>5, <1>8, <3>1 DEF ProgramForm
      <4> QED BY <4>1, NoTermsIn
    <3>2. CASE n.op = "aggregate"
      <4>1. n.relation # 0
        <5>1. n.relation \in Relations BY <1>8, <1>16, <2>1, RelatedIds
        <5> QED BY <5>1, NamesAssumption
      <4>2. here.body \in Bodies(program) /\ k \in Elements(here.body) BY <1>1, <1>8
      <4> QED BY <1>0, <1>2, <1>5, <3>2, <4>1, <4>2, ClauseTerms
    <3> QED BY <1>16, <3>1, <3>2
  <2> QED BY <1>5, <1>8, <1>13, <1>16, <2>1, <2>2, AggregateAnnounced
<1>17. CASE n.op = "member" /\ g \in MemberReads(n)
  <2>0. <<n.current, n.related>>[1] = n.current OBVIOUS
  <2>1. PICK slots : slots = <<n.current, n.related>> /\ slots[1] = n.current BY <2>0
  <2>2. (\E at : g = LookUp(n.relation, slots, at)) \/ \E a, b : g = Meet(a, b)
    BY <1>17, <2>1 DEF MemberReads
  <2>3. Lookup(n.relation, slots[1]) \in Collection
    BY <1>5, <1>13, <1>17, <2>1 DEF Collects
  <2> QED BY <2>2, <2>3, AnnouncesOther
<1>18. CASE n.op = "atom" /\ g \in AtomReads(n, -1)
  <2>1. PICK free : free = -1 OBVIOUS
  <2> QED BY <1>5, <1>13, <1>18, <2>1, AtomAnnounced
<1>19. CASE n.op = "exists" /\ g \in ExistsReads(n)
  <2>1. ExistsFaults(r, n, bindings) = {} BY <1>10, <1>11, <1>19 DEF UseFaults, TermOps
  <2>2. here = Evaluating(here.body, here.id, here.relation, here.current, here.variables, here.rule)
    BY <1>1
  <2>3. /\ Compiled(S) /\ r = here.relation /\ r # 0 /\ here.what = "body" /\ here.rule = 0
        /\ Ground(r, bindings) /\ n \in NodeForm(program) /\ n.op = "exists" /\ n.relation \in used
        /\ e \in Collectors /\ n = program.nodes[e.node] /\ Passed(here, flow, routing)
        /\ e.flow = flow /\ e.routing = routing /\ g \in ExistsReads(n)
    BY <1>1, <1>3, <1>5, <1>8, <1>12, <1>13, <1>19
  <2> QED BY ONLY <2>1, <2>2, <2>3, ExistsAnnounced
<1>20. CASE n.op = "same" /\ g = Meet(TermId(n.terms[1]), TermId(n.terms[2]))
  BY <1>20, AnnouncesOther
<1>21. CASE n.op = "read" /\ n.value \in Rules /\ g \in RuleRead(n.value, TermId(n.terms[1]))
  <2>1. ReadFaults(r, n, bindings) = {} BY <1>10, <1>11, <1>21 DEF UseFaults, TermOps
  <2>2. Len(n.terms) = 1 BY <1>0, <1>5, <1>8, <1>21 DEF ProgramForm
  <2>3. PICK t, x, to : t = n.terms[1] /\ x = n.value /\ to = ReadFlow(e, t) OBVIOUS
  <2>4. t \in TermForm
    <3>1. n.terms \in Seq(TermForm) BY <1>8 DEF NodeForm
    <3> QED BY <2>2, <2>3, <3>1
  <2>5. TermFaults(r, t, bindings) = {} BY <2>1, <2>3 DEF ReadFaults
  <2>6. TermId(t) \in Flows(KindsOf, to)
    <3>1. e.routing.relation = r /\ e.routing.variables = here.variables
      BY <1>1, <1>13, <1>14
    <3> QED BY <1>0, <1>1, <1>3, <2>3, <2>4, <2>5, <3>1, TermAnnounced
  <2>7. Reference(x, to) \in Collection
    BY <1>5, <1>13, <1>21, <2>3 DEF Collects, References
  <2> QED BY <1>0, <1>21, <2>3, <2>6, <2>7, RuleReadAnnounced
<1>22. here.relation # 0 BY <1>1
<1> QED BY <1>7, <1>15, <1>16, <1>17, <1>18, <1>19, <1>20, <1>21, <1>22, ScopeKept

(* A lookup of a derived relation: its predicate, its source and its path. *)
LEMMA PredicateAnnounced ==
    ASSUME Typing, NEW r \in Derived, NEW current, NEW related, related = At(Kinds(r), Schema(r).related),
           related # NoKind, Gives(r, Schema(r).related) = related
    PROVE  Announces(Predicate(r, current))
<1>1. PICK body, flow, routing, variables, rule, g :
          /\ body = Schema(r).predicate /\ flow = PredicateFlow(r) /\ routing = RoutedBy(r)
          /\ variables = <<>> /\ rule = 0 /\ g = Predicate(r, current)
  OBVIOUS
<1>2. g = Evaluating(body, related, r, current, variables, rule) BY <1>1 DEF Predicate
<1>3. routing \in RoutingForm /\ routing.relation = r /\ routing.variables = variables
  BY <1>1 DEF RoutedBy, RoutingForm
<1>4. flow = OfKind(related) BY <1>1 DEF PredicateFlow, SlotKind
<1>5. flow \in FlowForm(Held)
  <2>1. Schema(r).related \in Nat BY OwnForm DEF IsDerived
  <2> QED BY <1>1, <2>1, SlotKindForm, KindFlow DEF PredicateFlow
<1>6. related \in Flows(KindsOf, flow) BY <1>4, FlowsTo
<1>7. \A i \in Elements(body) : Expression(i, flow, routing) \in Collectors
  BY <1>1, CollectorsClosed
<1>8. r # 0 BY NamesAssumption DEF Derived
<1>9. Announces(g) BY ONLY <1>2, <1>3, <1>5, <1>6, <1>7, <1>8, BodyAnnounced
<1> QED BY <1>1, <1>9

LEMMA LookedUpAnnounced ==
    ASSUME NEW S, Compiled(S), here.what = "lookup", LookUpRight(here), NEW g \in LookUpReads
    PROVE  Announces(g)
<1>0. Typing /\ OrderProofs!Inductive /\ pass = "accepted" /\ Accepted(S)
  BY DEF Compiled
<1>1. PICK r, id : r = here.relation /\ id = here.id OBVIOUS
<1>2. r \in used /\ SlotFaults(r) = {} /\ (IsDerived(r) => here.slots = Own(r))
  BY <1>1 DEF LookUpRight
<1>3. CASE ~IsDerived(r)
  <2>1. \E k, l : g = Meet(k, l) BY <1>1, <1>3 DEF LookUpReads
  <2> QED BY <2>1, AnnouncesOther
<1>4. CASE IsDerived(r)
  <2>1. PICK current \in Nat, related \in Nat :
            here.slots = <<current, related>> /\ related < Len(Kinds(r))
    BY <1>1 DEF LookUpRight
  <2>2. related = Schema(r).related BY <1>2, <1>4, <2>1 DEF Own
  <2>3. PICK kind : kind = At(Kinds(r), related) OBVIOUS
  <2>4. kind # NoKind BY <1>0, <1>2, <2>1, <2>3, SlotPlain DEF Plain
  <2>5. Gives(r, related) = kind BY <1>0, <1>2, <2>1, <2>2, <2>3, GivesKind
  <2>6. Announces(Predicate(r, id))
    BY <1>0, <1>4, <2>2, <2>3, <2>4, <2>5, PredicateAnnounced DEF IsDerived
  <2>7. OfSources(r) \subseteq Collection BY <1>0, <1>4, Collected DEF IsDerived
  <2>8. CASE Schema(r).path = <<>> /\ g = LookUp(Schema(r).source, Own(r), id)
    <3>1. PICK slots, source : slots = Own(r) /\ source = Schema(r).source OBVIOUS
    <3>2. slots[1] = Schema(r).current BY <3>1 DEF Own
    <3>3. source \in Relations
      <4>1. SlotFaults(source) = {} BY <1>0, <1>2, <1>4, <2>8, <3>1, FilterSource
      <4> QED BY <1>0, <4>1, SlotSound
    <3>4. Lookup(source, slots[1]) \in OfSources(r)
      BY <2>8, <3>1, <3>2, <3>3 DEF OfSources
    <3> QED BY <2>7, <2>8, <3>1, <3>4, AnnouncesOther
  <2>9. CASE Schema(r).path # <<>> /\ g \in PathLookUps(r, id)
    <3>1. PICK way : way = Schema(r).path OBVIOUS
    <3>2. PICK i \in 1..Len(way) : \E given :
              g = LookUp(way[i].relation, <<way[i].from, way[i].to>>, given)
      BY <2>9, <3>1 DEF PathLookUps
    <3>3. PICK step : step = way[i] OBVIOUS
    <3>4. PICK slots : slots = <<step.from, step.to>> OBVIOUS
    <3>5. slots[1] = step.from BY <3>4
    <3>6. IsDerived(step.relation) => step.from = Schema(step.relation).current
      BY <1>0, <1>2, <1>4, <2>9, <3>1, <3>2, <3>3, PathLast
    <3>7. Lookup(step.relation, step.from) \in OfSources(r)
      <4>1. OfSources(r) =
                {LET s == way[j]
                 IN  Lookup(s.relation, IF IsDerived(s.relation) THEN Schema(s.relation).current ELSE s.from)
                 : j \in 1..Len(way)}
        BY <2>9, <3>1 DEF OfSources
      <4> QED BY <3>2, <3>3, <3>6, <4>1
    <3> QED BY <2>7, <3>2, <3>3, <3>4, <3>5, <3>7, AnnouncesOther
  <2>10. \/ g = Predicate(r, id)
         \/ Schema(r).path = <<>> /\ g = LookUp(Schema(r).source, Own(r), id)
         \/ Schema(r).path # <<>> /\ g \in PathLookUps(r, id)
    BY <1>1, <1>4 DEF LookUpReads
  <2> QED BY <2>6, <2>8, <2>9, <2>10
<1> QED BY <1>3, <1>4

LEMMA AnnouncesOn ==
    ASSUME NEW S, Compiled(S), HereRight(S, here), Announces(here), Evaluate, NEW g, g = here'
    PROVE  Announces(g)
<1>0. Typing /\ TermViolations = {} BY DEF Compiled, Accepted
<1>1. CASE Query
  <2>1. PICK x \in Rules : g = RunRule(x, Scope(x)) BY <1>1 DEF Query
  <2>2. Scope(x) \in KindsOf[x] BY <1>0, KindsClosed
  <2> QED BY <1>0, <2>1, <2>2, RunAnnounced
<1>2. CASE Read
  <2>1. PICK i \in 1..Len(here.body) : g \in ReadsOf(program.nodes[here.body[i]])
    BY <1>2 DEF Read
  <2>2. here.what = "body" BY <1>2 DEF Read
  <2>3. RuleRight(S, here) \/ PredicateRight(S, here) BY <2>2 DEF HereRight, Nowhere
  <2> QED BY <2>1, <2>2, <2>3, RuleBodyAnnounced, PredicateBodyAnnounced
<1>3. CASE Traverse
  <2>1. g \in LookUpReads /\ here.what = "lookup" BY <1>3 DEF Traverse
  <2>2. LookUpRight(here) BY <2>1 DEF HereRight, Nowhere
  <2> QED BY <2>1, <2>2, LookedUpAnnounced
<1> QED BY <1>1, <1>2, <1>3 DEF Evaluate

(* What is collected is read from the program and its tables alone. *)
LEMMA FlowsKept ==
    ASSUME UNCHANGED typing_tables
    PROVE  /\ \A r, slot : SlotKind(r, slot)' = SlotKind(r, slot)
           /\ \A n : RelatedFlow(n)' = RelatedFlow(n)
           /\ \A e, term : ReadFlow(e, term)' = ReadFlow(e, term)
           /\ \A x, flow, routing : ReferenceFlow(x, flow, routing)' = ReferenceFlow(x, flow, routing)
           /\ \A n, bound : TermLookups(n, bound)' = TermLookups(n, bound)
           /\ \A r : OfSources(r)' = OfSources(r)
           /\ \A x : Scope(x)' = Scope(x)
<1>1. \A r, slot : SlotKind(r, slot)' = SlotKind(r, slot) BY TablesKept DEF SlotKind
<1>2. \A n : RelatedFlow(n)' = RelatedFlow(n) BY <1>1, TablesKept DEF RelatedFlow
<1>3. \A routing, term : TermFlow(routing, term)' = TermFlow(routing, term)
  <2> TAKE routing, term
  <2>1. PICK r, bound : r = routing.relation /\ bound = routing.variables OBVIOUS
  <2>2. Schema(r)' = Schema(r) /\ \A slot : SlotKind(r, slot)' = SlotKind(r, slot)
    BY <1>1, TablesKept
  <2> QED BY ONLY <2>1, <2>2 DEF TermFlow
<1>4. \A e, term : ReadFlow(e, term)' = ReadFlow(e, term) BY <1>3 DEF ReadFlow
<1>5. \A x, flow, routing : ReferenceFlow(x, flow, routing)' = ReferenceFlow(x, flow, routing)
  BY <1>1, TablesKept DEF ReferenceFlow
<1>6. \A n, bound : TermLookups(n, bound)' = TermLookups(n, bound)
  BY TablesKept DEF TermLookups
<1>7. \A r : OfSources(r)' = OfSources(r)
  <2> TAKE r
  <2>1. PICK way, source, current : way = Schema(r).path /\ source = Schema(r).source /\ current = Schema(r).current
    OBVIOUS
  <2>2. Schema(r)' = Schema(r) /\ \A q : Schema(q)' = Schema(q) /\ (IsDerived(q)' <=> IsDerived(q))
    BY TablesKept
  <2> DEFINE lookedUp(step) == Lookup(step.relation, IF IsDerived(step.relation)
                                                     THEN Schema(step.relation).current ELSE step.from)
             steps == {lookedUp(way[i]) : i \in 1..Len(way)}
  <2>3. \A step : lookedUp(step)' = lookedUp(step) BY <2>2
  <2>4. OfSources(r) = IF way = <<>> /\ source \notin Relations THEN {}
                       ELSE IF way = <<>> THEN {Lookup(source, current)} ELSE steps
    BY <2>1 DEF OfSources
  <2>5. OfSources(r)' = IF way = <<>> /\ source \notin Relations THEN {}
                        ELSE IF way = <<>> THEN {Lookup(source, current)} ELSE steps'
    BY <2>1, <2>2 DEF OfSources
  <2>6. steps' = steps
    <3> HIDE DEF lookedUp
    <3> QED BY <2>3
  <2> QED BY <2>4, <2>5, <2>6
<1>8. \A x : Scope(x)' = Scope(x) BY TablesKept DEF Scope
<1> QED BY <1>1, <1>2, <1>4, <1>5, <1>6, <1>7, <1>8

LEMMA CollectionKept ==
    ASSUME UNCHANGED typing_tables
    PROVE  Collectors' = Collectors /\ Collection' = Collection
<1>0. program' = program BY DEF typing_tables
<1>1. \A e, flow, routing : Body(e, flow, routing)' = Body(e, flow, routing)
  BY <1>0 DEF Body
<1>2. \A e : Inside(e)' = Inside(e) BY <1>0, <1>1, FlowsKept DEF Inside
<1>3. \A e : Collects(e)' = Collects(e) BY <1>0, FlowsKept DEF Collects
<1>5. Collectors' = Collectors
  <2>1. \A x : Formulas(x)' = Formulas(x) BY TablesKept
  <2>2. Derived' = Derived /\ \A r : Schema(r)' = Schema(r) BY TablesKept
  <2>3. \A r, slot : SlotKind(r, slot)' = SlotKind(r, slot) BY FlowsKept
  <2>4. ASSUME NEW x PROVE Expressions(Formulas(x), OfRule(x), Unrouted)' = Expressions(Formulas(x), OfRule(x), Unrouted)
    <3> DEFINE Gen(f) == [d \in 0..Len(program.nodes) |->
                   IF d = 0 THEN {Expression(i, OfRule(x), Unrouted) : i \in Elements(Formulas(x))}
                   ELSE UNION {Inside(e) : e \in f[d - 1]}]
               within == CHOOSE f : f = Gen(f)
    <3>1. Expressions(Formulas(x), OfRule(x), Unrouted) = UNION {within[d] : d \in 0..Len(program.nodes)}
      BY DEF Expressions
    <3>2. Expressions(Formulas(x), OfRule(x), Unrouted)' = UNION {within'[d] : d \in 0..Len(program'.nodes)}
      BY DEF Expressions
    <3>3. \A f : Gen(f)' = Gen(f) BY <1>0, <1>2, <2>1
    <3> HIDE DEF Gen
    <3>4. within' = within BY <3>3
    <3> HIDE DEF within
    <3> QED BY <1>0, <3>1, <3>2, <3>4
  <2>5. ASSUME NEW r PROVE Expressions(Schema(r).predicate, OfKind(SlotKind(r, Schema(r).related)), RoutedBy(r))' = Expressions(Schema(r).predicate, OfKind(SlotKind(r, Schema(r).related)), RoutedBy(r))
    <3> DEFINE Gen(f) == [d \in 0..Len(program.nodes) |->
                   IF d = 0 THEN {Expression(i, OfKind(SlotKind(r, Schema(r).related)), RoutedBy(r)) : i \in Elements(Schema(r).predicate)}
                   ELSE UNION {Inside(e) : e \in f[d - 1]}]
               within == CHOOSE f : f = Gen(f)
    <3>1. Expressions(Schema(r).predicate, OfKind(SlotKind(r, Schema(r).related)), RoutedBy(r)) = UNION {within[d] : d \in 0..Len(program.nodes)}
      BY DEF Expressions
    <3>2. Expressions(Schema(r).predicate, OfKind(SlotKind(r, Schema(r).related)), RoutedBy(r))' = UNION {within'[d] : d \in 0..Len(program'.nodes)}
      BY DEF Expressions
    <3>3. \A f : Gen(f)' = Gen(f) BY <1>0, <1>2, <2>2, <2>3
    <3> HIDE DEF Gen
    <3>4. within' = within BY <3>3
    <3> HIDE DEF within
    <3> QED BY <1>0, <3>1, <3>2, <3>4
  <2> QED BY <2>2, <2>4, <2>5 DEF Collectors
<1>6. Collection' = Collection
  <2>1. Derived' = Derived BY TablesKept
  <2>2. \A r : OfSources(r)' = OfSources(r) BY FlowsKept
  <2> QED BY <1>3, <1>5, <2>1, <2>2 DEF Collection
<1> QED BY <1>5, <1>6

LEMMA AnnouncedKept ==
    ASSUME UNCHANGED typing_tables
    PROVE  /\ KindsOf' = KindsOf /\ Announced' = Announced
           /\ \A g : Announces(g) => Announces(g)'
<1>0. program' = program /\ slot_kinds' = slot_kinds BY DEF typing_tables
<1>1. Collectors' = Collectors /\ Collection' = Collection BY CollectionKept
<1>3. KindsOf' = KindsOf
  <2> DEFINE Gen(f) == [n \in 0..Rounds |->
                 IF n = 0 THEN [x \in Rules |-> {Scope(x)}]
                 ELSE [x \in Rules |->
                          f[n - 1][x] \cup
                          UNION {Flows(f[n - 1], g.flow) :
                                     g \in {g \in Collection : g.what = "reference" /\ g.name = x}}]]
             after == CHOOSE f : f = Gen(f)
  <2>1. KindsOf = after[Rounds] BY DEF KindsOf, RuleKinds
  <2>2. KindsOf' = after'[Rounds] BY DEF KindsOf, RuleKinds, Rounds
  <2>3. \A f : Gen(f)' = Gen(f)
    <3>1. \A x : Scope(x)' = Scope(x) BY FlowsKept
    <3> QED BY <1>1, <3>1 DEF Flows, Rounds
  <2> HIDE DEF Gen
  <2>4. after' = after BY <2>3
  <2> HIDE DEF after
  <2> QED BY <2>1, <2>2, <2>4
<1>5. Announced' = Announced
  <2> DEFINE Sites == {f \in Collection : f.what = "site"}
             Inputs == [n \in {f.name : f \in Sites} |->
                           UNION {Flows(KindsOf, f.flow) : f \in {s \in Sites : s.name = n}}]
             Slots == [r \in Relations |->
                          {f.slot : f \in {l \in Collection : l.what = "lookup" /\ l.name = r}}]
  <2>1. Announced = [inputs |-> Inputs, lookup_slots |-> Slots, entities |-> EntityRoster(Inputs)]
    BY DEF Announced, KindsOf
  <2>2. Announced' = [inputs |-> Inputs', lookup_slots |-> Slots', entities |-> EntityRoster(Inputs)']
    BY DEF Announced, KindsOf
  <2>3. Sites' = Sites BY <1>1
  <2>4. Slots' = Slots BY <1>1
  <2>5. Inputs' = Inputs BY <1>3, <2>3 DEF Flows
  <2> HIDE DEF Sites, Inputs, Slots
  <2>6. EntityRoster(Inputs)' = EntityRoster(Inputs)
    BY <1>0, <2>5, TablesKept DEF EntityRoster
  <2> QED BY <2>1, <2>2, <2>4, <2>5, <2>6
<1>6. ASSUME NEW g, Announces(g) PROVE Announces(g)'
  <2>1. Derived' = Derived /\ Held' = Held BY <1>0, TablesKept DEF Held
  <2>2. RoutingForm' = RoutingForm /\ FlowForm(Held)' = FlowForm(Held)
    BY <2>1 DEF RoutingForm, FlowForm
  <2>3. \A b : TermUses(b)' = TermUses(b) BY <1>0, BodiesKept
  <2>4. \A flow : Flows(KindsOf, flow)' = Flows(KindsOf, flow) BY <1>3 DEF Flows
  <2>5. \A flow, routing : Passed(g, flow, routing) => Passed(g, flow, routing)'
    BY <1>1, <2>2, <2>3, <2>4 DEF Passed
  <2> QED BY <1>1, <1>6, <2>5 DEF Announces
<1> QED BY <1>3, <1>5, <1>6

-----------------------------------------------------------------------------
(* What is announced holds what is collected; the roster names every kind. *)
LEMMA FilteredHeld ==
    ASSUME Typing, FiltersExact, NEW e \in DOMAIN filtered
    PROVE  filtered[e] \in Held
<1>1. PICK kind : kind = filtered[e] OBVIOUS
<1>2. PICK n \in 1..Cardinality(Entities) : \E c \in [1..n -> DOMAIN Agreed(slot_kinds)] :
          Agreed(slot_kinds)[c[n]] = kind
  BY <1>1 DEF FiltersExact, EndsAlone
<1>3. PICK c \in [1..n -> DOMAIN Agreed(slot_kinds)] : Agreed(slot_kinds)[c[n]] = kind
  BY <1>2
<1>4. Cardinality(Entities) \in Nat BY EntitiesFinite, FS_CardinalityType
<1>5. n \in 1..n BY <1>2, <1>4
<1>6. PICK d \in DOMAIN Agreed(slot_kinds) : Agreed(slot_kinds)[d] = kind BY <1>3, <1>5
<1>7. kind \in CurrentKinds(slot_kinds, d) BY <1>6, AgreedForm DEF Typing
<1>8. PICK r \in Filters(d) : kind = At(slot_kinds[r], Schema(r).current) /\ kind # NoKind
  BY <1>7 DEF CurrentKinds
<1>9. IsDerived(r) /\ r \in Relations BY <1>8 DEF Filters, IsDerived, Derived
<1>10. kind = SlotKind(r, Schema(r).current) /\ Schema(r).current \in Nat
  BY <1>8, <1>9, OwnForm DEF SlotKind, Kinds, Declared
<1>11. kind \in Held BY <1>8, <1>10, SlotKindForm
<1> QED BY <1>1, <1>11

LEMMA IdsListed ==
    ASSUME Typing, FiltersExact, NEW inputs, NEW k \in Ids, k \in UNION {inputs[n] : n \in DOMAIN inputs}
    PROVE  k \in EntityRoster(inputs)
<1>1. CASE k \in Held BY <1>1 DEF Held, EntityRoster
<1>2. CASE k = SCALAR_ENTITY BY <1>2 DEF EntityRoster
<1>3. CASE \E x \in Rules : k = IdKind(Entity(x))
  <2>1. PICK x \in Rules : k = IdKind(Entity(x)) BY <1>3
  <2>2. k = Entity(x) \/ (Entity(x) \in DOMAIN filtered /\ k = filtered[Entity(x)])
    BY <2>1 DEF IdKind
  <2>3. CASE k = Entity(x) BY <2>3 DEF EntityRoster
  <2>4. CASE Entity(x) \in DOMAIN filtered /\ k = filtered[Entity(x)]
    BY <1>1, <2>4, FilteredHeld
  <2> QED BY <2>2, <2>3, <2>4
<1> QED BY <1>1, <1>2, <1>3 DEF Ids, Scope

LEMMA AnnouncedHolds ==
    ASSUME Typing, FiltersExact
    PROVE  /\ \A i, flow : Site(i, flow) \in Collection =>
                  Flows(KindsOf, flow) \subseteq Announced.inputs[i]
           /\ \A r \in Relations : \A slot : Lookup(r, slot) \in Collection =>
                  slot \in Announced.lookup_slots[r]
           /\ UNION {Announced.inputs[n] : n \in DOMAIN Announced.inputs} \subseteq Announced.entities
<1> DEFINE Sites == {f \in Collection : f.what = "site"}
           At1(n) == {s \in Sites : s.name = n}
           Inputs == [n \in {f.name : f \in Sites} |-> UNION {Flows(KindsOf, f.flow) : f \in At1(n)}]
           Slots == [r \in Relations |-> {f.slot : f \in {l \in Collection : l.what = "lookup" /\ l.name = r}}]
<1>1. Announced = [inputs |-> Inputs, lookup_slots |-> Slots, entities |-> EntityRoster(Inputs)]
  BY DEF Announced, KindsOf
<1> HIDE DEF Inputs, Slots
<1>2. Announced.inputs = Inputs /\ Announced.lookup_slots = Slots /\ Announced.entities = EntityRoster(Inputs)
  BY <1>1
<1>3. ASSUME NEW i, NEW flow, Site(i, flow) \in Collection
      PROVE  Flows(KindsOf, flow) \subseteq Inputs[i]
  <2>1. PICK f \in Collection : f = Site(i, flow) BY <1>3
  <2>2. f.what = "site" /\ f.name = i /\ f.flow = flow BY <2>1 DEF Site
  <2>3. f \in Sites /\ f \in At1(i) BY <2>2
  <2>4. Inputs[i] = UNION {Flows(KindsOf, g.flow) : g \in At1(i)}
    BY <2>2, <2>3 DEF Inputs
  <2> HIDE DEF At1
  <2> QED BY <2>2, <2>3, <2>4
<1>4. ASSUME NEW r \in Relations, NEW slot, Lookup(r, slot) \in Collection
      PROVE  slot \in Slots[r]
  <2>1. PICK f \in Collection : f = Lookup(r, slot) BY <1>4
  <2>2. f.what = "lookup" /\ f.name = r /\ f.slot = slot BY <2>1 DEF Lookup
  <2> QED BY <2>2 DEF Slots
<1>5. ASSUME NEW k, k \in UNION {Inputs[n] : n \in DOMAIN Inputs} PROVE k \in EntityRoster(Inputs)
  <2>1. PICK n \in DOMAIN Inputs : k \in Inputs[n] BY <1>5
  <2>2. PICK f \in Sites : k \in Flows(KindsOf, f.flow) BY <2>1 DEF Inputs
  <2>3. Flows(KindsOf, f.flow) \subseteq Ids BY <2>2, KindsClosed
  <2>4. k \in Ids BY <2>2, <2>3
  <2> QED BY <1>5, <2>4, IdsListed
<1> QED BY <1>2, <1>3, <1>4, <1>5

(* The id an input is read on is of a kind that was collected for it. *)
InputOps == {"aggregate", "only", "rule", "unbound", "read"}

LEMMA InputCollected ==
    ASSUME NEW S, Compiled(S), HereRight(S, here), Announces(here), here.what = "body",
           NEW i \in 1..Len(here.body), NEW k, k = here.body[i],
           NEW n, n = program.nodes[k], n.op \in InputOps
    PROVE  \E flow : Site(k, flow) \in Collection /\ ReadOn(n) \in Flows(KindsOf, flow)
<1>0. Typing /\ ProgramForm(program) BY DEF Compiled, Typing
<1>1. RuleRight(S, here) \/ PredicateRight(S, here) BY DEF HereRight, Nowhere
<1>2. here.body \in Bodies(program) BY <1>1 DEF RuleRight, PredicateRight
<1>3. PICK flow, routing : Passed(here, flow, routing) BY DEF Announces
<1>4. PICK e \in Collectors :
          /\ e.node = k /\ e.flow = flow /\ e.routing = routing
          /\ Collects(e) \subseteq Collection
          /\ n \in NodeForm(program) /\ k \in Elements(here.body)
  <2>1. \E d \in Collectors :
            /\ d = Expression(k, flow, routing) /\ d.node = k /\ d.flow = flow /\ d.routing = routing
            /\ Inside(d) \subseteq Collectors /\ Collects(d) \subseteq Collection
            /\ n \in NodeForm(program) /\ k \in Elements(here.body)
    BY ONLY <1>0, <1>2, <1>3, PassedTo, k = here.body[i], n = program.nodes[k]
  <2> QED BY <2>1
<1>5. CASE n.op \in {"aggregate", "only"}
  <2>1. PICK entity : entity # NoKind /\ n.relation \in used /\ AggregateCodes(n, entity) = {}
    <3>1. PICK entity, member, citing : Met(here.body, entity, member, citing, S) /\ entity # NoKind
      <4>1. CASE RuleRight(S, here)
        <5>1. PICK citing, entity : entity \in EntityKinds /\ Met(here.body, entity, NoMember, citing, S)
          BY <4>1 DEF RuleRight
        <5> QED BY <5>1, ProgramAssumption
      <4>2. CASE PredicateRight(S, here)
        <5>1. PICK r, id : /\ r = here.relation /\ id = here.id
                           /\ IsDerived(r) /\ SlotFaults(r) = {}
                           /\ Schema(r).related < Len(Kinds(r)) /\ id = At(Kinds(r), Schema(r).related)
                           /\ Met(here.body, id, Bound(here.current, id), r, S)
          BY <4>2 DEF PredicateRight
        <5>2. Schema(r).related \in Nat BY <1>0, <5>1, OwnForm
        <5>3. id # NoKind BY <1>0, <5>1, <5>2, SlotSound
        <5> QED BY <5>1, <5>3
      <4> QED BY <1>1, <4>1, <4>2
    <3>2. n.relation \in used /\ AggregateCodes(n, entity) = {}
      BY <1>2, <1>5, <3>1, NodeMet
    <3> QED BY <3>1, <3>2
  <2>2. Gives(n.relation, TraversedSlots(n)[2]) \in Flows(KindsOf, RelatedFlow(n))
    BY <1>4, <2>1, RelatedIds
  <2>3. ReadOn(n) = Gives(n.relation, TraversedSlots(n)[2]) BY <1>5 DEF ReadOn
  <2>4. Site(k, RelatedFlow(n)) \in Collects(e) BY <1>4, <1>5 DEF Collects
  <2> QED BY <1>4, <2>2, <2>3, <2>4
<1>6. CASE n.op \in {"rule", "unbound"}
  <2>1. ReadOn(n) = here.id BY <1>6 DEF ReadOn
  <2>2. Site(k, flow) \in Collects(e) BY <1>4, <1>6 DEF Collects
  <2> QED BY <1>3, <1>4, <2>1, <2>2 DEF Passed
<1>7. CASE n.op = "read" /\ here.relation = 0
  <2>1. [node |-> n, clause |-> 0, bindings |-> <<>>] \in TermUses(here.body)
    BY <1>0, <1>2, <1>4, <1>7, TermUsesWithin DEF TermOps
  <2> QED BY <1>3, <1>7, <2>1 DEF Passed
<1>8. CASE n.op = "read" /\ here.relation # 0
  <2>1. PredicateRight(S, here) BY <1>1, <1>8 DEF RuleRight, Evaluating
  <2>2. PICK r, t, bindings : r = here.relation /\ t = n.terms[1] /\ TermsRight(here, bindings)
    BY <2>1 DEF PredicateRight
  <2>3. Ground(r, bindings) BY <2>1, <2>2, PredicateGround
  <2>4. PICK use : use = [node |-> n, clause |-> 0, bindings |-> bindings] OBVIOUS
  <2>5. UseFaults(r, use) = {}
    BY <1>0, <1>2, <1>4, <1>8, <2>2, <2>4, UseRight DEF TermOps
  <2>6. use.node = n /\ use.clause = 0 /\ use.bindings = bindings BY <2>4
  <2>7. ReadFaults(r, n, bindings) = {} BY <1>8, <2>5, <2>6 DEF UseFaults, TermOps
  <2>8. TermFaults(r, t, bindings) = {} BY <2>2, <2>7 DEF ReadFaults
  <2>9. t \in TermForm
    <3>1. Len(n.terms) = 1 BY <1>0, <1>2, <1>4, <1>8 DEF ProgramForm, Bodies
    <3>2. n.terms \in Seq(TermForm) BY <1>4 DEF NodeForm
    <3> QED BY <2>2, <3>1, <3>2
  <2>10. TermId(t) \in Flows(KindsOf, ReadFlow(e, t))
    <3>1. e.routing.relation = r /\ e.routing.variables = here.variables
      BY <1>3, <1>4, <1>8, <2>2 DEF Passed
    <3>2. r # 0 BY <1>8, <2>2
    <3> QED BY <1>0, <2>3, <2>8, <2>9, <3>1, <3>2, TermAnnounced
  <2>11. Site(k, ReadFlow(e, t)) \in Collects(e) BY <1>4, <1>8, <2>2 DEF Collects
  <2>12. ReadOn(n) = TermId(t) BY <1>8, <2>2 DEF ReadOn
  <2> QED BY <1>4, <2>10, <2>11, <2>12
<1> QED BY <1>5, <1>6, <1>7, <1>8 DEF InputOps

(* Evaluation begins once the interface has been derived, and never comes *)
(* to a place of which nothing was announced. *)
Covered ==
    /\ interface = Underived => here = Nowhere
    /\ interface # Underived => phase = "accepted" /\ interface = Announced /\ Announces(here)

LEMMA CoveredExact ==
    ASSUME Forms, Ordering, Tables, Evaluates, Kinded, Covered
    PROVE  InterfaceCovers
<1> SUFFICES ASSUME interface # Underived PROVE InterfaceCovers BY DEF InterfaceCovers
<1>1. phase = "accepted" /\ interface = Announced /\ Announces(here) BY DEF Covered
<1>2. PICK S : Accepted(S) /\ HereRight(S, here) BY <1>1 DEF Evaluates
<1>3. Compiled(S) BY <1>1, <1>2, EvaluatesCompiled
<1>4. Typing /\ FiltersExact BY <1>1, <1>3 DEF Compiled, Kinded, Lowered
<1>5. /\ \A i, flow : Site(i, flow) \in Collection =>
             Flows(KindsOf, flow) \subseteq interface.inputs[i]
      /\ \A r \in Relations : \A slot : Lookup(r, slot) \in Collection =>
             slot \in interface.lookup_slots[r]
      /\ UNION {interface.inputs[n] : n \in DOMAIN interface.inputs} \subseteq interface.entities
  BY <1>1, <1>4, AnnouncedHolds
<1>6. ASSUME here.what = "body", NEW i \in 1..Len(here.body),
             program.nodes[here.body[i]].op \in InputOps
      PROVE  ReadOn(program.nodes[here.body[i]]) \in interface.inputs[here.body[i]]
  <2>1. PICK k, n : k = here.body[i] /\ n = program.nodes[k] OBVIOUS
  <2>2. \E flow : Site(k, flow) \in Collection /\ ReadOn(n) \in Flows(KindsOf, flow)
    BY <1>1, <1>2, <1>3, <1>6, <2>1, InputCollected
  <2> QED BY <1>5, <2>1, <2>2
<1>7. ASSUME here.what = "lookup"
      PROVE  here.slots[1] \in interface.lookup_slots[here.relation]
  <2>1. LookUpRight(here) BY <1>2, <1>7 DEF HereRight, Nowhere
  <2>2. here.relation \in Relations BY <1>4, <2>1, SlotSound DEF LookUpRight
  <2>3. Lookup(here.relation, here.slots[1]) \in Collection BY <1>1, <1>7 DEF Announces
  <2> QED BY <1>5, <2>2, <2>3
<1> QED BY <1>5, <1>6, <1>7 DEF InterfaceCovers, InputOps

LEMMA CoveredInit == Init => Covered
BY DEF Init, Covered

LEMMA CoveredStays ==
    ASSUME Covered, UNCHANGED <<typing_vars, interface>>, interface # Underived,
           NEW g, g = here', Announces(g)
    PROVE  Covered'
<1>1. UNCHANGED typing_tables /\ phase' = phase BY DEF typing_tables, typing_vars
<1>2. Announced' = Announced /\ Announces(g)' BY <1>1, AnnouncedKept
<1>3. Announces(here)' BY <1>2 DEF Announces, Passed
<1> QED BY <1>1, <1>2, <1>3 DEF Covered, Underived

LEMMA CoveredNext ==
    Forms /\ Ordering /\ Tables /\ Evaluates /\ Covered /\ [Next]_vars => Covered'
<1> SUFFICES ASSUME Forms, Ordering, Tables, Evaluates, Covered, [Next]_vars PROVE Covered'
  OBVIOUS
<1>1. CASE UNCHANGED <<typing_vars, here, interface>>
  <2>1. CASE interface = Underived BY <1>1, <2>1 DEF Covered, Underived
  <2>2. CASE interface # Underived
    <3>1. PICK g : g = here OBVIOUS
    <3>2. Announces(g) /\ g = here' BY <1>1, <2>2, <3>1 DEF Covered
    <3> QED BY <1>1, <2>2, <3>2, CoveredStays
  <2> QED BY <2>1, <2>2
<1>2. CASE (Lowering \/ Check) /\ UNCHANGED <<here, interface>>
  <2>1. phase # "accepted"
    <3>1. Lowering => phase # "accepted"
      BY DEF Lowering, Direct, DeclareKinds, DirectAggregate, RefuseAggregate, DirectMember,
         RefuseMember, DirectTerms, DirectOther, StampKinds, Directing
    <3> QED BY <1>2, <3>1, CheckingPhase
  <2> QED BY <1>2, <2>1 DEF Covered, Underived
<1>3. CASE DeriveInterface
  <2>1. /\ phase = "accepted" /\ interface = Underived /\ interface' = Announced
        /\ UNCHANGED <<typing_vars, here>>
    BY <1>3 DEF DeriveInterface
  <2>2. UNCHANGED typing_tables /\ phase' = phase BY <2>1 DEF typing_tables, typing_vars
  <2>3. Announced' = Announced BY <2>2, AnnouncedKept
  <2>4. here' = Nowhere BY <2>1 DEF Covered
  <2>5. Announces(here)' BY <2>4 DEF Announces, Nowhere
  <2>6. Announced # Underived BY DEF Announced, Underived
  <2> QED BY <2>1, <2>2, <2>3, <2>5, <2>6 DEF Covered, Underived
<1>4. CASE interface # Underived /\ Evaluate /\ UNCHANGED interface
  <2>1. phase = "accepted" /\ Announces(here) BY <1>4 DEF Covered
  <2>2. PICK S : Accepted(S) /\ HereRight(S, here) BY <2>1 DEF Evaluates
  <2>3. Compiled(S) BY <2>1, <2>2, EvaluatesCompiled
  <2>4. PICK g : g = here' OBVIOUS
  <2>5. Announces(g) BY <1>4, <2>1, <2>2, <2>3, <2>4, AnnouncesOn
  <2>6. UNCHANGED typing_vars BY <1>4 DEF Evaluate, Query, Read, Traverse
  <2> QED BY <1>4, <2>4, <2>5, <2>6, CoveredStays
<1>5. FindOrder \/ UNCHANGED vars => UNCHANGED <<typing_vars, here, interface>>
  BY DEF FindOrder, vars
<1> QED BY <1>1, <1>2, <1>3, <1>4, <1>5 DEF Next, Compile, Lowering

(* An artifact's interface is a superset of what evaluating it comes to: *)
(* whatever rule is queried and whichever reads are followed from it, each *)
(* input is read on an id of a kind announced for it, each relation is *)
(* looked up by a slot announced for it, and no announced kind is missing *)
(* from the roster of entities. *)
THEOREM InterfaceSound == Spec => []InterfaceCovers
<1>1. Init => Tables /\ Walks /\ Evaluates /\ Kinded /\ Covered
  <2>1. Init => phase \in {"declared", "kinds"} BY DEF Init, TypingInit
  <2> QED BY <2>1, TablesInit, KindedInit, CoveredInit DEF Walks, Evaluates
<1>2. Forms /\ Forms' /\ Ordering /\ Tables /\ Walks /\ Evaluates /\ Kinded /\ Covered /\ [Next]_vars
          => Tables' /\ Walks' /\ Evaluates' /\ Kinded' /\ Covered'
  BY TablesNext, WalksNext, EvaluatesNext, KindedNext, CoveredNext
<1>3. Forms /\ Ordering /\ Tables /\ Evaluates /\ Kinded /\ Covered => InterfaceCovers
  BY CoveredExact
<1> QED BY <1>1, <1>2, <1>3, FormsHold, PTL DEF Spec
=============================================================================
