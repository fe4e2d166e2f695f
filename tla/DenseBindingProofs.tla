-------------------------- MODULE DenseBindingProofs --------------------------
(***************************************************************************)
(* Theorem about DenseBinding for every program and every batch: a batch   *)
(* is bound exactly if it is well formed (BindsExactly).                   *)
(*                                                                         *)
(* Offsets that pass the checks are exactly those of a division of the     *)
(* related rows among the root rows: the division is read off them, and    *)
(* they count its rows. The invariant says what each phase has established *)
(* of the keys and relations it has passed.                                *)
(***************************************************************************)
EXTENDS DenseBinding, SequenceTheorems, FiniteSetTheorems, WellFoundedInduction, TLAPS

(* Binding alone, over any program and any batches, one after the other.   *)
Supplied ==
    /\ batch.rows \in Nat
    /\ program.relations \in Seq(Range(program.relations))
    /\ \A key \in DOMAIN batch.keys :
         Of(key).offsets \in Seq(Nat) /\ Of(key).stated \in Nat \cup {None}

Request ==
    /\ phase = "requested" /\ phase' = "root"
    /\ UNCHANGED <<given, next, order, built>>

Follow == phase = "bound" /\ Rebind /\ Supplied' /\ UNCHANGED program

BindingNext ==
    \/ Request \/ CheckRoot \/ RefuseRoot \/ RefuseSchema \/ CheckSchema \/ FinishSchemas
    \/ ConfirmKey \/ BindColumns \/ BindKey \/ FinishKeys \/ BindRelation \/ FinishRelations
    \/ Follow

BindingSpec == Unbound /\ Supplied /\ [][BindingNext]_<<given, binding>>

-----------------------------------------------------------------------------
(* Every nonempty set of numbers has a least one.                          *)
LEMMA LeastNumber ==
    ASSUME NEW S \in SUBSET Nat, S # {}
    PROVE  \E m \in S : \A k \in S : m <= k
<1> DEFINE R == OpToRel(<, Nat)
<1>1. IsWellFoundedOn(R, Nat)
  BY NatLessThanWellFounded
<1>2. \A x, y \in Nat : x < y => <<x, y>> \in R
  BY DEF OpToRel
<1> HIDE DEF R
<1>3. PICK m \in S : \A k \in S : <<k, m>> \notin R
  BY <1>1, WFMin
<1>4. \A k \in S : m <= k
  <2> TAKE k \in S
  <2>1. k \in Nat /\ m \in Nat /\ ~(k < m)
    BY <1>2, <1>3
  <2> QED BY <2>1
<1> QED BY <1>4

(* Offsets of `rows` root rows, as `check_offsets` accepts them.           *)
Offsets(s, rows) ==
    /\ s \in Seq(Nat) /\ rows \in Nat /\ Len(s) = rows + 1 /\ s[1] = 0
    /\ \A i \in 1..rows : s[i] <= s[i + 1]

LEMMA OffsetsAscend ==
    ASSUME NEW s, NEW rows, Offsets(s, rows), NEW a \in 1..rows + 1, NEW b \in 1..rows + 1, a <= b
    PROVE  s[a] <= s[b]
<1>0. rows \in Nat /\ \A i \in 1..rows + 1 : s[i] \in Nat
  BY DEF Offsets
<1>1. SUFFICES ASSUME ~(s[a] <= s[b])
               PROVE  FALSE
  OBVIOUS
<1>2. PICK S : S = {c \in a..b : s[c] < s[a]}
  OBVIOUS
<1>3. S \in SUBSET Nat /\ b \in S
  BY <1>0, <1>1, <1>2
<1>4. PICK m \in S : \A k \in S : m <= k
  BY <1>3, LeastNumber
<1>5. m \in a..b /\ s[m] < s[a] /\ m # a
  BY <1>0, <1>2
<1>6. m - 1 \in 1..rows /\ m - 1 \in a..b /\ (m - 1) + 1 = m /\ m - 1 \in 1..rows + 1
  BY <1>0, <1>5
<1>7. s[m - 1] <= s[m]
  BY <1>6 DEF Offsets
<1>8. s[m - 1] < s[a]
  BY <1>0, <1>5, <1>6, <1>7
<1>9. m - 1 \in S
  BY <1>2, <1>6, <1>8
<1> QED BY <1>4, <1>5, <1>9

LEMMA OffsetsBound ==
    ASSUME NEW s, NEW rows, Offsets(s, rows)
    PROVE  /\ rows \in Nat /\ rows + 1 \in 1..rows + 1
           /\ \A i \in 1..rows + 1 : s[i] \in Nat /\ s[i] <= s[rows + 1]
<1>1. rows \in Nat /\ rows + 1 \in 1..rows + 1 /\ \A i \in 1..rows + 1 : s[i] \in Nat
  BY DEF Offsets
<1>2. \A i \in 1..rows + 1 : i <= rows + 1
  BY <1>1
<1> QED BY <1>1, <1>2, OffsetsAscend

(* Every related row lies between the offsets of one root row.             *)
Within(s, i, row) == s[row] < i /\ i <= s[row + 1]

LEMMA OwnerExists ==
    ASSUME NEW s, NEW rows, Offsets(s, rows), NEW i \in 1..s[rows + 1]
    PROVE  \E row \in 1..rows : Within(s, i, row)
<1>0. rows \in Nat /\ rows + 1 \in 1..rows + 1 /\ s[1] = 0 /\ \A c \in 1..rows + 1 : s[c] \in Nat
  BY DEF Offsets
<1>1. PICK S : S = {c \in 1..rows + 1 : i <= s[c]}
  OBVIOUS
<1>2. S \in SUBSET Nat /\ rows + 1 \in S
  BY <1>0, <1>1
<1>3. PICK m \in S : \A k \in S : m <= k
  BY <1>2, LeastNumber
<1>4. m \in 1..rows + 1 /\ i <= s[m] /\ m # 1
  BY <1>0, <1>1
<1>5. m - 1 \in 1..rows /\ (m - 1) + 1 = m /\ m - 1 \in 1..rows + 1
  BY <1>0, <1>4
<1>6. m - 1 \notin S
  BY <1>3, <1>4
<1>7. s[m - 1] < i
  BY <1>0, <1>1, <1>5, <1>6
<1> QED BY <1>4, <1>5, <1>7 DEF Within

(* `owner` divides s[rows + 1] related rows among `rows` root rows.        *)
Division(owner, s, rows) ==
    /\ \A i, j \in DOMAIN owner : i <= j => owner[i] <= owner[j]
    /\ s = [row \in 1..rows + 1 |-> Cardinality({i \in DOMAIN owner : owner[i] < row})]

LEMMA OffsetsDivide ==
    ASSUME NEW s, NEW rows, Offsets(s, rows), NEW owner,
           owner = [i \in 1..s[rows + 1] |-> CHOOSE row \in 1..rows : Within(s, i, row)]
    PROVE  owner \in [1..s[rows + 1] -> 1..rows] /\ Division(owner, s, rows)
<1>1. /\ rows \in Nat /\ s[rows + 1] \in Nat /\ DOMAIN owner = 1..s[rows + 1]
      /\ \A i \in 1..rows + 1 : s[i] \in Nat /\ s[i] <= s[rows + 1]
  BY OffsetsBound
<1>2. ASSUME NEW i \in DOMAIN owner
      PROVE  owner[i] \in 1..rows /\ Within(s, i, owner[i])
  BY <1>1, OwnerExists
<1>3. owner \in [1..s[rows + 1] -> 1..rows]
  BY <1>1, <1>2
<1>4. ASSUME NEW i \in DOMAIN owner, NEW row \in 1..rows + 1
      PROVE  owner[i] < row <=> i <= s[row]
  <2>1. PICK a \in 1..rows : a = owner[i]
    BY <1>2
  <2>2. Within(s, i, a)
    BY <1>2, <2>1
  <2>3. PICK b : b = a + 1
    OBVIOUS
  <2>4. a \in 1..rows + 1 /\ b \in 1..rows + 1 /\ i \in Nat
    BY <1>1, <2>3
  <2>5. s[a] < i /\ i <= s[b]
    BY <2>2, <2>3 DEF Within
  <2>6. s[a] \in Nat /\ s[b] \in Nat /\ s[row] \in Nat
    BY <1>1, <2>4
  <2>7. CASE a < row
    <3>1. b <= row
      BY <1>1, <2>3, <2>7
    <3>2. s[b] <= s[row]
      BY <2>4, <3>1, OffsetsAscend
    <3>3. i <= s[row]
      BY <2>4, <2>5, <2>6, <3>2
    <3> QED BY <2>1, <2>7, <3>3
  <2>8. CASE ~(a < row)
    <3>1. row <= a
      BY <1>1, <2>8
    <3>2. s[row] <= s[a]
      BY <2>4, <3>1, OffsetsAscend
    <3>3. ~(i <= s[row])
      BY <2>4, <2>5, <2>6, <3>2
    <3> QED BY <2>1, <2>8, <3>3
  <2> QED BY <2>7, <2>8
<1>5. ASSUME NEW i \in DOMAIN owner, NEW j \in DOMAIN owner, i <= j
      PROVE  owner[i] <= owner[j]
  <2>1. PICK a \in 1..rows, b \in 1..rows : a = owner[i] /\ b = owner[j]
    BY <1>2
  <2>2. Within(s, j, b)
    BY <1>2, <2>1
  <2>3. PICK c : c = b + 1
    OBVIOUS
  <2>4. c \in 1..rows + 1 /\ i \in Nat /\ j \in Nat
    BY <1>1, <2>3
  <2>5. j <= s[c] /\ s[c] \in Nat
    BY <1>1, <2>2, <2>3, <2>4 DEF Within
  <2>6. i <= s[c]
    BY <1>5, <2>4, <2>5
  <2>7. a < c
    BY <1>4, <2>1, <2>4, <2>6
  <2> QED BY <2>1, <2>3, <2>7
<1>6. ASSUME NEW row \in 1..rows + 1
      PROVE  s[row] = Cardinality({i \in DOMAIN owner : owner[i] < row})
  <2>1. s[row] \in Nat /\ s[row] <= s[rows + 1]
    BY <1>1
  <2>2. \A i \in DOMAIN owner : owner[i] < row <=> i <= s[row]
    BY <1>4
  <2>4. PICK m \in Nat, n \in Nat : m = s[row] /\ n = s[rows + 1] /\ m <= n
    BY <1>1, <2>1
  <2>5. {i \in 1..n : i <= m} = 1..m
    BY <2>4
  <2>6. {i \in DOMAIN owner : owner[i] < row} = {i \in 1..n : i <= m}
    BY <1>1, <2>2, <2>4
  <2>3. Cardinality(1..s[row]) = s[row]
    BY <2>1, FS_Interval
  <2> QED BY <2>3, <2>4, <2>5, <2>6
<1>7. s = [row \in 1..rows + 1 |-> s[row]]
  BY DEF Offsets
<1> QED BY <1>3, <1>5, <1>6, <1>7 DEF Division

LEMMA DivisionOffsets ==
    ASSUME NEW s \in Seq(Nat), NEW rows \in Nat, NEW n \in Nat, NEW owner \in [1..n -> 1..rows],
           Division(owner, s, rows)
    PROVE  Offsets(s, rows) /\ s[rows + 1] = n
<1>1. /\ DOMAIN s = 1..rows + 1 /\ DOMAIN s = 1..Len(s) /\ Len(s) \in Nat
      /\ \A row \in 1..rows + 1 : s[row] = Cardinality({i \in 1..n : owner[i] < row})
  BY DEF Division
<1>2. Len(s) = rows + 1 /\ 1 \in 1..rows + 1 /\ rows + 1 \in 1..rows + 1
  BY <1>1
<1>3. \A i \in 1..n : owner[i] \in 1..rows
  OBVIOUS
<1>4. s[1] = 0
  <2>1. {i \in 1..n : owner[i] < 1} = {}
    BY <1>3
  <2> QED BY <2>1, <1>1, <1>2, FS_EmptySet
<1>5. s[rows + 1] = n
  <2>1. {i \in 1..n : owner[i] < rows + 1} = 1..n
    BY <1>3
  <2>2. Cardinality(1..n) = n
    BY FS_Interval
  <2> QED BY <2>1, <2>2, <1>1, <1>2
<1>6. ASSUME NEW i \in 1..rows
      PROVE  s[i] <= s[i + 1]
  <2>1. PICK S, T : S = {j \in 1..n : owner[j] < i} /\ T = {j \in 1..n : owner[j] < i + 1}
    OBVIOUS
  <2>2. S \in SUBSET T /\ T \in SUBSET (1..n)
    BY <1>3, <2>1
  <2>3. IsFiniteSet(1..n)
    BY FS_Interval
  <2>4. IsFiniteSet(T)
    BY <2>2, <2>3, FS_Subset
  <2>5. Cardinality(S) <= Cardinality(T)
    BY <2>2, <2>4, FS_Subset
  <2>6. i \in 1..rows + 1 /\ i + 1 \in 1..rows + 1
    OBVIOUS
  <2>7. s[i] = Cardinality(S) /\ s[i + 1] = Cardinality(T)
    BY <1>1, <2>1, <2>6
  <2> QED BY <2>5, <2>7
<1> QED BY <1>2, <1>4, <1>5, <1>6 DEF Offsets

-----------------------------------------------------------------------------
(* A key is well formed exactly if it passes every check.                  *)
Passed(key) == ~BadOffsets(key) /\ Confirmed(key) /\ RelatedRows(key) <= MaxRows /\ Misfits(key) = {}

KeySupplied(key) ==
    /\ batch.rows \in Nat /\ key \in DOMAIN batch.keys
    /\ Of(key).offsets \in Seq(Nat) /\ Of(key).stated \in Nat \cup {None}

LEMMA GoodOffsets ==
    ASSUME NEW key, KeySupplied(key), ~BadOffsets(key)
    PROVE  /\ Offsets(Of(key).offsets, batch.rows)
           /\ RelatedRows(key) \in Nat
           /\ Of(key).stated \in {None, RelatedRows(key)}
<1>1. PICK s, rows : s = Of(key).offsets /\ rows = batch.rows
  OBVIOUS
<1>2. s \in Seq(Nat) /\ rows \in Nat
  BY <1>1 DEF KeySupplied
<1>3. Len(s) = rows + 1 /\ s[1] = 0 /\ Of(key).stated \in {None, RelatedRows(key)}
  BY <1>1 DEF BadOffsets
<1>4. ASSUME NEW i \in 1..rows
      PROVE  s[i] <= s[i + 1]
  <2>1. i \in 1..Len(s) - 1 /\ i \in 1..Len(s) /\ i + 1 \in 1..Len(s)
    BY <1>2, <1>3
  <2>2. ~(s[i] > s[i + 1])
    BY <1>1, <2>1 DEF BadOffsets
  <2>3. s[i] \in Nat /\ s[i + 1] \in Nat
    BY <1>2, <2>1
  <2> QED BY <2>2, <2>3
<1>5. Offsets(s, rows)
  BY <1>2, <1>3, <1>4 DEF Offsets
<1>6. s[rows + 1] \in Nat
  BY <1>5, OffsetsBound
<1> QED BY <1>1, <1>3, <1>5, <1>6 DEF RelatedRows

LEMMA OwnersDivide ==
    ASSUME NEW key, KeySupplied(key), ~BadOffsets(key)
    PROVE  /\ OwnersOf(key) \in [1..RelatedRows(key) -> 1..batch.rows]
           /\ Divides(OwnersOf(key), key)
<1>1. PICK s, rows, owner : s = Of(key).offsets /\ rows = batch.rows /\ owner = OwnersOf(key)
  OBVIOUS
<1>2. Offsets(s, rows) /\ RelatedRows(key) = s[rows + 1]
  BY <1>1, GoodOffsets DEF RelatedRows
<1>3. owner = [i \in 1..s[rows + 1] |-> CHOOSE row \in 1..rows : Within(s, i, row)]
  BY <1>1 DEF OwnersOf, Within, RelatedRows
<1>4. owner \in [1..s[rows + 1] -> 1..rows] /\ Division(owner, s, rows)
  BY <1>2, <1>3, OffsetsDivide
<1> QED BY <1>1, <1>2, <1>4 DEF Division, Divides

LEMMA KeyExact ==
    ASSUME NEW key, KeySupplied(key)
    PROVE  KeyFormed(key) <=> Passed(key)
<1>1. ASSUME Passed(key)
      PROVE  KeyFormed(key)
  <2>1. PICK n \in Nat : n = RelatedRows(key)
    BY <1>1, GoodOffsets DEF Passed
  <2>2. n \in 0..MaxRows
    BY <1>1, <2>1, BindingAssumption DEF Passed
  <2>3. \E owner \in [1..n -> 1..batch.rows] : Divides(owner, key)
    BY <1>1, <2>1, OwnersDivide DEF Passed
  <2>4. Of(key).stated \in {None, n}
    BY <1>1, <2>1, GoodOffsets DEF Passed
  <2>5. Lengths(key) \subseteq {n}
    BY <1>1, <2>1 DEF Passed, Misfits
  <2>6. n = 0 \/ Of(key).stated = n \/ Lengths(key) # {}
    BY <1>1, <2>1, <2>4 DEF Passed, Confirmed
  <2> QED BY <2>2, <2>3, <2>4, <2>5, <2>6 DEF KeyFormed, KeySupplied
<1>2. ASSUME KeyFormed(key)
      PROVE  Passed(key)
  <2>1. PICK n \in 0..MaxRows :
           /\ \E owner \in [1..n -> 1..batch.rows] : Divides(owner, key)
           /\ Of(key).stated \in {None, n}
           /\ Lengths(key) \subseteq {n}
           /\ n = 0 \/ Of(key).stated = n \/ Lengths(key) # {}
    BY <1>2 DEF KeyFormed
  <2>2. PICK owner \in [1..n -> 1..batch.rows] : Divides(owner, key)
    BY <2>1
  <2>3. PICK s, rows : s = Of(key).offsets /\ rows = batch.rows
    OBVIOUS
  <2>4. s \in Seq(Nat) /\ rows \in Nat /\ n \in Nat /\ owner \in [1..n -> 1..rows]
    BY <2>3, BindingAssumption DEF KeySupplied
  <2>5. Division(owner, s, rows)
    BY <2>2, <2>3 DEF Divides, Division
  <2>6. Offsets(s, rows) /\ s[rows + 1] = n
    BY <2>4, <2>5, DivisionOffsets
  <2>7. RelatedRows(key) = n
    BY <2>3, <2>6 DEF RelatedRows
  <2>8. Len(s) = rows + 1 /\ s[1] = 0
    BY <2>6 DEF Offsets
  <2>9. ASSUME NEW i \in 1..Len(s) - 1
        PROVE  ~(s[i] > s[i + 1])
    <3>1. i \in 1..rows /\ i \in 1..rows + 1 /\ i + 1 \in 1..rows + 1
      BY <2>4, <2>8
    <3>2. s[i] <= s[i + 1] /\ s[i] \in Nat /\ s[i + 1] \in Nat
      BY <3>1, <2>6, OffsetsBound DEF Offsets
    <3> QED BY <3>2
  <2>10. ~BadOffsets(key)
    BY <2>1, <2>3, <2>7, <2>8, <2>9 DEF BadOffsets
  <2>11. RelatedRows(key) <= MaxRows /\ Misfits(key) = {}
    BY <2>1, <2>7, BindingAssumption DEF Misfits
  <2>12. Confirmed(key)
    BY <2>1, <2>7, BindingAssumption DEF Confirmed
  <2> QED BY <2>10, <2>11, <2>12 DEF Passed
<1> QED BY <1>1, <1>2

-----------------------------------------------------------------------------
(* What each phase has established.                                        *)
Phases == {"requested", "root", "schemas", "confirm", "keys", "relations", "bound"} \cup Misbound

(* The keys read by the first n relations, whose offsets are accepted.     *)
Ordered(n) ==
    /\ \A i \in 1..n : program.relations[i].key \in Range(order)
    /\ \A key \in Range(order) :
         ~BadOffsets(key) /\ \E i \in 1..n : key = program.relations[i].key

Piece(i) ==
    LET named == program.relations[i].inputs
        key == program.relations[i].key
    IN  [key |-> key, owners |-> OwnersOf(key),
         columns |-> [j \in 1..Len(named) |->
                        IF named[j] \in DOMAIN Of(key).columns THEN named[j] ELSE None]]

Walked ==
    /\ phase \in {"requested", "root"} => next = 1 /\ order = <<>>
    /\ phase = "schemas" => next <= Len(program.relations) + 1 /\ Ordered(next - 1)
    /\ phase \in {"confirm", "keys", "relations", "bound"} => Ordered(Len(program.relations))
    /\ phase = "confirm" => next <= Len(order) + 1 /\ \A i \in 1..next - 1 : Passed(order[i])
    /\ phase \in {"keys", "relations", "bound"} => \A key \in Range(order) : Passed(key)

Owned ==
    \A key \in DOMAIN batch.keys :
        /\ owners[key] # <<>> =>
             /\ phase \in {"keys", "relations", "bound"} /\ key \in Range(order)
             /\ owners[key] = OwnersOf(key)
        /\ phase \notin {"relations", "bound"} => taken[key] = {}

Given(key) == owners[key] = OwnersOf(key) /\ supplied[key] \cup taken[key] = DOMAIN Of(key).columns

Kept ==
    /\ phase = "keys" => next <= Len(order) + 1 /\ \A i \in 1..next - 1 : Given(order[i])
    /\ phase \in {"relations", "bound"} => \A key \in Range(order) : Given(key)

Built ==
    /\ phase \notin {"relations", "bound"} => bound = <<>>
    /\ phase = "relations" => next <= Len(program.relations) + 1 /\ bound = [i \in 1..next - 1 |-> Piece(i)]
    /\ phase = "bound" => bound = [i \in 1..Len(program.relations) |-> Piece(i)]

Typed ==
    /\ phase \in Phases /\ next \in Nat \ {0} /\ order \in Seq(DOMAIN batch.keys)
    /\ DOMAIN owners = DOMAIN batch.keys
    /\ DOMAIN supplied = DOMAIN batch.keys
    /\ DOMAIN taken = DOMAIN batch.keys

Binding ==
    /\ Supplied /\ Typed
    /\ phase \in Misbound => ~WellFormed
    /\ phase \in {"schemas", "confirm", "keys", "relations", "bound"} => RootFormed
    /\ Walked /\ Owned /\ Kept /\ Built

Owning(s, rows, n) == [i \in 1..n |-> CHOOSE row \in 1..rows : s[row] < i /\ i <= s[row + 1]]

LEMMA GivenStays ==
    ASSUME given' = given
    PROVE  /\ batch' = batch /\ program' = program
           /\ Supplied' <=> Supplied
           /\ RootFormed' <=> RootFormed
           /\ WellFormed' <=> WellFormed
           /\ \A key : BadOffsets(key)' <=> BadOffsets(key)
           /\ \A key : Passed(key)' <=> Passed(key)
           /\ \A key : OwnersOf(key)' = OwnersOf(key)
           /\ \A key : DOMAIN Of(key)'.columns = DOMAIN Of(key).columns
           /\ \A i : Piece(i)' = Piece(i)
<1>1. batch' = batch /\ program' = program
  BY DEF given
<1>2. \A key : Of(key)' = Of(key)
  BY <1>1 DEF Of
<1>3. \A key : RelatedRows(key)' = RelatedRows(key)
  BY <1>1, <1>2, Zenon DEF RelatedRows
<1>4. \A key : Lengths(key)' = Lengths(key)
  BY <1>2, Zenon DEF Lengths
<1>5. \A key : BadOffsets(key)' <=> BadOffsets(key)
  BY <1>1, <1>2, <1>3, Zenon DEF BadOffsets
<1>6. \A key : Passed(key)' <=> Passed(key)
  BY <1>2, <1>3, <1>4, <1>5, Zenon DEF Passed, Misfits, Confirmed
<1>7. \A key : OwnersOf(key)' = OwnersOf(key)
  <2> TAKE key
  <2>1. /\ OwnersOf(key) = Owning(Of(key).offsets, batch.rows, RelatedRows(key))
        /\ OwnersOf(key)' = Owning(Of(key)'.offsets, batch'.rows, RelatedRows(key)')
    BY DEF OwnersOf, Owning
  <2> QED BY <2>1, <1>1, <1>2, <1>3, Zenon
<1>8. \A key : KeyFormed(key)' <=> KeyFormed(key)
  BY <1>1, <1>2, <1>4, Zenon DEF KeyFormed, Divides
<1>9. RootFormed' <=> RootFormed
  BY <1>1, Zenon DEF RootFormed
<1>10. WellFormed' <=> WellFormed
  BY <1>1, <1>8, <1>9, Zenon DEF WellFormed
<1>11. Supplied' <=> Supplied
  BY <1>1, <1>2, Zenon DEF Supplied
<1>12. \A i : Piece(i)' = Piece(i)
  BY <1>1, <1>2, <1>7, Zenon DEF Piece
<1> QED BY <1>1, <1>2, <1>5, <1>6, <1>7, <1>9, <1>10, <1>11, <1>12

-----------------------------------------------------------------------------
(* What refutes that a batch is well formed.                               *)
LEMMA SuppliedKey ==
    ASSUME Supplied, NEW key \in DOMAIN batch.keys
    PROVE  KeySupplied(key)
BY DEF Supplied, KeySupplied

LEMMA Illformed ==
    ASSUME Supplied, NEW i \in 1..Len(program.relations), NEW key, key = program.relations[i].key,
           ~(key \in DOMAIN batch.keys /\ Passed(key))
    PROVE  ~WellFormed
<1>1. ~KeyFormed(key)
  <2>1. CASE key \notin DOMAIN batch.keys
    BY <2>1 DEF KeyFormed
  <2>2. CASE key \in DOMAIN batch.keys
    BY <2>2, SuppliedKey, KeyExact
  <2> QED BY <2>1, <2>2
<1>2. PICK r : r = program.relations[i]
  OBVIOUS
<1>3. r \in Range(program.relations)
  BY <1>2 DEF Supplied, Range
<1> QED BY <1>1, <1>2, <1>3 DEF WellFormed

LEMMA Misread ==
    ASSUME NEW relation, MisfitRead(relation)
    PROVE  Misfits(relation.key) # {}
BY DEF MisfitRead, Misfits, Lengths

LEMMA WellFormedExact ==
    ASSUME Supplied, RootFormed,
           \A i \in 1..Len(program.relations) : program.relations[i].key \in DOMAIN batch.keys
                                                /\ Passed(program.relations[i].key)
    PROVE  WellFormed
<1>1. ASSUME NEW r \in Range(program.relations)
      PROVE  KeyFormed(r.key)
  <2>1. PICK i \in 1..Len(program.relations) : r = program.relations[i]
    BY DEF Supplied, Range
  <2>2. r.key \in DOMAIN batch.keys /\ Passed(r.key)
    BY <2>1
  <2>3. KeySupplied(r.key)
    BY <2>2, SuppliedKey
  <2> QED BY <2>2, <2>3, KeyExact
<1> QED BY <1>1 DEF WellFormed

-----------------------------------------------------------------------------
(* Until a batch is valid nothing is built.                                *)
LEMMA Untouched ==
    ASSUME Binding, given' = given, built' = built,
           phase \notin {"keys", "relations", "bound"}, phase' \notin {"keys", "relations", "bound"}
    PROVE  /\ Supplied' /\ Owned' /\ Kept' /\ Built'
           /\ DOMAIN owners' = DOMAIN batch'.keys
           /\ DOMAIN supplied' = DOMAIN batch'.keys
           /\ DOMAIN taken' = DOMAIN batch'.keys
<1>1. batch' = batch /\ Supplied'
  BY GivenStays DEF Binding
<1>2. owners' = owners /\ supplied' = supplied /\ taken' = taken /\ bound' = bound
  BY DEF built
<1>3. \A key \in DOMAIN batch.keys : owners[key] = <<>> /\ taken[key] = {}
  BY DEF Binding, Owned
<1>4. Owned'
  BY <1>1, <1>2, <1>3 DEF Owned
<1>5. Kept'
  BY DEF Kept
<1>6. Built'
  BY <1>2 DEF Binding, Built
<1> QED BY <1>1, <1>2, <1>4, <1>5, <1>6 DEF Binding, Typed

LEMMA RefuseStep ==
    ASSUME Binding, NEW error \in Misbound, Refuse(error), ~WellFormed,
           phase \notin {"keys", "relations", "bound"}
    PROVE  Binding'
<1>1. /\ given' = given /\ built' = built /\ next' = next /\ order' = order
      /\ phase' \in Misbound
  BY DEF Refuse
<1>2. phase' \notin {"requested", "root", "schemas", "confirm", "keys", "relations", "bound"}
  BY <1>1 DEF Misbound
<1>3. batch' = batch /\ ~WellFormed'
  BY <1>1, GivenStays
<1>4. /\ Supplied' /\ Owned' /\ Kept' /\ Built'
      /\ DOMAIN owners' = DOMAIN batch'.keys
      /\ DOMAIN supplied' = DOMAIN batch'.keys
      /\ DOMAIN taken' = DOMAIN batch'.keys
  BY <1>1, <1>2, Untouched
<1>5. Typed'
  BY <1>1, <1>3, <1>4 DEF Typed, Phases, Binding
<1>6. Walked'
  BY <1>2 DEF Walked
<1> QED BY <1>2, <1>3, <1>4, <1>5, <1>6 DEF Binding

LEMMA RequestStep ==
    ASSUME Binding, Request
    PROVE  Binding'
<1>1. given' = given /\ built' = built /\ next' = next /\ order' = order
  BY DEF Request
<1>2. phase = "requested" /\ phase' = "root"
  BY DEF Request
<1>3. /\ Supplied' /\ Owned' /\ Kept' /\ Built'
      /\ DOMAIN owners' = DOMAIN batch'.keys
      /\ DOMAIN supplied' = DOMAIN batch'.keys
      /\ DOMAIN taken' = DOMAIN batch'.keys
  BY <1>1, <1>2, Untouched
<1>4. batch' = batch
  BY <1>1, GivenStays
<1>5. Typed'
  BY <1>1, <1>2, <1>3, <1>4 DEF Typed, Phases, Binding
<1>6. Walked'
  BY <1>1, <1>2 DEF Walked, Binding
<1> QED BY <1>2, <1>3, <1>5, <1>6 DEF Binding, Misbound

LEMMA RefuseRootStep ==
    ASSUME Binding, RefuseRoot
    PROVE  Binding'
<1>1. phase = "root"
  BY DEF RefuseRoot
<1>2. PICK error \in {"too_many_rows", "root_length"} : Refuse(error) /\ ~RootFormed
  BY BindingAssumption DEF RefuseRoot, RootFormed, Binding, Supplied
<1> QED BY <1>1, <1>2, RefuseStep DEF WellFormed, Misbound

LEMMA CheckRootStep ==
    ASSUME Binding, CheckRoot
    PROVE  Binding'
<1>1. /\ given' = given /\ built' = built /\ order' = order
      /\ phase = "root" /\ phase' = "schemas" /\ next' = 1
  BY DEF CheckRoot, Move
<1>2. /\ Supplied' /\ Owned' /\ Kept' /\ Built'
      /\ DOMAIN owners' = DOMAIN batch'.keys
      /\ DOMAIN supplied' = DOMAIN batch'.keys
      /\ DOMAIN taken' = DOMAIN batch'.keys
  BY <1>1, Untouched
<1>3. batch' = batch /\ program' = program /\ (RootFormed' <=> RootFormed)
  BY <1>1, GivenStays
<1>4. RootFormed'
  BY <1>3 DEF CheckRoot, RootFormed
<1>5. Typed'
  BY <1>1, <1>2, <1>3 DEF Typed, Phases, Binding
<1>6. order' = <<>> /\ Len(program.relations) \in Nat
  BY <1>1 DEF Binding, Walked, Supplied
<1>7. Ordered(0)'
  BY <1>6 DEF Ordered, Range
<1>8. Walked'
  BY <1>1, <1>3, <1>6, <1>7 DEF Walked
<1> QED BY <1>1, <1>2, <1>4, <1>5, <1>8 DEF Binding, Misbound

LEMMA RefuseSchemaStep ==
    ASSUME Binding, RefuseSchema
    PROVE  Binding'
<1>1. phase = "schemas" /\ next \in 1..Len(program.relations) /\ Supplied
  BY DEF RefuseSchema, Walking, Binding, Typed, Supplied
<1>2. PICK key : key = program.relations[next].key
  OBVIOUS
<1>3. CASE key \notin DOMAIN batch.keys
  <2>1. ~WellFormed
    BY <1>1, <1>2, <1>3, Illformed
  <2>2. Refuse("unknown_relation")
    BY <1>2, <1>3 DEF RefuseSchema, Schema
  <2> QED BY <1>1, <2>1, <2>2, RefuseStep DEF Misbound
<1>4. CASE key \in DOMAIN batch.keys /\ key \notin Range(order) /\ BadOffsets(key)
  <2>1. ~Passed(key)
    BY <1>4 DEF Passed
  <2>2. ~WellFormed
    BY <1>1, <1>2, <2>1, Illformed
  <2>3. Refuse("offsets")
    BY <1>2, <1>4 DEF RefuseSchema, Schema
  <2> QED BY <1>1, <2>2, <2>3, RefuseStep DEF Misbound
<1>5. CASE key \in DOMAIN batch.keys /\ ~(key \notin Range(order) /\ BadOffsets(key))
  <2>1. MisfitRead(program.relations[next]) /\ Refuse("related_length")
    BY <1>2, <1>5 DEF RefuseSchema, Schema
  <2>2. Misfits(key) # {}
    BY <1>2, <2>1, Misread
  <2>3. ~Passed(key)
    BY <2>2 DEF Passed
  <2>4. ~WellFormed
    BY <1>1, <1>2, <2>3, Illformed
  <2> QED BY <1>1, <2>1, <2>4, RefuseStep DEF Misbound
<1> QED BY <1>3, <1>4, <1>5

(* A sequence appended to, and what it holds.                              *)
LEMMA AppendRange ==
    ASSUME NEW S, NEW s \in Seq(S), NEW x \in S
    PROVE  Append(s, x) \in Seq(S) /\ Range(Append(s, x)) = Range(s) \cup {x}
<1>1. PICK t, n : t = Append(s, x) /\ n = Len(s)
  OBVIOUS
<1>2. n \in Nat /\ DOMAIN s = 1..n
  BY <1>1
<1>3. t \in Seq(S) /\ DOMAIN t = 1..n + 1 /\ t[n + 1] = x /\ \A i \in 1..n : t[i] = s[i]
  BY <1>1, <1>2
<1>4. Range(t) \subseteq Range(s) \cup {x}
  <2> SUFFICES ASSUME NEW y \in Range(t)
               PROVE  y \in Range(s) \cup {x}
    OBVIOUS
  <2>1. PICK i \in 1..n + 1 : y = t[i]
    BY <1>3 DEF Range
  <2>2. i \in 1..n \/ i = n + 1
    BY <1>2
  <2> QED BY <2>1, <2>2, <1>2, <1>3 DEF Range
<1>5. Range(s) \subseteq Range(t)
  <2> SUFFICES ASSUME NEW y \in Range(s)
               PROVE  y \in Range(t)
    OBVIOUS
  <2>1. PICK i \in 1..n : y = s[i]
    BY <1>2 DEF Range
  <2>2. i \in DOMAIN t /\ y = t[i]
    BY <1>2, <1>3, <2>1
  <2> QED BY <2>2 DEF Range
<1>6. x \in Range(t)
  <2>1. n + 1 \in DOMAIN t
    BY <1>2, <1>3
  <2> QED BY <2>1, <1>3 DEF Range
<1> QED BY <1>1, <1>3, <1>4, <1>5, <1>6

LEMMA CheckSchemaStep ==
    ASSUME Binding, CheckSchema
    PROVE  Binding'
<1>1. /\ given' = given /\ built' = built /\ phase = "schemas" /\ phase' = "schemas"
      /\ next' = next + 1 /\ next \in 1..Len(program.relations) /\ next \in Nat
      /\ Len(program.relations) \in Nat
  BY DEF CheckSchema, Walking, Binding, Typed, Supplied
<1>2. /\ Supplied' /\ Owned' /\ Kept' /\ Built'
      /\ DOMAIN owners' = DOMAIN batch'.keys
      /\ DOMAIN supplied' = DOMAIN batch'.keys
      /\ DOMAIN taken' = DOMAIN batch'.keys
  BY <1>1, Untouched
<1>3. /\ batch' = batch /\ program' = program /\ (RootFormed' <=> RootFormed)
      /\ \A key : BadOffsets(key)' <=> BadOffsets(key)
  BY <1>1, GivenStays
<1>4. PICK key : key = program.relations[next].key
  OBVIOUS
<1>5. /\ key \in DOMAIN batch.keys /\ (key \in Range(order) \/ ~BadOffsets(key))
      /\ order' = IF key \in Range(order) THEN order ELSE Append(order, key)
  BY <1>4 DEF CheckSchema, Schema
<1>6. order \in Seq(DOMAIN batch.keys) /\ Ordered(next - 1)
  BY <1>1 DEF Binding, Typed, Walked
<1>7. ~BadOffsets(key)
  BY <1>5, <1>6 DEF Ordered
<1>8. order' \in Seq(DOMAIN batch.keys) /\ Range(order') = Range(order) \cup {key}
  <2>1. PICK S, s, x : S = DOMAIN batch.keys /\ s = order /\ x = key
    OBVIOUS
  <2>2. s \in Seq(S) /\ x \in S
    BY <1>5, <1>6, <2>1
  <2>3. Append(s, x) \in Seq(S) /\ Range(Append(s, x)) = Range(s) \cup {x}
    BY <2>2, AppendRange
  <2>4. CASE key \in Range(order)
    BY <2>4, <1>5, <1>6
  <2>5. CASE key \notin Range(order)
    BY <2>1, <2>3, <2>5, <1>5
  <2> QED BY <2>4, <2>5
<1>9. PICK n : n = next
  OBVIOUS
<1>10. Ordered(n)'
  <2>1. ASSUME NEW i \in 1..n
        PROVE  program.relations[i].key \in Range(order')
    <3>1. i \in 1..n - 1 \/ i = n
      BY <1>1, <1>9
    <3> QED BY <3>1, <1>4, <1>6, <1>8, <1>9 DEF Ordered
  <2>2. ASSUME NEW k \in Range(order')
        PROVE  ~BadOffsets(k) /\ \E i \in 1..n : k = program.relations[i].key
    <3>1. CASE k = key
      BY <3>1, <1>1, <1>4, <1>7, <1>9
    <3>2. CASE k \in Range(order)
      <4>1. PICK i \in 1..n - 1 : k = program.relations[i].key
        BY <1>6, <1>9, <3>2 DEF Ordered
      <4>2. i \in 1..n
        BY <1>1, <1>9
      <4> QED BY <1>6, <3>2, <4>1, <4>2 DEF Ordered
    <3> QED BY <3>1, <3>2, <1>8
  <2>3. \A i \in 1..n : program'.relations[i].key \in Range(order')
    BY <1>3, <2>1
  <2>4. \A k \in Range(order') : ~BadOffsets(k)' /\ \E i \in 1..n : k = program'.relations[i].key
    BY <1>3, <2>2
  <2> QED BY <2>3, <2>4 DEF Ordered
<1>11. RootFormed'
  BY <1>1, <1>3 DEF Binding
<1>12. Typed'
  BY <1>1, <1>2, <1>3, <1>8 DEF Typed, Phases
<1>13. n = next' - 1 /\ next' <= Len(program'.relations) + 1
  BY <1>1, <1>3, <1>9
<1>14. Walked'
  BY <1>1, <1>10, <1>13 DEF Walked
<1> QED BY <1>1, <1>2, <1>11, <1>12, <1>14 DEF Binding, Misbound

LEMMA OrderedStays ==
    ASSUME given' = given, order' = order
    PROVE  \A n : Ordered(n)' <=> Ordered(n)
<1>1. program' = program /\ \A key : BadOffsets(key)' <=> BadOffsets(key)
  BY GivenStays
<1> QED BY <1>1, Zenon DEF Ordered

LEMMA FinishSchemasStep ==
    ASSUME Binding, FinishSchemas
    PROVE  Binding'
<1>1. /\ given' = given /\ built' = built /\ order' = order
      /\ phase = "schemas" /\ phase' = "confirm" /\ next' = 1 /\ next > Len(program.relations)
  BY DEF FinishSchemas, Move
<1>2. /\ Supplied' /\ Owned' /\ Kept' /\ Built'
      /\ DOMAIN owners' = DOMAIN batch'.keys
      /\ DOMAIN supplied' = DOMAIN batch'.keys
      /\ DOMAIN taken' = DOMAIN batch'.keys
  BY <1>1, Untouched
<1>3. batch' = batch /\ program' = program /\ (RootFormed' <=> RootFormed)
  BY <1>1, GivenStays
<1>4. RootFormed'
  BY <1>1, <1>3 DEF Binding
<1>5. Typed'
  BY <1>1, <1>2, <1>3 DEF Typed, Phases, Binding
<1>6. PICK n : n = Len(program.relations)
  OBVIOUS
<1>7. n = next - 1 /\ Ordered(next - 1)
  BY <1>1, <1>6 DEF Binding, Typed, Walked, Supplied
<1>8. Ordered(n)'
  BY <1>1, <1>7, OrderedStays
<1>9. Len(order) \in Nat
  BY DEF Binding, Typed
<1>10. Walked'
  BY <1>1, <1>3, <1>6, <1>8, <1>9 DEF Walked
<1> QED BY <1>1, <1>2, <1>4, <1>5, <1>10 DEF Binding, Misbound

(* Every key in order is read by some relation.                            *)
LEMMA ReadKey ==
    ASSUME Binding, phase \in {"confirm", "keys", "relations", "bound"}, NEW key \in Range(order)
    PROVE  /\ key \in DOMAIN batch.keys /\ ~BadOffsets(key)
           /\ \E i \in 1..Len(program.relations) : key = program.relations[i].key
<1>1. Ordered(Len(program.relations)) /\ order \in Seq(DOMAIN batch.keys)
  BY DEF Binding, Walked, Typed
<1>2. key \in DOMAIN batch.keys
  BY <1>1 DEF Range
<1> QED BY <1>1, <1>2 DEF Ordered

LEMMA ConfirmKeyStep ==
    ASSUME Binding, ConfirmKey
    PROVE  Binding'
<1>1. phase = "confirm" /\ next \in 1..Len(order) /\ Supplied /\ order \in Seq(DOMAIN batch.keys)
  BY DEF ConfirmKey, Binding, Typed
<1>2. PICK key : key = order[next]
  OBVIOUS
<1>3. key \in Range(order)
  BY <1>1, <1>2 DEF Range
<1>4. PICK i \in 1..Len(program.relations) : key = program.relations[i].key
  BY <1>1, <1>3, ReadKey
<1>5. ASSUME ~Passed(key)
      PROVE  ~WellFormed
  BY <1>1, <1>4, <1>5, Illformed
<1>6. CASE ~Confirmed(key) /\ Misfits(key) = {}
  <2>1. Refuse("unconfirmed")
    BY <1>2, <1>6 DEF ConfirmKey
  <2> QED BY <1>1, <1>5, <1>6, <2>1, RefuseStep DEF Passed, Misbound
<1>7. CASE ~(~Confirmed(key) /\ Misfits(key) = {}) /\ Oversized(key)
  <2>1. Refuse("too_many_related")
    BY <1>2, <1>7 DEF ConfirmKey
  <2>2. key \in DOMAIN batch.keys /\ ~BadOffsets(key)
    BY <1>1, <1>3, ReadKey
  <2>3. RelatedRows(key) \in Nat
    BY <1>1, <2>2, SuppliedKey, GoodOffsets
  <2>4. ~Passed(key)
    BY <1>7, <2>3, BindingAssumption DEF Passed, Oversized
  <2> QED BY <1>1, <1>5, <2>1, <2>4, RefuseStep DEF Misbound
<1>8. CASE /\ ~(~Confirmed(key) /\ Misfits(key) = {}) /\ ~Oversized(key)
           /\ Misfits(key) # {}
  <2>1. Refuse("related_length")
    BY <1>2, <1>8 DEF ConfirmKey
  <2> QED BY <1>1, <1>5, <1>8, <2>1, RefuseStep DEF Passed, Misbound
<1>9. CASE /\ ~(~Confirmed(key) /\ Misfits(key) = {}) /\ ~Oversized(key)
           /\ Misfits(key) = {}
  <2>1. /\ given' = given /\ built' = built /\ order' = order /\ phase' = phase
        /\ next' = next + 1
    BY <1>2, <1>9 DEF ConfirmKey
  <2>2. key \in DOMAIN batch.keys /\ ~BadOffsets(key)
    BY <1>1, <1>3, ReadKey
  <2>3. RelatedRows(key) \in Nat
    BY <1>1, <2>2, SuppliedKey, GoodOffsets
  <2>4. Passed(key)
    BY <1>9, <2>2, <2>3, BindingAssumption DEF Passed, Oversized
  <2>5. /\ Supplied' /\ Owned' /\ Kept' /\ Built'
        /\ DOMAIN owners' = DOMAIN batch'.keys
        /\ DOMAIN supplied' = DOMAIN batch'.keys
        /\ DOMAIN taken' = DOMAIN batch'.keys
    BY <1>1, <2>1, Untouched
  <2>6. /\ batch' = batch /\ program' = program /\ (RootFormed' <=> RootFormed)
        /\ \A k : Passed(k)' <=> Passed(k)
    BY <2>1, GivenStays
  <2>7. RootFormed'
    BY <1>1, <2>6 DEF Binding
  <2>8. Typed'
    BY <1>1, <2>1, <2>5, <2>6 DEF Typed, Phases, Binding
  <2>9. PICK n : n = Len(program.relations)
    OBVIOUS
  <2>10. Ordered(n)'
    BY <1>1, <2>1, <2>9, OrderedStays DEF Binding, Walked
  <2>11. ASSUME NEW j \in 1..next' - 1
         PROVE  Passed(order[j])
    <3>1. j \in 1..next - 1 \/ j = next
      BY <1>1, <2>1
    <3> QED BY <1>1, <1>2, <2>4, <3>1 DEF Binding, Walked
  <2>12. \A j \in 1..next' - 1 : Passed(order[j])'
    <3> TAKE j \in 1..next' - 1
    <3>1. PICK k : k = order[j]
      OBVIOUS
    <3>2. Passed(k)'
      BY <2>6, <2>11, <3>1
    <3> QED BY <2>1, <3>1, <3>2
  <2>13. next' <= Len(order') + 1
    BY <1>1, <2>1
  <2>14. Walked'
    BY <1>1, <2>1, <2>6, <2>9, <2>10, <2>12, <2>13 DEF Walked
  <2> QED BY <1>1, <2>1, <2>5, <2>7, <2>8, <2>14 DEF Binding, Misbound
<1> QED BY <1>6, <1>7, <1>8, <1>9

LEMMA BindColumnsStep ==
    ASSUME Binding, BindColumns
    PROVE  Binding'
<1>1. /\ given' = given /\ order' = order /\ owners' = owners /\ supplied' = supplied
      /\ taken' = taken /\ bound' = bound
      /\ phase = "confirm" /\ phase' = "keys" /\ next' = 1 /\ next > Len(order)
  BY DEF BindColumns, Move
<1>2. /\ batch' = batch /\ program' = program /\ Supplied' /\ RootFormed'
      /\ \A k : Passed(k)' <=> Passed(k)
  BY <1>1, GivenStays DEF Binding
<1>3. Typed'
  BY <1>1, <1>2 DEF Typed, Phases, Binding
<1>4. PICK n : n = Len(program.relations)
  OBVIOUS
<1>5. Ordered(n)'
  BY <1>1, <1>4, OrderedStays DEF Binding, Walked
<1>6. ASSUME NEW key \in Range(order)
      PROVE  Passed(key)
  <2>1. PICK i \in 1..Len(order) : key = order[i]
    BY DEF Range, Binding, Typed
  <2>2. i \in 1..next - 1
    BY <1>1 DEF Binding, Typed
  <2> QED BY <1>1, <2>1, <2>2 DEF Binding, Walked
<1>7. \A key \in Range(order') : Passed(key)'
  BY <1>1, <1>2, <1>6
<1>8. Walked'
  BY <1>1, <1>2, <1>4, <1>5, <1>7 DEF Walked
<1>9. Owned'
  BY <1>1, <1>2 DEF Owned, Binding
<1>10. Kept'
  <2>1. Len(order) \in Nat
    BY DEF Binding, Typed
  <2> QED BY <1>1, <2>1 DEF Kept
<1>11. Built'
  BY <1>1 DEF Built, Binding
<1> QED BY <1>1, <1>2, <1>3, <1>8, <1>9, <1>10, <1>11 DEF Binding, Misbound

(* While a valid batch is bound, what was established of it stays.         *)
LEMMA ValidStays ==
    ASSUME Binding, given' = given, order' = order, next' \in Nat \ {0},
           phase \in {"keys", "relations", "bound"}, phase' \in {"keys", "relations", "bound"},
           DOMAIN owners' = DOMAIN owners, DOMAIN supplied' = DOMAIN supplied,
           DOMAIN taken' = DOMAIN taken
    PROVE  Supplied' /\ Typed' /\ RootFormed' /\ Walked'
<1>1. /\ batch' = batch /\ program' = program /\ Supplied' /\ RootFormed'
      /\ \A k : Passed(k)' <=> Passed(k)
  BY GivenStays DEF Binding
<1>2. Typed'
  BY <1>1 DEF Typed, Phases, Binding
<1>3. PICK n : n = Len(program.relations)
  OBVIOUS
<1>4. Ordered(n)'
  BY <1>3, OrderedStays DEF Binding, Walked
<1>5. \A key \in Range(order') : Passed(key)'
  BY <1>1 DEF Binding, Walked
<1>6. Walked'
  BY <1>1, <1>3, <1>4, <1>5 DEF Walked
<1> QED BY <1>1, <1>2, <1>6

LEMMA BindKeyStep ==
    ASSUME Binding, BindKey
    PROVE  Binding'
<1>1. /\ given' = given /\ order' = order /\ taken' = taken /\ bound' = bound
      /\ phase = "keys" /\ phase' = "keys" /\ next' = next + 1
      /\ next \in 1..Len(order) /\ Len(order) \in Nat /\ next \in Nat
  BY DEF BindKey, Binding, Typed
<1>2. PICK key, new, names : key = order[next] /\ new = OwnersOf(key) /\ names = DOMAIN Of(key).columns
  OBVIOUS
<1>3. /\ owners' = [owners EXCEPT ![key] = new]
      /\ supplied' = [supplied EXCEPT ![key] = names]
  BY <1>2 DEF BindKey
<1>4. /\ DOMAIN owners = DOMAIN batch.keys /\ DOMAIN supplied = DOMAIN batch.keys
      /\ DOMAIN taken = DOMAIN batch.keys /\ order \in Seq(DOMAIN batch.keys)
  BY DEF Binding, Typed
<1>5. key \in Range(order) /\ key \in DOMAIN batch.keys
  BY <1>1, <1>2, <1>4 DEF Range
<1>6. /\ owners'[key] = new /\ supplied'[key] = names
      /\ \A k \in DOMAIN batch.keys : k # key => owners'[k] = owners[k] /\ supplied'[k] = supplied[k]
      /\ DOMAIN owners' = DOMAIN owners /\ DOMAIN supplied' = DOMAIN supplied
      /\ DOMAIN taken' = DOMAIN taken
  BY <1>1, <1>3, <1>4, <1>5
<1>7. Supplied' /\ Typed' /\ RootFormed' /\ Walked'
  <2>1. next' \in Nat \ {0}
    BY <1>1
  <2> QED BY <1>1, <1>6, <2>1, ValidStays
<1>8. /\ batch' = batch /\ \A k : OwnersOf(k)' = OwnersOf(k)
      /\ \A k : DOMAIN Of(k)'.columns = DOMAIN Of(k).columns
  BY <1>1, GivenStays
<1>9. Owned'
  <2>1. ASSUME NEW k \in DOMAIN batch.keys
        PROVE  /\ owners'[k] # <<>> => k \in Range(order) /\ owners'[k] = OwnersOf(k)
               /\ taken[k] = {}
    <3>1. CASE k = key
      BY <3>1, <1>1, <1>2, <1>5, <1>6 DEF Binding, Owned
    <3>2. CASE k # key
      BY <3>2, <1>1, <1>6 DEF Binding, Owned
    <3> QED BY <3>1, <3>2
  <2> QED BY <1>1, <1>8, <2>1 DEF Owned
<1>10. Kept'
  <2>1. ASSUME NEW i \in 1..next' - 1
        PROVE  /\ owners'[order[i]] = OwnersOf(order[i])
               /\ supplied'[order[i]] \cup taken[order[i]] = DOMAIN Of(order[i]).columns
    <3>1. PICK k : k = order[i]
      OBVIOUS
    <3>2. k \in DOMAIN batch.keys
      BY <1>1, <1>4, <3>1
    <3>3. CASE k = key
      BY <3>1, <3>2, <3>3, <1>1, <1>2, <1>6 DEF Binding, Owned
    <3>4. CASE k # key
      <4>1. i \in 1..next - 1
        BY <1>1, <1>2, <3>1, <3>4
      <4>2. owners[k] = OwnersOf(k) /\ supplied[k] \cup taken[k] = DOMAIN Of(k).columns
        BY <1>1, <3>1, <4>1 DEF Binding, Kept, Given
      <4> QED BY <1>6, <3>1, <3>2, <3>4, <4>2
    <3> QED BY <3>3, <3>4
  <2>2. next' <= Len(order') + 1
    BY <1>1
  <2>3. \A i \in 1..next' - 1 : Given(order[i])'
    <3> TAKE i \in 1..next' - 1
    <3>1. PICK k : k = order[i]
      OBVIOUS
    <3>2. Given(k)'
      BY <1>1, <1>8, <2>1, <3>1 DEF Given
    <3> QED BY <1>1, <3>1, <3>2
  <2> QED BY <1>1, <2>2, <2>3 DEF Kept
<1>11. Built'
  BY <1>1 DEF Built, Binding
<1> QED BY <1>1, <1>7, <1>9, <1>10, <1>11 DEF Binding, Misbound

LEMMA FinishKeysStep ==
    ASSUME Binding, FinishKeys
    PROVE  Binding'
<1>1. /\ given' = given /\ order' = order /\ owners' = owners /\ supplied' = supplied
      /\ taken' = taken /\ bound' = bound
      /\ phase = "keys" /\ phase' = "relations" /\ next' = 1 /\ next > Len(order)
  BY DEF FinishKeys, Move, built
<1>2. Supplied' /\ Typed' /\ RootFormed' /\ Walked'
  BY <1>1, ValidStays
<1>3. /\ batch' = batch /\ program' = program /\ \A k : OwnersOf(k)' = OwnersOf(k)
      /\ \A k : DOMAIN Of(k)'.columns = DOMAIN Of(k).columns
  BY <1>1, GivenStays
<1>4. Owned'
  BY <1>1, <1>3 DEF Owned, Binding
<1>5. ASSUME NEW key \in Range(order)
      PROVE  Given(key)
  <2>1. PICK i \in 1..Len(order) : key = order[i]
    BY DEF Range, Binding, Typed
  <2>2. i \in 1..next - 1
    BY <1>1 DEF Binding, Typed
  <2> QED BY <1>1, <2>1, <2>2 DEF Binding, Kept
<1>6. Kept'
  BY <1>1, <1>3, <1>5 DEF Kept, Given
<1>7. Built'
  <2>1. bound = <<>> /\ Len(program.relations) \in Nat
    BY <1>1 DEF Built, Binding, Supplied
  <2>2. bound' = [i \in 1..next' - 1 |-> Piece(i)']
    BY <1>1, <2>1
  <2> QED BY <1>1, <1>3, <2>1, <2>2 DEF Built
<1> QED BY <1>1, <1>2, <1>4, <1>6, <1>7 DEF Binding, Misbound

LEMMA PieceAppended ==
    ASSUME NEW n \in Nat, NEW f, NEW x
    PROVE  Append([i \in 1..n |-> f[i]], x) = [i \in 1..n + 1 |-> IF i = n + 1 THEN x ELSE f[i]]
<1>1. PICK s : s = [i \in 1..n |-> f[i]]
  OBVIOUS
<1>2. s \in Seq({f[i] : i \in 1..n}) /\ Len(s) = n
  BY <1>1
<1>3. Append(s, x) = [i \in 1..n + 1 |-> IF i = n + 1 THEN x ELSE s[i]]
  <2>1. PICK S : S = {f[i] : i \in 1..n} \cup {x}
    OBVIOUS
  <2>2. s \in Seq(S) /\ x \in S
    BY <1>1, <2>1
  <2>3. PICK t : t = Append(s, x)
    OBVIOUS
  <2>4. t \in Seq(S) /\ Len(t) = n + 1
    BY <1>2, <2>2, <2>3
  <2>5. t = [i \in 1..n + 1 |-> t[i]]
    BY <2>4
  <2>6. \A i \in 1..n + 1 : t[i] = IF i = n + 1 THEN x ELSE s[i]
    BY <1>2, <2>2, <2>3
  <2> QED BY <2>3, <2>5, <2>6
<1>4. \A i \in 1..n + 1 : i = n + 1 \/ i \in 1..n
  OBVIOUS
<1> QED BY <1>1, <1>3, <1>4

LEMMA BindRelationStep ==
    ASSUME Binding, BindRelation
    PROVE  Binding'
<1>1. /\ given' = given /\ order' = order /\ owners' = owners
      /\ phase = "relations" /\ phase' = "relations" /\ next' = next + 1
      /\ next \in 1..Len(program.relations) /\ Len(program.relations) \in Nat /\ next \in Nat
  BY DEF BindRelation, Binding, Typed, Supplied
<1>0. PICK n \in Nat : n + 1 = next
  <2>1. next - 1 \in Nat /\ (next - 1) + 1 = next
    BY <1>1
  <2> QED BY <2>1
<1>2. PICK key, named, first :
        /\ n + 1 = next /\ key = program.relations[next].key
        /\ named = program.relations[next].inputs /\ first = Range(named) \cap supplied[key]
  BY <1>0
<1>3. /\ bound' = Append(bound, [key |-> key, owners |-> owners[key],
                                 columns |-> [i \in 1..Len(named) |-> ColumnFor(key, named[i])]])
      /\ taken' = [taken EXCEPT ![key] = @ \cup first]
      /\ supplied' = [supplied EXCEPT ![key] = @ \ first]
  BY <1>2 DEF BindRelation, Schema
<1>4. /\ DOMAIN owners = DOMAIN batch.keys /\ DOMAIN supplied = DOMAIN batch.keys
      /\ DOMAIN taken = DOMAIN batch.keys /\ order \in Seq(DOMAIN batch.keys)
  BY DEF Binding, Typed
<1>5. key \in Range(order) /\ key \in DOMAIN batch.keys
  BY <1>1, <1>2, <1>4 DEF Range, Binding, Walked, Ordered
<1>6. /\ supplied'[key] \cup taken'[key] = supplied[key] \cup taken[key]
      /\ \A k \in DOMAIN batch.keys : k # key => taken'[k] = taken[k] /\ supplied'[k] = supplied[k]
      /\ DOMAIN owners' = DOMAIN owners /\ DOMAIN supplied' = DOMAIN supplied
      /\ DOMAIN taken' = DOMAIN taken
  <2>1. /\ supplied'[key] = supplied[key] \ first /\ taken'[key] = taken[key] \cup first
        /\ first \subseteq supplied[key]
    BY <1>2, <1>3, <1>4, <1>5
  <2>2. supplied'[key] \cup taken'[key] = supplied[key] \cup taken[key]
    BY <2>1
  <2> QED BY <1>1, <1>3, <1>4, <2>2
<1>7. Supplied' /\ Typed' /\ RootFormed' /\ Walked'
  <2>1. next' \in Nat \ {0}
    BY <1>1
  <2> QED BY <1>1, <1>6, <2>1, ValidStays
<1>8. /\ batch' = batch /\ program' = program /\ \A k : OwnersOf(k)' = OwnersOf(k)
      /\ \A k : DOMAIN Of(k)'.columns = DOMAIN Of(k).columns
      /\ \A i : Piece(i)' = Piece(i)
  BY <1>1, GivenStays
<1>9. Owned'
  BY <1>1, <1>8 DEF Owned, Binding
<1>10. \A k \in Range(order) : owners[k] = OwnersOf(k) /\ supplied[k] \cup taken[k] = DOMAIN Of(k).columns
  BY <1>1 DEF Binding, Kept, Given
<1>11. Kept'
  <2>1. ASSUME NEW k \in Range(order)
        PROVE  supplied'[k] \cup taken'[k] = supplied[k] \cup taken[k]
    <3>1. k \in DOMAIN batch.keys
      BY <1>4 DEF Range
    <3> QED BY <3>1, <1>6
  <2>2. \A k \in Range(order) : Given(k)'
    BY <2>1, <1>1, <1>8, <1>10 DEF Given
  <2> QED BY <1>1, <2>2 DEF Kept
<1>12. Built'
  <2>1. PICK x : x = [key |-> key, owners |-> owners[key],
                      columns |-> [i \in 1..Len(named) |-> ColumnFor(key, named[i])]]
    OBVIOUS
  <2>2. \A name : ColumnFor(key, name) = IF name \in DOMAIN Of(key).columns THEN name ELSE None
    BY <1>5, <1>10 DEF ColumnFor
  <2>3. x = Piece(next)
    BY <2>1, <2>2, <1>2, <1>5, <1>10 DEF Piece
  <2>4. PICK f : f = [i \in 1..n + 1 |-> Piece(i)]
    OBVIOUS
  <2>5. \A i \in 1..n : i \in 1..n + 1
    OBVIOUS
  <2>6. next - 1 = n
    BY <1>2
  <2>7. bound = [i \in 1..n |-> Piece(i)]
    BY <1>1, <2>6 DEF Binding, Built
  <2>8. bound = [i \in 1..n |-> f[i]]
    BY <2>4, <2>5, <2>7
  <2>9. Append(bound, x) = [i \in 1..n + 1 |-> IF i = n + 1 THEN x ELSE f[i]]
    BY <2>8, PieceAppended
  <2>10. n + 1 \in 1..n + 1 /\ f[n + 1] = x
    BY <2>3, <2>4, <1>2
  <2>11. bound' = [i \in 1..n + 1 |-> Piece(i)]
    BY <1>3, <2>1, <2>4, <2>9, <2>10
  <2>12. next' - 1 = n + 1 /\ next' <= Len(program'.relations) + 1
    BY <1>1, <1>2, <1>8
  <2> QED BY <1>1, <1>8, <2>11, <2>12 DEF Built
<1> QED BY <1>1, <1>7, <1>9, <1>11, <1>12 DEF Binding, Misbound

LEMMA FinishRelationsStep ==
    ASSUME Binding, FinishRelations
    PROVE  Binding'
<1>1. /\ given' = given /\ order' = order /\ owners' = owners /\ supplied' = supplied
      /\ taken' = taken /\ bound' = bound /\ next' = next
      /\ phase = "relations" /\ phase' = "bound" /\ next > Len(program.relations)
  BY DEF FinishRelations, built
<1>2. Supplied' /\ Typed' /\ RootFormed' /\ Walked'
  BY <1>1, ValidStays DEF Binding, Typed
<1>3. /\ batch' = batch /\ program' = program /\ \A k : OwnersOf(k)' = OwnersOf(k)
      /\ \A k : DOMAIN Of(k)'.columns = DOMAIN Of(k).columns
      /\ \A i : Piece(i)' = Piece(i)
  BY <1>1, GivenStays
<1>4. Owned'
  BY <1>1, <1>3 DEF Owned, Binding
<1>5. Kept'
  BY <1>1, <1>3 DEF Kept, Binding, Given
<1>6. Built'
  <2>1. next - 1 = Len(program.relations)
    <3>1. next <= Len(program.relations) + 1
      BY <1>1 DEF Built, Binding
    <3>2. next \in Nat /\ Len(program.relations) \in Nat
      BY DEF Binding, Typed, Supplied
    <3> QED BY <1>1, <3>1, <3>2
  <2>2. bound = [i \in 1..Len(program.relations) |-> Piece(i)]
    BY <1>1, <2>1 DEF Binding, Built
  <2> QED BY <1>1, <1>3, <2>2 DEF Built
<1> QED BY <1>1, <1>2, <1>4, <1>5, <1>6 DEF Binding, Misbound

(* Nothing of the last batch is left.                                      *)
LEMMA FollowStep ==
    ASSUME Binding, Follow
    PROVE  Binding'
<1>1. /\ phase' = "root" /\ next' = 1 /\ order' = <<>> /\ bound' = <<>> /\ Supplied'
      /\ owners' = [key \in DOMAIN batch'.keys |-> <<>>]
      /\ supplied' = [key \in DOMAIN batch'.keys |-> {}]
      /\ taken' = [key \in DOMAIN batch'.keys |-> {}]
  BY DEF Follow, Rebind
<1>2. Typed'
  BY <1>1 DEF Typed, Phases
<1>3. Walked' /\ Owned' /\ Kept' /\ Built'
  BY <1>1 DEF Walked, Owned, Kept, Built
<1> QED BY <1>1, <1>2, <1>3 DEF Binding, Misbound

-----------------------------------------------------------------------------
LEMMA BindingInit ==
    ASSUME Unbound, Supplied
    PROVE  Binding
<1>1. Typed
  BY DEF Unbound, Typed, Phases
<1>2. Walked /\ Owned /\ Kept /\ Built
  BY DEF Unbound, Walked, Owned, Kept, Built
<1> QED BY <1>1, <1>2 DEF Binding, Unbound, Misbound

LEMMA BindingStutter ==
    ASSUME Binding, UNCHANGED <<given, binding>>
    PROVE  Binding'
<1>1. /\ given' = given /\ order' = order /\ owners' = owners /\ supplied' = supplied
      /\ taken' = taken /\ bound' = bound /\ next' = next /\ phase' = phase
  BY DEF binding, built
<1>2. /\ batch' = batch /\ program' = program /\ \A k : OwnersOf(k)' = OwnersOf(k)
      /\ \A k : DOMAIN Of(k)'.columns = DOMAIN Of(k).columns
      /\ \A i : Piece(i)' = Piece(i) /\ \A k : Passed(k)' <=> Passed(k)
      /\ (WellFormed' <=> WellFormed) /\ (RootFormed' <=> RootFormed) /\ (Supplied' <=> Supplied)
  BY <1>1, GivenStays
<1>3. \A n : Ordered(n)' <=> Ordered(n)
  BY <1>1, OrderedStays
<1>4. Typed'
  BY <1>1, <1>2 DEF Typed, Binding
<1>5. Walked'
  BY <1>1, <1>2, <1>3, Zenon DEF Walked, Binding
<1>6. Owned'
  BY <1>1, <1>2 DEF Owned, Binding
<1>7. Kept'
  BY <1>1, <1>2 DEF Kept, Binding, Given
<1>8. Built'
  BY <1>1, <1>2 DEF Built, Binding
<1> QED BY <1>1, <1>2, <1>4, <1>5, <1>6, <1>7, <1>8 DEF Binding

LEMMA BindingStep ==
    ASSUME Binding, [BindingNext]_<<given, binding>>
    PROVE  Binding'
<1>1. CASE UNCHANGED <<given, binding>>
  BY <1>1, BindingStutter
<1>2. CASE BindingNext
  BY <1>2, RequestStep, CheckRootStep, RefuseRootStep, RefuseSchemaStep, CheckSchemaStep,
     FinishSchemasStep, ConfirmKeyStep, BindColumnsStep, BindKeyStep, FinishKeysStep,
     BindRelationStep, FinishRelationsStep, FollowStep DEF BindingNext
<1> QED BY <1>1, <1>2

LEMMA BindingSound ==
    ASSUME Binding
    PROVE  BindsExactly
<1>1. Supplied /\ Typed /\ Walked /\ Owned /\ Kept /\ Built
  BY DEF Binding
<1>2. AllocatesLate
  <2>1. SUFFICES ASSUME NEW key \in DOMAIN owners, owners[key] # <<>>
                 PROVE  phase \notin Misbound /\ Len(owners[key]) <= MaxRows
    BY DEF AllocatesLate
  <2>2. /\ key \in DOMAIN batch.keys /\ phase \in {"keys", "relations", "bound"}
        /\ owners[key] = OwnersOf(key) /\ Passed(key)
    BY <1>1, <2>1 DEF Typed, Owned, Walked
  <2>3. KeySupplied(key) /\ ~BadOffsets(key) /\ RelatedRows(key) <= MaxRows
    BY <1>1, <2>2, SuppliedKey DEF Passed
  <2>4. /\ RelatedRows(key) \in Nat
        /\ OwnersOf(key) \in [1..RelatedRows(key) -> 1..batch.rows]
    BY <2>3, GoodOffsets, OwnersDivide
  <2>5. Len(OwnersOf(key)) = RelatedRows(key)
    BY <2>4
  <2> QED BY <2>2, <2>3, <2>5 DEF Misbound
<1>3. ASSUME phase = "bound"
      PROVE  WellFormed /\ Len(bound) = Len(program.relations) /\ ColumnsShared
  <2>1. PICK n \in Nat : n = Len(program.relations)
    BY <1>1 DEF Supplied
  <2>2. bound = [i \in 1..n |-> Piece(i)]
    BY <1>1, <1>3, <2>1 DEF Built
  <2>3. Len(bound) = n
    BY <2>2
  <2>4. ASSUME NEW i \in 1..n
        PROVE  /\ program.relations[i].key \in DOMAIN batch.keys
               /\ Passed(program.relations[i].key)
    <3>1. program.relations[i].key \in Range(order)
      BY <1>1, <1>3, <2>1 DEF Walked, Ordered
    <3>2. program.relations[i].key \in DOMAIN batch.keys
      BY <1>1, <3>1 DEF Typed, Range
    <3> QED BY <1>1, <1>3, <3>1, <3>2 DEF Walked
  <2>5. RootFormed
    BY <1>3 DEF Binding
  <2>6. WellFormed
    BY <1>1, <2>1, <2>4, <2>5, WellFormedExact
  <2>7. ASSUME NEW i \in 1..n
        PROVE  LET r == bound[i]
                   named == program.relations[i].inputs
               IN  /\ r.key = program.relations[i].key
                   /\ r.owners \in [1..RelatedRows(r.key) -> 1..batch.rows]
                   /\ Divides(r.owners, r.key)
                   /\ r.columns = [j \in 1..Len(named) |->
                        IF named[j] \in DOMAIN Of(r.key).columns THEN named[j] ELSE None]
    <3>1. PICK key : key = program.relations[i].key
      OBVIOUS
    <3>2. KeySupplied(key) /\ ~BadOffsets(key)
      BY <1>1, <2>4, <3>1, SuppliedKey DEF Passed
    <3>3. /\ OwnersOf(key) \in [1..RelatedRows(key) -> 1..batch.rows]
          /\ Divides(OwnersOf(key), key)
      BY <3>2, OwnersDivide
    <3>4. bound[i] = Piece(i)
      BY <2>2
    <3>5. /\ Piece(i).key = key /\ Piece(i).owners = OwnersOf(key)
          /\ Piece(i).columns = [j \in 1..Len(program.relations[i].inputs) |->
               IF program.relations[i].inputs[j] \in DOMAIN Of(key).columns
               THEN program.relations[i].inputs[j] ELSE None]
      BY <3>1 DEF Piece
    <3>6. PICK r : r = bound[i]
      OBVIOUS
    <3>7. r.key = key /\ r.owners = OwnersOf(key)
      BY <3>4, <3>5, <3>6
    <3>8. r.owners \in [1..RelatedRows(r.key) -> 1..batch.rows] /\ Divides(r.owners, r.key)
      BY <3>3, <3>7
    <3>9. r.columns = [j \in 1..Len(program.relations[i].inputs) |->
            IF program.relations[i].inputs[j] \in DOMAIN Of(r.key).columns
            THEN program.relations[i].inputs[j] ELSE None]
      BY <3>4, <3>5, <3>6, <3>7
    <3> QED BY <3>1, <3>6, <3>7, <3>8, <3>9
  <2> QED BY <2>1, <2>3, <2>6, <2>7 DEF ColumnsShared
<1>4. phase \in Misbound => ~WellFormed
  BY DEF Binding
<1> QED BY <1>2, <1>3, <1>4 DEF BindsExactly

(* Whatever the program and the batches, a batch is bound exactly if each  *)
(* key the program reads divides its related rows among the root rows and  *)
(* a count or a column confirms how many there are; every relation then    *)
(* has the columns its key was supplied with, and owners are built only    *)
(* for batches that are bound (`bind_batch`, `bind_relation_key`).         *)
THEOREM BindingCorrect == BindingSpec => []BindsExactly
<1>1. Unbound /\ Supplied => Binding
  BY BindingInit
<1>2. Binding /\ [BindingNext]_<<given, binding>> => Binding'
  BY BindingStep
<1>3. Binding => BindsExactly
  BY BindingSound
<1> QED BY <1>1, <1>2, <1>3, PTL DEF BindingSpec
=============================================================================
