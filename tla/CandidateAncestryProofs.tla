----------------------- MODULE CandidateAncestryProofs -----------------------
(***************************************************************************)
(* Theorem about CandidateAncestry for every forest of declared relations, *)
(* chains that run in a circle included: the index, once it is built,      *)
(* answers as the chains of sources do (IndexExact).                       *)
(*                                                                         *)
(* The walk is looked at as the names on its stack, the names entered, and *)
(* for each of these where its interval starts and how far it reaches so   *)
(* far: up to the next number as long as it is on the stack. Intervals are *)
(* then laminar, and whoever lies within another's interval has a source   *)
(* that does too.                                                          *)
(***************************************************************************)
EXTENDS CandidateAncestry, SequenceTheorems, FiniteSetTheorems, WellFoundedInduction, TLAPS

AncestrySpec == Init /\ NoSource \notin Relations /\ [][Next]_vars

-----------------------------------------------------------------------------
(* Every nonempty set of numbers has a least one.                          *)
LEMMA LeastNumber ==
    ASSUME NEW S \in SUBSET Nat, S # {}
    PROVE  \E m \in S : \A k \in S : m <= k
<1> DEFINE R == OpToRel(<, Nat)
<1>1. IsWellFoundedOn(R, Nat)
  BY NatLessThanWellFounded
<1>2. \A x, y \in Nat : x < y => <<x, y>> \in R
  BY DEF OpToRel
<1> HIDE DEF R
<1>3. PICK m \in S : \A k \in S : <<k, m>> \notin R
  BY <1>1, WFMin
<1>4. \A k \in S : m <= k
  <2> TAKE k \in S
  <2>1. k \in Nat /\ m \in Nat /\ ~(k < m)
    BY <1>2, <1>3
  <2> QED BY <2>1
<1> QED BY <1>4

(* r filters the tuples of another relation, src[r].                       *)
Sourced(src, r) == r \in DOMAIN src /\ src[r] # NoSource

(* Each name's children, listed once each.                                 *)
Family(src, kids) ==
    /\ \A n \in DOMAIN kids :
         /\ n # NoSource
         /\ Len(kids[n]) \in Nat
         /\ \A i \in 1..Len(kids[n]) : Sourced(src, kids[n][i]) /\ src[kids[n][i]] = n
         /\ \A i, j \in 1..Len(kids[n]) : kids[n][i] = kids[n][j] => i = j
    /\ \A r \in DOMAIN src : r \in DOMAIN kids
    /\ \A r : Sourced(src, r) =>
         /\ src[r] \in DOMAIN kids
         /\ \E i \in 1..Len(kids[src[r]]) : kids[src[r]][i] = r

-----------------------------------------------------------------------------
(* The walk: L names nm on its stack, D the names entered, lo and hi their *)
(* intervals, nx the next number. Names on the stack that were entered are *)
(* waiting to be left.                                                     *)
On(L, nm, n) == \E i \in 1..L : nm[i] = n

Numbered(kids, L, nm, D, lo, hi, nx) ==
    /\ L \in Nat /\ nx \in Nat
    /\ \A i \in 1..L : nm[i] \in DOMAIN kids
    /\ \A n \in D : n \in DOMAIN kids /\ lo[n] \in Nat /\ hi[n] \in Nat
                    /\ lo[n] < hi[n] /\ hi[n] <= nx
    /\ \A n \in D : On(L, nm, n) => hi[n] = nx
    /\ \A a, b \in D : lo[a] = lo[b] => a = b

(* A name on the stack hangs from its source, the last one entered below.  *)
HangsFrom(src, nm, D, i, j) ==
    /\ j \in 1..i - 1 /\ Sourced(src, nm[i]) /\ nm[j] = src[nm[i]] /\ nm[j] \in D
    /\ \A k \in j + 1..i - 1 : nm[k] \notin D

Hanging(src, L, nm, D) ==
    /\ \A i, j \in 1..L : nm[i] = nm[j] => i = j
    /\ \A i \in 1..L : \/ i = 1 /\ ~Sourced(src, nm[i])
                       \/ \E j \in 1..i - 1 : HangsFrom(src, nm, D, i, j)

(* Of two intervals one lies in the other, and then in its source's, or    *)
(* they are apart.                                                         *)
Laminar(src, D, lo, hi) ==
    /\ \A n \in D : Sourced(src, n) =>
         src[n] \in D /\ lo[src[n]] < lo[n] /\ hi[n] <= hi[src[n]]
    /\ \A a, b \in D : lo[a] < lo[b] /\ lo[b] < hi[a] => Sourced(src, b) /\ lo[a] <= lo[src[b]]

(* Children are entered in order, and all of them in the end.              *)
InTurn(kids, L, nm, D, lo) ==
    /\ \A n \in D : \A i \in 1..Len(kids[n]) : kids[n][i] \in D \/ On(L, nm, kids[n][i])
    /\ \A i, j \in 1..L : i < j /\ nm[i] \in D /\ nm[j] \in D => lo[nm[i]] < lo[nm[j]]
    /\ \A n \in D : \A i, j \in 1..Len(kids[n]) :
         i < j /\ kids[n][j] \in D => kids[n][i] \in D /\ lo[kids[n][i]] < lo[kids[n][j]]
    /\ \A n \in D : \A x, y \in 1..Len(kids[n]), i, j \in 1..L :
         i < j /\ nm[i] = kids[n][x] /\ nm[j] = kids[n][y] /\ nm[i] \notin D /\ nm[j] \notin D
           => y < x

Walk(src, kids, L, nm, D, lo, hi, nx) ==
    /\ Family(src, kids)
    /\ Numbered(kids, L, nm, D, lo, hi, nx)
    /\ Hanging(src, L, nm, D)
    /\ Laminar(src, D, lo, hi)
    /\ InTurn(kids, L, nm, D, lo)

(* A root is put on an empty stack.                                        *)
LEMMA WalkRoot ==
    ASSUME NEW src, NEW kids, NEW nm, NEW D, NEW lo, NEW hi, NEW nx, NEW nm2,
           Walk(src, kids, 0, nm, D, lo, hi, nx),
           nm2[1] \in DOMAIN kids, nm2[1] \notin D, ~Sourced(src, nm2[1])
    PROVE  Walk(src, kids, 1, nm2, D, lo, hi, nx)
<1>1. \A i \in 1..1 : i = 1
  OBVIOUS
<1>2. \A n : ~On(0, nm, n) /\ (On(1, nm2, n) => n = nm2[1])
  BY DEF On
<1>3. Numbered(kids, 1, nm2, D, lo, hi, nx)
  BY <1>1, <1>2 DEF Walk, Numbered
<1>4. Hanging(src, 1, nm2, D)
  BY <1>1 DEF Hanging
<1>5. InTurn(kids, 1, nm2, D, lo)
  BY <1>1, <1>2 DEF Walk, InTurn
<1> QED BY <1>3, <1>4, <1>5 DEF Walk

(* The name on top, entered, is left.                                      *)
LEMMA WalkExit ==
    ASSUME NEW src, NEW kids, NEW L \in Nat, NEW nm, NEW D, NEW lo, NEW hi, NEW nx, L # 0,
           Walk(src, kids, L, nm, D, lo, hi, nx), nm[L] \in D
    PROVE  Walk(src, kids, L - 1, nm, D, lo, hi, nx)
<1>1. L - 1 \in Nat /\ \A i \in 1..L - 1 : i \in 1..L
  OBVIOUS
<1>2. \A n : On(L - 1, nm, n) => On(L, nm, n)
  BY <1>1 DEF On
<1>3. \A n : On(L, nm, n) => On(L - 1, nm, n) \/ n = nm[L]
  <2>1. \A i \in 1..L : i \in 1..L - 1 \/ i = L
    OBVIOUS
  <2> QED BY <2>1 DEF On
<1>4. Numbered(kids, L - 1, nm, D, lo, hi, nx)
  BY <1>1, <1>2 DEF Walk, Numbered
<1>5. Hanging(src, L - 1, nm, D)
  BY <1>1 DEF Walk, Hanging
<1>6. InTurn(kids, L - 1, nm, D, lo)
  <2>1. \A n \in D : \A i \in 1..Len(kids[n]) : kids[n][i] \in D \/ On(L - 1, nm, kids[n][i])
    BY <1>3 DEF Walk, InTurn
  <2> QED BY <1>1, <2>1 DEF Walk, InTurn
<1> QED BY <1>4, <1>5, <1>6 DEF Walk

(* The name on top, n, is entered: its children are put on the stack, the  *)
(* last one first.                                                         *)
Entering(kids, L, nm, D, lo, hi, nx, L2, nm2, D2, lo2, hi2) ==
    LET n == nm[L]
        m == Len(kids[n])
    IN  /\ L2 = L + m
        /\ \A i \in 1..L : nm2[i] = nm[i]
        /\ \A i \in 1..m : nm2[L + i] = kids[n][m + 1 - i]
        /\ D2 = D \cup {n}
        /\ lo2[n] = nx /\ hi2[n] = nx + 1
        /\ \A k \in D : lo2[k] = lo[k] /\ hi2[k] = IF On(L, nm, k) THEN nx + 1 ELSE hi[k]

(* The places above the top are those of the children.                     *)
LEMMA Places ==
    ASSUME NEW L \in Nat, NEW m \in Nat
    PROVE  /\ \A i \in 1..L + m : i \in 1..L \/ (i - L \in 1..m /\ L + (i - L) = i)
           /\ \A i \in 1..m : L + i \in 1..L + m /\ ~(L + i \in 1..L) /\ m + 1 - i \in 1..m
                              /\ m + 1 - (m + 1 - i) = i
           /\ \A i \in 1..L : i \in 1..L + m
<1> QED OBVIOUS

LEMMA OnEnter ==
    ASSUME NEW src, NEW kids, NEW L \in Nat, NEW nm, NEW D, NEW lo, NEW hi, NEW nx, L # 0,
           Walk(src, kids, L, nm, D, lo, hi, nx), nm[L] \notin D,
           NEW L2, NEW nm2, NEW D2, NEW lo2, NEW hi2,
           Entering(kids, L, nm, D, lo, hi, nx, L2, nm2, D2, lo2, hi2)
    PROVE  /\ \A k : On(L2, nm2, k) <=>
                       On(L, nm, k) \/ \E i \in 1..Len(kids[nm[L]]) : kids[nm[L]][i] = k
           /\ \A i \in 1..Len(kids[nm[L]]) : /\ ~On(L, nm, kids[nm[L]][i])
                                             /\ kids[nm[L]][i] \notin D
                                             /\ kids[nm[L]][i] # nm[L]
           /\ On(L, nm, nm[L]) /\ nm[L] \in DOMAIN kids /\ Len(kids[nm[L]]) \in Nat
<1>1. PICK n, c, m : n = nm[L] /\ c = kids[n] /\ m = Len(kids[n])
  OBVIOUS
<1>2. L \in 1..L
  OBVIOUS
<1>3. n \in DOMAIN kids /\ m \in Nat /\ On(L, nm, n) /\ n \notin D
  BY <1>1, <1>2 DEF Walk, Numbered, Family, On
<1>4. /\ L2 = L + m
      /\ \A i \in 1..L : nm2[i] = nm[i]
      /\ \A i \in 1..m : nm2[L + i] = c[m + 1 - i]
  BY <1>1 DEF Entering
<1>5. ASSUME NEW k
      PROVE  On(L2, nm2, k) <=> On(L, nm, k) \/ \E i \in 1..m : c[i] = k
  <2>1. ASSUME On(L2, nm2, k)
        PROVE  On(L, nm, k) \/ \E i \in 1..m : c[i] = k
    <3>1. PICK i \in 1..L + m : nm2[i] = k
      BY <2>1, <1>4 DEF On
    <3>2. CASE i \in 1..L
      BY <3>1, <3>2, <1>4 DEF On
    <3>3. CASE i \notin 1..L
      <4>1. PICK j \in 1..m : L + j = i
        BY <3>3, <1>3, Places
      <4>2. m + 1 - j \in 1..m /\ c[m + 1 - j] = k
        BY <1>3, <1>4, <3>1, <4>1, Places
      <4> QED BY <4>2
    <3> QED BY <3>2, <3>3
  <2>2. ASSUME On(L, nm, k)
        PROVE  On(L2, nm2, k)
    BY <2>2, <1>3, <1>4, Places DEF On
  <2>3. ASSUME NEW i \in 1..m, c[i] = k
        PROVE  On(L2, nm2, k)
    <3>1. PICK j \in 1..m : j = m + 1 - i /\ m + 1 - j = i /\ L + j \in 1..L + m
      BY <1>3, Places
    <3>2. nm2[L + j] = k
      BY <1>4, <2>3, <3>1
    <3> QED BY <1>4, <3>1, <3>2 DEF On
  <2> QED BY <2>1, <2>2, <2>3
<1>6. ASSUME NEW i \in 1..m
      PROVE  ~On(L, nm, c[i]) /\ c[i] \notin D /\ c[i] # n
  <2>1. Sourced(src, c[i]) /\ src[c[i]] = n
    BY <1>1, <1>3 DEF Walk, Family
  <2>2. c[i] \notin D
    BY <2>1, <1>3 DEF Walk, Laminar
  <2>3. ~On(L, nm, c[i])
    <3>1. SUFFICES ASSUME NEW p \in 1..L, nm[p] = c[i]
                   PROVE  FALSE
      BY DEF On
    <3>2. PICK j \in 1..p - 1 : HangsFrom(src, nm, D, p, j)
      BY <2>1, <3>1 DEF Walk, Hanging
    <3>3. nm[j] = n /\ n \in D
      BY <2>1, <3>1, <3>2 DEF HangsFrom
    <3> QED BY <3>3, <1>3
  <2> QED BY <2>2, <2>3, <1>3
<1> QED BY <1>1, <1>3, <1>5, <1>6

LEMMA EnterNumbered ==
    ASSUME NEW src, NEW kids, NEW L \in Nat, NEW nm, NEW D, NEW lo, NEW hi, NEW nx, L # 0,
           Walk(src, kids, L, nm, D, lo, hi, nx), nm[L] \notin D,
           NEW L2, NEW nm2, NEW D2, NEW lo2, NEW hi2,
           Entering(kids, L, nm, D, lo, hi, nx, L2, nm2, D2, lo2, hi2)
    PROVE  Numbered(kids, L2, nm2, D2, lo2, hi2, nx + 1)
<1>1. PICK n, c, m : n = nm[L] /\ c = kids[n] /\ m = Len(kids[n])
  OBVIOUS
<1>2. /\ \A k : On(L2, nm2, k) <=> On(L, nm, k) \/ \E i \in 1..m : c[i] = k
      /\ \A i \in 1..m : ~On(L, nm, c[i]) /\ c[i] \notin D /\ c[i] # n
      /\ On(L, nm, n) /\ n \in DOMAIN kids /\ m \in Nat /\ n \notin D
  <2>1. /\ \A k : On(L2, nm2, k) <=>
                    On(L, nm, k) \/ \E i \in 1..Len(kids[nm[L]]) : kids[nm[L]][i] = k
        /\ \A i \in 1..Len(kids[nm[L]]) : /\ ~On(L, nm, kids[nm[L]][i])
                                          /\ kids[nm[L]][i] \notin D
                                          /\ kids[nm[L]][i] # nm[L]
        /\ On(L, nm, nm[L]) /\ nm[L] \in DOMAIN kids /\ Len(kids[nm[L]]) \in Nat
    BY OnEnter
  <2> QED BY <1>1, <2>1
<1>3. /\ L2 = L + m
      /\ \A i \in 1..L : nm2[i] = nm[i]
      /\ \A i \in 1..m : nm2[L + i] = c[m + 1 - i]
      /\ D2 = D \cup {n}
      /\ lo2[n] = nx /\ hi2[n] = nx + 1
      /\ \A k \in D : lo2[k] = lo[k] /\ hi2[k] = IF On(L, nm, k) THEN nx + 1 ELSE hi[k]
  BY <1>1 DEF Entering
<1>4. /\ nx \in Nat /\ \A i \in 1..L : nm[i] \in DOMAIN kids
      /\ \A k \in D : k \in DOMAIN kids /\ lo[k] \in Nat /\ hi[k] \in Nat
                      /\ lo[k] < hi[k] /\ hi[k] <= nx
      /\ \A a, b \in D : lo[a] = lo[b] => a = b
  BY DEF Walk, Numbered
<1>5. L2 \in Nat /\ nx + 1 \in Nat
  BY <1>2, <1>3, <1>4
<1>6. ASSUME NEW i \in 1..L2
      PROVE  nm2[i] \in DOMAIN kids
  <2>1. On(L2, nm2, nm2[i])
    BY DEF On
  <2>2. CASE On(L, nm, nm2[i])
    BY <2>2, <1>4 DEF On
  <2>3. CASE \E j \in 1..m : c[j] = nm2[i]
    BY <2>3, <1>1, <1>2 DEF Walk, Family, Sourced
  <2> QED BY <2>1, <2>2, <2>3, <1>2
<1>7. ASSUME NEW k \in D2
      PROVE  /\ k \in DOMAIN kids /\ lo2[k] \in Nat /\ hi2[k] \in Nat
             /\ lo2[k] < hi2[k] /\ hi2[k] <= nx + 1
             /\ On(L2, nm2, k) => hi2[k] = nx + 1
             /\ k # n => lo2[k] < nx
  <2>1. CASE k = n
    BY <2>1, <1>2, <1>3, <1>4
  <2>2. CASE k # n
    <3>1. k \in D
      BY <2>2, <1>3
    <3>2. /\ lo[k] \in Nat /\ hi[k] \in Nat /\ lo[k] < hi[k] /\ hi[k] <= nx
          /\ lo2[k] = lo[k] /\ hi2[k] = IF On(L, nm, k) THEN nx + 1 ELSE hi[k]
      BY <3>1, <1>3, <1>4
    <3>3. On(L2, nm2, k) => On(L, nm, k)
      BY <3>1, <1>2
    <3> QED BY <3>1, <3>2, <3>3, <1>4
  <2> QED BY <2>1, <2>2
<1>8. ASSUME NEW a \in D2, NEW b \in D2, lo2[a] = lo2[b]
      PROVE  a = b
  <2>1. a # n => lo2[a] < nx /\ lo2[a] \in Nat
    BY <1>7
  <2>2. b # n => lo2[b] < nx /\ lo2[b] \in Nat
    BY <1>7
  <2>3. CASE a = n \/ b = n
    BY <1>3, <1>4, <1>8, <2>1, <2>2, <2>3
  <2>4. CASE a # n /\ b # n
    <3>1. a \in D /\ b \in D
      BY <2>4, <1>3
    <3>2. lo[a] = lo[b]
      <4>1. \A k \in D : lo2[k] = lo[k]
        BY <1>3
      <4> QED BY <3>1, <4>1, <1>8
    <3>3. \A k, l \in D : lo[k] = lo[l] => k = l
      BY <1>4
    <3> QED BY <3>1, <3>2, <3>3
  <2> QED BY <2>3, <2>4
<1> QED BY <1>5, <1>6, <1>7, <1>8 DEF Numbered

LEMMA EnterHanging ==
    ASSUME NEW src, NEW kids, NEW L \in Nat, NEW nm, NEW D, NEW lo, NEW hi, NEW nx, L # 0,
           Walk(src, kids, L, nm, D, lo, hi, nx), nm[L] \notin D,
           NEW L2, NEW nm2, NEW D2, NEW lo2, NEW hi2,
           Entering(kids, L, nm, D, lo, hi, nx, L2, nm2, D2, lo2, hi2)
    PROVE  Hanging(src, L2, nm2, D2)
<1>1. PICK n, c, m : n = nm[L] /\ c = kids[n] /\ m = Len(kids[n])
  OBVIOUS
<1>2. /\ \A i \in 1..m : ~On(L, nm, c[i]) /\ c[i] \notin D /\ c[i] # n
      /\ n \in DOMAIN kids /\ m \in Nat /\ n \notin D
  <2>1. /\ \A i \in 1..Len(kids[nm[L]]) : /\ ~On(L, nm, kids[nm[L]][i])
                                          /\ kids[nm[L]][i] \notin D
                                          /\ kids[nm[L]][i] # nm[L]
        /\ nm[L] \in DOMAIN kids /\ Len(kids[nm[L]]) \in Nat
    BY OnEnter
  <2> QED BY <1>1, <2>1
<1>3. /\ L2 = L + m
      /\ \A i \in 1..L : nm2[i] = nm[i]
      /\ \A i \in 1..m : nm2[L + i] = c[m + 1 - i]
      /\ D2 = D \cup {n}
  BY <1>1 DEF Entering
<1>4. /\ \A i \in 1..m : Sourced(src, c[i]) /\ src[c[i]] = n
      /\ \A i, j \in 1..m : c[i] = c[j] => i = j
  <2>1. Family(src, kids)
    BY DEF Walk
  <2>2. /\ \A i \in 1..Len(kids[n]) : Sourced(src, kids[n][i]) /\ src[kids[n][i]] = n
        /\ \A i, j \in 1..Len(kids[n]) : kids[n][i] = kids[n][j] => i = j
    BY <2>1, <1>2 DEF Family
  <2> QED BY <2>2, <1>1
<1>5. ASSUME NEW i \in 1..L2
      PROVE  \/ i \in 1..L /\ nm2[i] = nm[i]
             \/ \E j \in 1..m : i = L + m + 1 - j /\ nm2[i] = c[j]
  <2>1. CASE i \in 1..L
    BY <2>1, <1>3
  <2>2. CASE i \notin 1..L
    <3>1. PICK j \in 1..m : L + j = i
      BY <2>2, <1>2, <1>3, Places
    <3>2. PICK k \in 1..m : k = m + 1 - j
      BY <3>1, <1>2, Places
    <3>3. nm2[i] = c[k] /\ i = L + m + 1 - k
      BY <3>1, <3>2, <1>2, <1>3
    <3> QED BY <3>3
  <2> QED BY <2>1, <2>2
<1>6. ASSUME NEW i \in 1..L2, NEW j \in 1..L2, nm2[i] = nm2[j]
      PROVE  i = j
  <2>1. CASE i \in 1..L /\ nm2[i] = nm[i] /\ j \in 1..L /\ nm2[j] = nm[j]
    BY <2>1, <1>6 DEF Walk, Hanging
  <2>2. ASSUME NEW p \in 1..m, i = L + m + 1 - p, nm2[i] = c[p]
        PROVE  i = j
    <3>1. ~(j \in 1..L /\ nm2[j] = nm[j])
      BY <2>2, <1>2, <1>6 DEF On
    <3>2. PICK q \in 1..m : j = L + m + 1 - q /\ nm2[j] = c[q]
      BY <3>1, <1>5
    <3> QED BY <2>2, <3>2, <1>4, <1>6
  <2>3. ASSUME NEW p \in 1..m, j = L + m + 1 - p, nm2[j] = c[p]
        PROVE  i = j
    <3>1. ~(i \in 1..L /\ nm2[i] = nm[i])
      BY <2>3, <1>2, <1>6 DEF On
    <3>2. PICK q \in 1..m : i = L + m + 1 - q /\ nm2[i] = c[q]
      BY <3>1, <1>5
    <3> QED BY <2>3, <3>2, <1>4, <1>6
  <2> QED BY <2>1, <2>2, <2>3, <1>5
<1>7. ASSUME NEW i \in 1..L2
      PROVE  \/ i = 1 /\ ~Sourced(src, nm2[i])
             \/ \E j \in 1..i - 1 : HangsFrom(src, nm2, D2, i, j)
  <2>1. CASE i \in 1..L
    <3>1. nm2[i] = nm[i]
      BY <2>1, <1>3
    <3>2. CASE i = 1 /\ ~Sourced(src, nm[i])
      BY <3>1, <3>2
    <3>3. ASSUME NEW j \in 1..i - 1, HangsFrom(src, nm, D, i, j)
          PROVE  HangsFrom(src, nm2, D2, i, j)
      <4>1. j \in 1..L /\ nm2[j] = nm[j] /\ nm[j] \in D2
        BY <2>1, <3>3, <1>3 DEF HangsFrom
      <4>2. ASSUME NEW k \in j + 1..i - 1
            PROVE  nm2[k] \notin D2
        <5>1. k \in 1..L /\ k # L
          BY <2>1
        <5>2. nm2[k] = nm[k] /\ nm[k] \notin D
          BY <5>1, <3>3, <1>3 DEF HangsFrom
        <5>3. L \in 1..L
          OBVIOUS
        <5>4. nm[k] # n
          BY <5>1, <5>3, <1>1 DEF Walk, Hanging
        <5> QED BY <5>2, <5>4, <1>3
      <4> QED BY <3>1, <3>3, <4>1, <4>2 DEF HangsFrom
    <3> QED BY <2>1, <3>2, <3>3 DEF Walk, Hanging
  <2>2. ASSUME NEW p \in 1..m, i = L + m + 1 - p, nm2[i] = c[p]
        PROVE  \E j \in 1..i - 1 : HangsFrom(src, nm2, D2, i, j)
    <3>1. L \in 1..i - 1 /\ L \in 1..L
      BY <2>2, <1>2
    <3>2. nm2[L] = n /\ n \in D2
      BY <1>1, <1>3, <3>1
    <3>3. ASSUME NEW k \in L + 1..i - 1
          PROVE  nm2[k] \notin D2
      <4>1. k \in 1..L2 /\ k \notin 1..L
        BY <1>2, <1>3
      <4>2. PICK q \in 1..m : nm2[k] = c[q]
        BY <4>1, <1>5
      <4> QED BY <4>2, <1>2, <1>3
    <3>4. HangsFrom(src, nm2, D2, i, L)
      BY <2>2, <3>1, <3>2, <3>3, <1>4 DEF HangsFrom
    <3> QED BY <3>1, <3>4
  <2> QED BY <2>1, <2>2, <1>5
<1> QED BY <1>6, <1>7 DEF Hanging

LEMMA EnterLaminar ==
    ASSUME NEW src, NEW kids, NEW L \in Nat, NEW nm, NEW D, NEW lo, NEW hi, NEW nx, L # 0,
           Walk(src, kids, L, nm, D, lo, hi, nx), nm[L] \notin D,
           NEW L2, NEW nm2, NEW D2, NEW lo2, NEW hi2,
           Entering(kids, L, nm, D, lo, hi, nx, L2, nm2, D2, lo2, hi2)
    PROVE  Laminar(src, D2, lo2, hi2)
<1>1. PICK n : n = nm[L]
  OBVIOUS
<1>2. /\ D2 = D \cup {n} /\ n \notin D
      /\ lo2[n] = nx /\ hi2[n] = nx + 1
      /\ \A k \in D : lo2[k] = lo[k] /\ hi2[k] = IF On(L, nm, k) THEN nx + 1 ELSE hi[k]
  BY <1>1 DEF Entering
<1>3. /\ nx \in Nat
      /\ \A k \in D : lo[k] \in Nat /\ hi[k] \in Nat /\ lo[k] < hi[k] /\ hi[k] <= nx
      /\ \A k \in D : On(L, nm, k) => hi[k] = nx
  BY DEF Walk, Numbered
<1>4. L \in 1..L /\ \A i, j \in 1..L : nm[i] = nm[j] => i = j
  BY DEF Walk, Hanging
<1>5. Sourced(src, n) => On(L, nm, src[n]) /\ src[n] \in D
  <2>1. SUFFICES ASSUME Sourced(src, n)
                 PROVE  On(L, nm, src[n]) /\ src[n] \in D
    OBVIOUS
  <2>2. PICK j \in 1..L - 1 : HangsFrom(src, nm, D, L, j)
    BY <2>1, <1>1, <1>4 DEF Walk, Hanging
  <2>3. j \in 1..L /\ nm[j] = src[n] /\ nm[j] \in D
    BY <2>2, <1>1 DEF HangsFrom
  <2> QED BY <2>3 DEF On
<1>6. ASSUME NEW a \in D, On(L, nm, a)
      PROVE  Sourced(src, n) /\ lo[a] <= lo[src[n]]
  <2>1. PICK i \in 1..L : nm[i] = a
    BY <1>6 DEF On
  <2>2. i # L /\ L # 1
    BY <1>1, <1>2, <2>1
  <2>3. PICK j \in 1..L - 1 : HangsFrom(src, nm, D, L, j)
    BY <1>4, <2>2 DEF Walk, Hanging
  <2>4. j \in 1..L /\ Sourced(src, n) /\ nm[j] = src[n] /\ nm[j] \in D
    BY <1>1, <2>3 DEF HangsFrom
  <2>5. i <= j
    <3>1. SUFFICES ASSUME i > j
                   PROVE  FALSE
      BY <2>4
    <3>2. i \in j + 1..L - 1
      BY <2>2, <2>4, <3>1
    <3> QED BY <2>1, <2>3, <3>2 DEF HangsFrom
  <2>6. CASE i = j
    BY <1>3, <2>1, <2>4, <2>6
  <2>7. CASE i < j
    <3>1. lo[nm[i]] < lo[nm[j]]
      BY <2>1, <2>4, <2>7 DEF Walk, InTurn
    <3>2. lo[a] \in Nat /\ lo[src[n]] \in Nat
      BY <1>3, <2>4
    <3> QED BY <2>1, <2>4, <3>1, <3>2
  <2> QED BY <2>4, <2>5, <2>6, <2>7
<1>7. ASSUME NEW k \in D2, Sourced(src, k)
      PROVE  src[k] \in D2 /\ lo2[src[k]] < lo2[k] /\ hi2[k] <= hi2[src[k]]
  <2>1. CASE k = n
    BY <2>1, <1>2, <1>3, <1>5, <1>7
  <2>2. CASE k # n
    <3>1. PICK p : p = src[k]
      OBVIOUS
    <3>2. k \in D /\ p \in D /\ lo[p] < lo[k] /\ hi[k] <= hi[p]
      BY <2>2, <3>1, <1>2, <1>7 DEF Walk, Laminar
    <3>3. On(L, nm, k) => On(L, nm, p)
      <4>1. SUFFICES ASSUME NEW i \in 1..L, nm[i] = k
                     PROVE  On(L, nm, p)
        BY DEF On
      <4>2. PICK j \in 1..i - 1 : HangsFrom(src, nm, D, i, j)
        BY <4>1, <1>7 DEF Walk, Hanging
      <4>3. j \in 1..L /\ nm[j] = p
        BY <4>1, <4>2, <3>1 DEF HangsFrom
      <4> QED BY <4>3 DEF On
    <3>4. hi2[k] <= hi2[p]
      BY <1>2, <1>3, <3>2, <3>3
    <3> QED BY <3>1, <3>2, <3>4, <1>2
  <2> QED BY <2>1, <2>2
<1>8. ASSUME NEW a \in D2, NEW b \in D2, lo2[a] < lo2[b], lo2[b] < hi2[a]
      PROVE  Sourced(src, b) /\ lo2[a] <= lo2[src[b]]
  <2>1. CASE a = n
    <3>1. b = n \/ (b \in D /\ lo2[b] = lo[b] /\ lo[b] \in Nat /\ lo[b] < nx)
      BY <1>2, <1>3
    <3> QED BY <2>1, <3>1, <1>2, <1>3, <1>8
  <2>2. CASE a # n /\ b = n
    <3>1. a \in D /\ lo2[a] = lo[a]
      BY <2>2, <1>2
    <3>2. On(L, nm, a)
      BY <2>2, <3>1, <1>2, <1>3, <1>8
    <3>3. Sourced(src, n) /\ lo[a] <= lo[src[n]]
      BY <3>1, <3>2, <1>6
    <3> QED BY <2>2, <3>1, <3>3, <1>2, <1>5
  <2>3. CASE a # n /\ b # n
    <3>1. a \in D /\ b \in D /\ lo2[a] = lo[a] /\ lo2[b] = lo[b]
      BY <2>3, <1>2
    <3>2. lo[b] < hi[a]
      BY <3>1, <1>2, <1>3, <1>8
    <3>3. Sourced(src, b) /\ lo[a] <= lo[src[b]] /\ src[b] \in D
      BY <3>1, <3>2, <1>8 DEF Walk, Laminar
    <3> QED BY <3>1, <3>3, <1>2
  <2> QED BY <2>1, <2>2, <2>3
<1> QED BY <1>7, <1>8 DEF Laminar

LEMMA EnterInTurn ==
    ASSUME NEW src, NEW kids, NEW L \in Nat, NEW nm, NEW D, NEW lo, NEW hi, NEW nx, L # 0,
           Walk(src, kids, L, nm, D, lo, hi, nx), nm[L] \notin D,
           NEW L2, NEW nm2, NEW D2, NEW lo2, NEW hi2,
           Entering(kids, L, nm, D, lo, hi, nx, L2, nm2, D2, lo2, hi2)
    PROVE  InTurn(kids, L2, nm2, D2, lo2)
<1>1. PICK n, c, m : n = nm[L] /\ c = kids[n] /\ m = Len(kids[n])
  OBVIOUS
<1>2. /\ \A k : On(L2, nm2, k) <=> On(L, nm, k) \/ \E i \in 1..m : c[i] = k
      /\ \A i \in 1..m : ~On(L, nm, c[i]) /\ c[i] \notin D /\ c[i] # n
      /\ On(L, nm, n) /\ n \in DOMAIN kids /\ m \in Nat /\ n \notin D
  <2>1. /\ \A k : On(L2, nm2, k) <=>
                    On(L, nm, k) \/ \E i \in 1..Len(kids[nm[L]]) : kids[nm[L]][i] = k
        /\ \A i \in 1..Len(kids[nm[L]]) : /\ ~On(L, nm, kids[nm[L]][i])
                                          /\ kids[nm[L]][i] \notin D
                                          /\ kids[nm[L]][i] # nm[L]
        /\ On(L, nm, nm[L]) /\ nm[L] \in DOMAIN kids /\ Len(kids[nm[L]]) \in Nat
    BY OnEnter
  <2> QED BY <1>1, <2>1
<1>3. /\ L2 = L + m
      /\ \A i \in 1..L : nm2[i] = nm[i]
      /\ \A i \in 1..m : nm2[L + i] = c[m + 1 - i]
      /\ D2 = D \cup {n} /\ lo2[n] = nx
      /\ \A k \in D : lo2[k] = lo[k]
  BY <1>1 DEF Entering
<1>4. /\ nx \in Nat /\ \A k \in D : lo[k] \in Nat /\ lo[k] < nx /\ k \in DOMAIN kids
  BY DEF Walk, Numbered
<1>5. L \in 1..L /\ \A i, j \in 1..L : nm[i] = nm[j] => i = j
  BY DEF Walk, Hanging
<1>6. /\ \A k \in DOMAIN kids : \A i \in 1..Len(kids[k]) : Sourced(src, kids[k][i]) /\ src[kids[k][i]] = k
      /\ \A i, j \in 1..m : c[i] = c[j] => i = j
  BY <1>1, <1>2 DEF Walk, Family
<1>7. ASSUME NEW i \in 1..L2
      PROVE  \/ i \in 1..L /\ nm2[i] = nm[i]
             \/ \E j \in 1..m : i = L + m + 1 - j /\ nm2[i] = c[j]
  <2>1. CASE i \in 1..L
    BY <2>1, <1>3
  <2>2. CASE i \notin 1..L
    <3>1. PICK j \in 1..m : L + j = i
      BY <2>2, <1>2, <1>3, Places
    <3>2. PICK k \in 1..m : k = m + 1 - j
      BY <3>1, <1>2, Places
    <3>3. nm2[i] = c[k] /\ i = L + m + 1 - k
      BY <3>1, <3>2, <1>2, <1>3
    <3> QED BY <3>3
  <2> QED BY <2>1, <2>2
<1>8. ASSUME NEW k \in D2, NEW i \in 1..Len(kids[k])
      PROVE  kids[k][i] \in D2 \/ On(L2, nm2, kids[k][i])
  <2>1. CASE k = n
    BY <2>1, <1>1, <1>2
  <2>2. CASE k # n
    <3>1. kids[k][i] \in D \/ On(L, nm, kids[k][i])
      BY <2>2, <1>3 DEF Walk, InTurn
    <3> QED BY <3>1, <1>2, <1>3
  <2> QED BY <2>1, <2>2
(* Names entered are in their old places.                                  *)
<1>9. ASSUME NEW i \in 1..L2, nm2[i] \in D2
      PROVE  /\ i \in 1..L /\ nm2[i] = nm[i]
             /\ i = L \/ (i < L /\ nm[i] \in D)
  <2>1. i \in 1..L /\ nm2[i] = nm[i]
    BY <1>2, <1>3, <1>7, <1>9
  <2>2. nm[i] = n => i = L
    BY <2>1, <1>1, <1>5
  <2> QED BY <2>1, <2>2, <1>3, <1>9
<1>10. ASSUME NEW i \in 1..L2, NEW j \in 1..L2, i < j, nm2[i] \in D2, nm2[j] \in D2
       PROVE  lo2[nm2[i]] < lo2[nm2[j]]
  <2>1. /\ i \in 1..L /\ nm2[i] = nm[i] /\ i < L /\ nm[i] \in D
        /\ j \in 1..L /\ nm2[j] = nm[j] /\ (j = L \/ nm[j] \in D)
    BY <1>9, <1>10
  <2>2. CASE j = L
    BY <2>1, <2>2, <1>1, <1>3, <1>4
  <2>3. CASE nm[j] \in D
    <3>1. lo[nm[i]] < lo[nm[j]]
      BY <2>1, <2>3, <1>10 DEF Walk, InTurn
    <3> QED BY <2>1, <2>3, <3>1, <1>3
  <2> QED BY <2>1, <2>2, <2>3
(* Of the children of n's source those before n were entered.              *)
<1>11. ASSUME NEW k \in D, NEW i \in 1..Len(kids[k]), NEW j \in 1..Len(kids[k]), i < j,
              kids[k][j] = n
       PROVE  kids[k][i] \in D
  <2>1. PICK x : x = kids[k][i]
    OBVIOUS
  <2>2. Sourced(src, x) /\ src[x] = k /\ Sourced(src, n) /\ src[n] = k
    BY <2>1, <1>4, <1>6, <1>11
  <2>3. SUFFICES ASSUME x \notin D
                 PROVE  FALSE
    BY <2>1
  <2>4. PICK p \in 1..L : nm[p] = x
    BY <2>1, <2>3 DEF Walk, InTurn, On
  <2>5. x # n
    <3>1. kids[k][i] = kids[k][j] => i = j
      BY <1>4 DEF Walk, Family
    <3>2. i # j
      BY <1>11
    <3> QED BY <2>1, <3>1, <3>2, <1>11
  <2>6. p < L
    BY <2>4, <2>5, <1>1
  <2>7. j < i
    BY <2>1, <2>3, <2>4, <2>6, <1>1, <1>2, <1>5, <1>11 DEF Walk, InTurn
  <2> QED BY <2>7, <1>11
<1>12. ASSUME NEW k \in D2, NEW i \in 1..Len(kids[k]), NEW j \in 1..Len(kids[k]), i < j,
              kids[k][j] \in D2
       PROVE  kids[k][i] \in D2 /\ lo2[kids[k][i]] < lo2[kids[k][j]]
  <2>1. k # n
    <3>1. SUFFICES ASSUME k = n
                   PROVE  FALSE
      OBVIOUS
    <3>2. j \in 1..m /\ kids[k][j] = c[j]
      BY <3>1, <1>1
    <3> QED BY <3>2, <1>2, <1>3, <1>12
  <2>2. k \in D
    BY <2>1, <1>3
  <2>3. PICK x, y : x = kids[k][i] /\ y = kids[k][j]
    OBVIOUS
  <2>4. CASE y = n
    <3>1. x \in D
      BY <2>2, <2>3, <2>4, <1>11, <1>12
    <3> QED BY <2>3, <2>4, <3>1, <1>3, <1>4
  <2>5. CASE y # n
    <3>1. y \in D
      BY <2>3, <2>5, <1>3, <1>12
    <3>2. x \in D /\ lo[x] < lo[y]
      BY <2>2, <2>3, <3>1, <1>12 DEF Walk, InTurn
    <3> QED BY <2>3, <3>1, <3>2, <1>3
  <2> QED BY <2>4, <2>5
<1>13. ASSUME NEW k \in D2, NEW x \in 1..Len(kids[k]), NEW y \in 1..Len(kids[k]),
              NEW i \in 1..L2, NEW j \in 1..L2, i < j,
              nm2[i] = kids[k][x], nm2[j] = kids[k][y], nm2[i] \notin D2, nm2[j] \notin D2
       PROVE  y < x
  <2>1. k \in DOMAIN kids /\ Sourced(src, kids[k][x]) /\ src[kids[k][x]] = k
        /\ src[kids[k][y]] = k
    BY <1>2, <1>3, <1>4, <1>6, <1>13
  <2>2. CASE k = n
    <3>1. x \in 1..m /\ y \in 1..m /\ nm2[i] = c[x] /\ nm2[j] = c[y]
      BY <2>2, <1>1, <1>13
    <3>2. ~(i \in 1..L /\ nm2[i] = nm[i]) /\ ~(j \in 1..L /\ nm2[j] = nm[j])
      BY <3>1, <1>2 DEF On
    <3>3. PICK p \in 1..m : i = L + m + 1 - p /\ nm2[i] = c[p]
      BY <3>2, <1>7
    <3>4. PICK q \in 1..m : j = L + m + 1 - q /\ nm2[j] = c[q]
      BY <3>2, <1>7
    <3>5. p = x /\ q = y
      BY <3>1, <3>3, <3>4, <1>6
    <3> QED BY <3>3, <3>4, <3>5, <1>2, <1>13
  <2>3. CASE k # n
    <3>1. k \in D
      BY <2>3, <1>3
    <3>2. \A p \in 1..m : src[c[p]] = n
      BY <1>1, <1>2, <1>6
    <3>3. i \in 1..L /\ nm2[i] = nm[i]
      BY <2>1, <2>3, <3>2, <1>7, <1>13
    <3>4. j \in 1..L /\ nm2[j] = nm[j]
      BY <2>1, <2>3, <3>2, <1>7, <1>13
    <3>5. nm[i] = kids[k][x] /\ nm[j] = kids[k][y] /\ nm[i] \notin D /\ nm[j] \notin D
      BY <3>3, <3>4, <1>3, <1>13
    <3> QED BY <3>1, <3>3, <3>4, <3>5, <1>13 DEF Walk, InTurn
  <2> QED BY <2>2, <2>3
<1> QED BY <1>8, <1>10, <1>12, <1>13 DEF InTurn

LEMMA WalkEnter ==
    ASSUME NEW src, NEW kids, NEW L \in Nat, NEW nm, NEW D, NEW lo, NEW hi, NEW nx, L # 0,
           Walk(src, kids, L, nm, D, lo, hi, nx), nm[L] \notin D,
           NEW L2, NEW nm2, NEW D2, NEW lo2, NEW hi2,
           Entering(kids, L, nm, D, lo, hi, nx, L2, nm2, D2, lo2, hi2)
    PROVE  Walk(src, kids, L2, nm2, D2, lo2, hi2, nx + 1)
<1>1. Family(src, kids)
  BY DEF Walk
<1>2. Numbered(kids, L2, nm2, D2, lo2, hi2, nx + 1)
  BY EnterNumbered
<1>3. Hanging(src, L2, nm2, D2)
  BY EnterHanging
<1>4. Laminar(src, D2, lo2, hi2)
  BY EnterLaminar
<1>5. InTurn(kids, L2, nm2, D2, lo2)
  BY EnterInTurn
<1> QED BY <1>1, <1>2, <1>3, <1>4, <1>5 DEF Walk

-----------------------------------------------------------------------------
(* The children listed of the relations reached so far.                    *)
Got(kids, n) == IF n \in DOMAIN kids THEN kids[n] ELSE <<>>

Listing(src, left, kids) ==
    LET listed == DOMAIN src \ left
    IN  /\ NoSource \notin DOMAIN src
        /\ \A n : n \in DOMAIN kids <=> n \in listed \/ \E r \in listed : Sourced(src, r) /\ src[r] = n
        /\ \A n \in DOMAIN kids :
             /\ kids[n] \in Seq(DOMAIN src)
             /\ \A i \in 1..Len(kids[n]) : /\ kids[n][i] \in listed
                                           /\ Sourced(src, kids[n][i]) /\ src[kids[n][i]] = n
             /\ \A i, j \in 1..Len(kids[n]) : kids[n][i] = kids[n][j] => i = j
        /\ \A r \in listed : Sourced(src, r) =>
             \E i \in 1..Len(kids[src[r]]) : kids[src[r]][i] = r

LEMMA ListingOne ==
    ASSUME NEW src, NEW left, NEW kids, Listing(src, left, kids), NEW r \in DOMAIN src, r \in left,
           NEW kids2,
           \A n : n \in DOMAIN kids2 <=> n \in DOMAIN kids \/ n = r \/ (Sourced(src, r) /\ n = src[r]),
           \A n \in DOMAIN kids2 :
             kids2[n] = IF Sourced(src, r) /\ n = src[r] THEN Append(Got(kids, n), r) ELSE Got(kids, n)
    PROVE  Listing(src, left \ {r}, kids2)
<1>1. PICK listed, after : listed = DOMAIN src \ left /\ after = DOMAIN src \ (left \ {r})
  OBVIOUS
<1>2. after = listed \cup {r} /\ r \notin listed
  BY <1>1
<1>3. ASSUME NEW n
      PROVE  /\ Got(kids, n) \in Seq(DOMAIN src)
             /\ \A i \in 1..Len(Got(kids, n)) : /\ Got(kids, n)[i] \in listed
                                                /\ Sourced(src, Got(kids, n)[i])
                                                /\ src[Got(kids, n)[i]] = n
             /\ \A i, j \in 1..Len(Got(kids, n)) : Got(kids, n)[i] = Got(kids, n)[j] => i = j
  <2>1. CASE n \in DOMAIN kids
    <3>1. Got(kids, n) = kids[n]
      BY <2>1 DEF Got
    <3>2. /\ kids[n] \in Seq(DOMAIN src)
          /\ \A i \in 1..Len(kids[n]) : /\ kids[n][i] \in listed
                                        /\ Sourced(src, kids[n][i]) /\ src[kids[n][i]] = n
          /\ \A i, j \in 1..Len(kids[n]) : kids[n][i] = kids[n][j] => i = j
      BY <2>1, <1>1 DEF Listing
    <3> QED BY <3>1, <3>2
  <2>2. CASE n \notin DOMAIN kids
    BY <2>2 DEF Got
  <2> QED BY <2>1, <2>2
<1>4. \A n : n \in DOMAIN kids2 <=> n \in after \/ \E k \in after : Sourced(src, k) /\ src[k] = n
  BY <1>1, <1>2 DEF Listing
<1>5. ASSUME NEW n \in DOMAIN kids2, Sourced(src, r), n = src[r]
      PROVE  /\ kids2[n] \in Seq(DOMAIN src)
             /\ \A i \in 1..Len(kids2[n]) : /\ kids2[n][i] \in after
                                            /\ Sourced(src, kids2[n][i]) /\ src[kids2[n][i]] = n
             /\ \A i, j \in 1..Len(kids2[n]) : kids2[n][i] = kids2[n][j] => i = j
             /\ kids2[n][Len(kids2[n])] = r /\ Len(kids2[n]) \in 1..Len(kids2[n])
             /\ \A i \in 1..Len(Got(kids, n)) : i \in 1..Len(kids2[n]) /\ kids2[n][i] = Got(kids, n)[i]
  <2>1. PICK s, t : s = Got(kids, n) /\ t = kids2[n]
    OBVIOUS
  <2>2. s \in Seq(DOMAIN src) /\ t = Append(s, r)
    BY <1>3, <1>5, <2>1
  <2>3. PICK m \in Nat : m = Len(s)
    BY <2>2
  <2>4. /\ t \in Seq(DOMAIN src) /\ Len(t) = m + 1 /\ t[m + 1] = r
        /\ \A i \in 1..m : t[i] = s[i]
    BY <2>2, <2>3
  <2>5. \A i \in 1..m + 1 : i \in 1..m \/ i = m + 1
    BY <2>3
  <2>6. \A i \in 1..m : s[i] \in listed /\ s[i] # r /\ Sourced(src, s[i]) /\ src[s[i]] = n
    BY <1>2, <1>3, <2>1, <2>3
  <2>7. \A i, j \in 1..m : s[i] = s[j] => i = j
    BY <1>3, <2>1, <2>3
  <2>8. \A i \in 1..m + 1 : t[i] \in after /\ Sourced(src, t[i]) /\ src[t[i]] = n
    BY <1>2, <1>5, <2>4, <2>5, <2>6
  <2>9. \A i, j \in 1..m + 1 : t[i] = t[j] => i = j
    BY <2>4, <2>5, <2>6, <2>7
  <2> QED BY <2>1, <2>3, <2>4, <2>8, <2>9
<1>6. ASSUME NEW n \in DOMAIN kids2, ~(Sourced(src, r) /\ n = src[r])
      PROVE  kids2[n] = Got(kids, n)
  BY <1>6
<1>7. ASSUME NEW n \in DOMAIN kids2
      PROVE  /\ kids2[n] \in Seq(DOMAIN src)
             /\ \A i \in 1..Len(kids2[n]) : /\ kids2[n][i] \in after
                                            /\ Sourced(src, kids2[n][i]) /\ src[kids2[n][i]] = n
             /\ \A i, j \in 1..Len(kids2[n]) : kids2[n][i] = kids2[n][j] => i = j
  <2>1. CASE Sourced(src, r) /\ n = src[r]
    BY <2>1, <1>5
  <2>2. CASE ~(Sourced(src, r) /\ n = src[r])
    BY <2>2, <1>2, <1>3, <1>6
  <2> QED BY <2>1, <2>2
<1>8. ASSUME NEW k \in after, Sourced(src, k)
      PROVE  \E i \in 1..Len(kids2[src[k]]) : kids2[src[k]][i] = k
  <2>1. PICK n : n = src[k]
    OBVIOUS
  <2>2. n \in DOMAIN kids2
    BY <1>4, <1>8, <2>1
  <2>3. CASE k = r
    BY <2>1, <2>2, <2>3, <1>5, <1>8
  <2>4. CASE k # r
    <3>1. k \in listed
      BY <2>4, <1>2
    <3>2. n \in DOMAIN kids /\ \E i \in 1..Len(kids[n]) : kids[n][i] = k
      BY <3>1, <2>1, <1>1, <1>8 DEF Listing
    <3>3. PICK i \in 1..Len(Got(kids, n)) : Got(kids, n)[i] = k
      BY <3>2 DEF Got
    <3>4. CASE Sourced(src, r) /\ n = src[r]
      BY <3>3, <3>4, <2>1, <2>2, <1>5
    <3>5. CASE ~(Sourced(src, r) /\ n = src[r])
      BY <3>3, <3>5, <2>1, <2>2, <1>6
    <3> QED BY <3>4, <3>5
  <2> QED BY <2>3, <2>4
<1> QED BY <1>1, <1>4, <1>7, <1>8 DEF Listing

LEMMA ListedFamily ==
    ASSUME NEW src, NEW kids, Listing(src, {}, kids)
    PROVE  Family(src, kids)
<1>1. NoSource \notin DOMAIN src /\ DOMAIN src \ {} = DOMAIN src
  BY DEF Listing
<1>2. \A n \in DOMAIN kids : n # NoSource
  BY <1>1 DEF Listing, Sourced
<1>3. \A n \in DOMAIN kids : Len(kids[n]) \in Nat
  BY DEF Listing
<1> QED BY <1>1, <1>2, <1>3 DEF Listing, Family, Sourced

-----------------------------------------------------------------------------
(* The walk the variables stand for.                                       *)
Pictured(kids, st, iv, nm, lo, hi) ==
    /\ st \in Seq([name : DOMAIN kids, exiting : BOOLEAN])
    /\ \A i \in 1..Len(st) : st[i].name = nm[i] /\ (st[i].exiting <=> nm[i] \in DOMAIN iv)
    /\ \A n \in DOMAIN iv :
         /\ iv[n] \in [start : Nat, end : Nat] /\ iv[n].start = lo[n]
         /\ ~On(Len(st), nm, n) => iv[n].end = hi[n]

Walking(src, kids, st, iv, nx) ==
    \E nm, lo, hi : /\ Pictured(kids, st, iv, nm, lo, hi)
                    /\ Walk(src, kids, Len(st), nm, DOMAIN iv, lo, hi, nx)

OnStack(st, n) == \E i \in 1..Len(st) : st[i].name = n

(* Each root is still to be taken, or has been put on the stack.           *)
Roots(src, kids, left, st, iv) ==
    /\ \A n \in left : n \in DOMAIN kids /\ ~Sourced(src, n) /\ n \notin DOMAIN iv /\ ~OnStack(st, n)
    /\ \A n \in DOMAIN kids : Sourced(src, n) \/ n \in left \/ n \in DOMAIN iv \/ OnStack(st, n)

Ancestral ==
    /\ Listing(source, unlisted, children)
    /\ unlisted \subseteq Relations /\ rooted \in BOOLEAN
    /\ ~rooted => stack = <<>> /\ unrooted = {} /\ DOMAIN intervals = {} /\ next = 0
    /\ rooted => /\ unlisted = {}
                 /\ Walking(source, children, stack, intervals, next)
                 /\ Roots(source, children, unrooted, stack, intervals)

LEMMA AncestralInit ==
    ASSUME Init, NoSource \notin Relations
    PROVE  Ancestral
<1>1. /\ unlisted = Relations /\ DOMAIN children = {} /\ rooted = FALSE /\ unrooted = {}
      /\ stack = <<>> /\ next = 0 /\ DOMAIN intervals = {}
  BY DEF Init
<1>2. Relations \ unlisted = {}
  BY <1>1
<1>3. Listing(source, unlisted, children)
  BY <1>1, <1>2 DEF Listing, Relations
<1> QED BY <1>1, <1>3 DEF Ancestral

LEMMA ListRelationStep ==
    ASSUME Ancestral, NEW r \in unlisted, ListRelation(r)
    PROVE  Ancestral'
<1>1. /\ source' = source /\ rooted' = rooted /\ unrooted' = unrooted /\ stack' = stack
      /\ next' = next /\ intervals' = intervals /\ unlisted' = unlisted \ {r}
  BY DEF ListRelation, declared
<1>2. ~rooted
  BY DEF Ancestral
<1>3. PICK src, left, kids, kids2 : src = source /\ left = unlisted /\ kids = children /\ kids2 = children'
  OBVIOUS
<1>4. r \in DOMAIN src /\ r \in left /\ Listing(src, left, kids)
  BY <1>3 DEF Ancestral, Relations
<1>5. r \in Derived <=> Sourced(src, r)
  BY <1>3, <1>4 DEF Derived, Relations, Sourced
<1>6. PICK known : known = Extended(children, r, ChildrenOf(r))
  OBVIOUS
<1>7. /\ DOMAIN known = DOMAIN kids \cup {r}
      /\ \A n \in DOMAIN known : known[n] = Got(kids, n)
  BY <1>3, <1>6 DEF Extended, ChildrenOf, Got
<1>8. /\ \A n : n \in DOMAIN kids2 <=> n \in DOMAIN kids \/ n = r \/ (Sourced(src, r) /\ n = src[r])
      /\ \A n \in DOMAIN kids2 :
           kids2[n] = IF Sourced(src, r) /\ n = src[r] THEN Append(Got(kids, n), r) ELSE Got(kids, n)
  <2>1. CASE r \notin Derived
    <3>1. kids2 = known
      BY <2>1, <1>3, <1>6 DEF ListRelation
    <3> QED BY <2>1, <3>1, <1>5, <1>7
  <2>2. CASE r \in Derived
    <3>1. PICK p, was, new : /\ p = src[r]
                             /\ was = IF p \in DOMAIN known THEN known[p] ELSE <<>>
                             /\ new = Append(was, r)
      OBVIOUS
    <3>2. kids2 = Extended(known, p, new)
      BY <2>2, <3>1, <1>3, <1>6 DEF ListRelation
    <3>3. DOMAIN kids2 = DOMAIN known \cup {p} /\ kids2[p] = new
          /\ \A n \in DOMAIN known : n # p => kids2[n] = known[n]
      BY <3>2 DEF Extended
    <3>4. p \in DOMAIN known => was = Got(kids, p)
      BY <3>1, <1>7
    <3>5. p \notin DOMAIN known => was = Got(kids, p)
      BY <3>1, <1>7 DEF Got
    <3> QED BY <2>2, <3>1, <3>3, <3>4, <3>5, <1>5, <1>7
  <2> QED BY <2>1, <2>2
<1>9. Listing(src, left \ {r}, kids2)
  BY <1>4, <1>8, ListingOne
<1> QED BY <1>1, <1>2, <1>3, <1>9 DEF Ancestral, Relations

LEMMA FindRootsStep ==
    ASSUME Ancestral, FindRoots
    PROVE  Ancestral'
<1>1. /\ source' = source /\ unlisted' = unlisted /\ children' = children /\ stack' = stack
      /\ next' = next /\ intervals' = intervals /\ rooted' = TRUE
      /\ unrooted' = DOMAIN children \ Derived /\ unlisted = {} /\ ~rooted
  BY DEF FindRoots, declared
<1>2. PICK src, kids, iv : src = source /\ kids = children /\ iv = intervals
  OBVIOUS
<1>3. Listing(src, {}, kids) /\ DOMAIN iv = {} /\ stack = <<>> /\ next = 0
  BY <1>1, <1>2 DEF Ancestral
<1>4. Walking(src, kids, <<>>, iv, 0)
  <2>1. PICK nm, lo, hi : nm = <<>> /\ lo = <<>> /\ hi = <<>>
    OBVIOUS
  <2>2. Pictured(kids, <<>>, iv, nm, lo, hi)
    BY <1>3 DEF Pictured
  <2>3. Family(src, kids)
    BY <1>3, ListedFamily
  <2>4. Walk(src, kids, 0, nm, DOMAIN iv, lo, hi, 0)
    BY <2>3, <1>3 DEF Walk, Numbered, Hanging, Laminar, InTurn
  <2>5. Len(<<>>) = 0
    OBVIOUS
  <2> QED BY <2>2, <2>4, <2>5 DEF Walking
<1>5. Roots(src, kids, unrooted', <<>>, iv)
  <2>1. \A n : n \in unrooted' <=> n \in DOMAIN kids /\ ~Sourced(src, n)
    <3>1. \A n : n \in Derived <=> Sourced(src, n)
      BY <1>2 DEF Derived, Relations, Sourced
    <3> QED BY <3>1, <1>1, <1>2
  <2>2. \A n : ~OnStack(<<>>, n)
    BY DEF OnStack
  <2> QED BY <2>1, <2>2, <1>3 DEF Roots
<1> QED BY <1>1, <1>2, <1>3, <1>4, <1>5 DEF Ancestral, Relations

LEMMA StartRootStep ==
    ASSUME Ancestral, NEW n \in unrooted, StartRoot(n)
    PROVE  Ancestral'
<1>1. /\ source' = source /\ unlisted' = unlisted /\ children' = children /\ rooted' = rooted
      /\ next' = next /\ intervals' = intervals /\ rooted /\ stack = <<>>
      /\ unrooted' = unrooted \ {n} /\ stack' = <<[name |-> n, exiting |-> FALSE]>>
  BY DEF StartRoot, declared
<1>2. PICK src, kids, iv, st, nx : /\ src = source /\ kids = children /\ iv = intervals
                                   /\ st = <<[name |-> n, exiting |-> FALSE]>> /\ nx = next
  OBVIOUS
<1>3. Walking(src, kids, <<>>, iv, nx) /\ Roots(src, kids, unrooted, <<>>, iv)
  BY <1>1, <1>2 DEF Ancestral
<1>4. n \in DOMAIN kids /\ ~Sourced(src, n) /\ n \notin DOMAIN iv
  BY <1>3 DEF Roots
<1>5. PICK nm, lo, hi : /\ Pictured(kids, <<>>, iv, nm, lo, hi)
                        /\ Walk(src, kids, 0, nm, DOMAIN iv, lo, hi, nx)
  BY <1>3 DEF Walking
<1>6. PICK nm2 : nm2 = <<n>>
  OBVIOUS
<1>7. Walk(src, kids, 1, nm2, DOMAIN iv, lo, hi, nx)
  BY <1>4, <1>5, <1>6, WalkRoot
<1>8. Len(st) = 1 /\ st[1].name = n /\ st[1].exiting = FALSE
      /\ st \in Seq([name : DOMAIN kids, exiting : BOOLEAN])
  BY <1>2, <1>4
<1>9. \A k : ~On(0, nm, k) /\ (On(1, nm2, k) <=> k = n)
  BY <1>6 DEF On
<1>10. Pictured(kids, st, iv, nm2, lo, hi)
  <2>1. ASSUME NEW k \in DOMAIN iv
        PROVE  /\ iv[k] \in [start : Nat, end : Nat] /\ iv[k].start = lo[k]
               /\ iv[k].end = hi[k]
    BY <1>5, <1>9 DEF Pictured
  <2>2. \A i \in 1..Len(st) : st[i].name = nm2[i] /\ (st[i].exiting <=> nm2[i] \in DOMAIN iv)
    BY <1>4, <1>6, <1>8
  <2> QED BY <1>8, <2>1, <2>2 DEF Pictured
<1>11. Walking(src, kids, st, iv, nx)
  BY <1>7, <1>8, <1>10 DEF Walking
<1>12. \A k : ~OnStack(<<>>, k) /\ (OnStack(st, k) <=> k = n)
  BY <1>8 DEF OnStack
<1>13. Roots(src, kids, unrooted', st, iv)
  BY <1>1, <1>3, <1>12 DEF Roots
<1> QED BY <1>1, <1>2, <1>11, <1>13 DEF Ancestral, Relations

(* The stack without its top.                                              *)
LEMMA BelowTop ==
    ASSUME NEW S, NEW st \in Seq(S), st # <<>>
    PROVE  /\ Len(st) \in Nat \ {0} /\ Len(st) \in 1..Len(st)
           /\ Below(st) \in Seq(S) /\ Len(Below(st)) = Len(st) - 1
           /\ \A i \in 1..Len(st) - 1 : Below(st)[i] = st[i]
<1>1. Len(st) \in Nat \ {0}
  BY EmptySeq
<1>2. PICK n \in Nat : n = Len(st) - 1
  BY <1>1
<1>3. 1..n \subseteq 1..Len(st) /\ n <= Len(st)
  BY <1>1, <1>2
<1>4. SubSeq(st, 1, n) \in Seq(S) /\ Len(SubSeq(st, 1, n)) = n
  BY <1>1, <1>2, <1>3
<1>5. \A i \in 1..n : SubSeq(st, 1, n)[i] = st[i]
  BY <1>1, <1>2, <1>3
<1> QED BY <1>1, <1>2, <1>4, <1>5 DEF Below

LEMMA EnterStep ==
    ASSUME Ancestral, Enter
    PROVE  Ancestral'
<1>1. /\ source' = source /\ unlisted' = unlisted /\ children' = children /\ rooted' = rooted
      /\ unrooted' = unrooted /\ next' = next + 1 /\ stack # <<>> /\ ~Top.exiting
      /\ intervals' = Extended(intervals, Top.name, [start |-> next, end |-> next])
      /\ stack' = Append(Below(stack), [name |-> Top.name, exiting |-> TRUE]) \o Pushed(Top.name)
  BY DEF Enter, declared
<1>2. PICK src, kids, iv, st, nx, left :
        /\ src = source /\ kids = children /\ iv = intervals /\ st = stack /\ nx = next
        /\ left = unrooted
  OBVIOUS
<1>3. Walking(src, kids, st, iv, nx) /\ Roots(src, kids, left, st, iv) /\ rooted
  BY <1>1, <1>2 DEF Ancestral
<1>4. PICK nm, lo, hi : /\ Pictured(kids, st, iv, nm, lo, hi)
                        /\ Walk(src, kids, Len(st), nm, DOMAIN iv, lo, hi, nx)
  BY <1>3 DEF Walking
<1>5. PICK N : N = [name : DOMAIN kids, exiting : BOOLEAN]
  OBVIOUS
<1>6. st \in Seq(N) /\ st # <<>>
  BY <1>1, <1>2, <1>4, <1>5 DEF Pictured
<1>7. PICK L \in Nat \ {0} : L = Len(st) /\ L \in 1..L
  BY <1>6, BelowTop
<1>8. PICK n, c : n = nm[L] /\ c = kids[n]
  OBVIOUS
<1>9. Top = st[L] /\ Top.name = n /\ n \notin DOMAIN iv /\ st[L].name = n
  BY <1>1, <1>2, <1>4, <1>7, <1>8 DEF Top, Pictured
<1>10. n \in DOMAIN kids /\ nx \in Nat
  BY <1>4, <1>7, <1>8 DEF Walk, Numbered
<1>11. PICK m \in Nat : m = Len(c)
  BY <1>4, <1>8, <1>10 DEF Walk, Family
<1>12. PICK below, mid, push, st2, iv2 :
         /\ below = Below(st) /\ mid = Append(below, [name |-> n, exiting |-> TRUE])
         /\ push = [i \in 1..m |-> Visit(c[m + 1 - i])]
         /\ st2 = mid \o push
         /\ iv2 = Extended(iv, n, [start |-> nx, end |-> nx])
  OBVIOUS
<1>13. st2 = stack' /\ iv2 = intervals' /\ nx + 1 = next'
  BY <1>1, <1>2, <1>8, <1>9, <1>11, <1>12 DEF Pushed
<1>14. below \in Seq(N) /\ Len(below) = L - 1 /\ \A i \in 1..L - 1 : below[i] = st[i]
  BY <1>6, <1>7, <1>12, BelowTop
<1>15. /\ mid \in Seq(N) /\ Len(mid) = L /\ mid[L] = [name |-> n, exiting |-> TRUE]
       /\ \A i \in 1..L - 1 : mid[i] = st[i]
  <2>1. [name |-> n, exiting |-> TRUE] \in N
    BY <1>5, <1>10
  <2>2. mid \in Seq(N) /\ Len(mid) = Len(below) + 1
    BY <2>1, <1>12, <1>14
  <2>3. Len(mid) = L /\ \A i \in 1..L - 1 : i \in 1..Len(below)
    BY <2>2, <1>7, <1>14
  <2>4. mid[Len(below) + 1] = [name |-> n, exiting |-> TRUE]
        /\ \A i \in 1..Len(below) : mid[i] = below[i]
    BY <2>1, <1>12, <1>14
  <2>5. Len(below) + 1 = L
    BY <1>7, <1>14
  <2> QED BY <2>2, <2>3, <2>4, <2>5, <1>14
<1>16. push \in Seq(N) /\ Len(push) = m
       /\ \A i \in 1..m : push[i].name = c[m + 1 - i] /\ push[i].exiting = FALSE
  <2>1. \A i \in 1..m : c[i] \in DOMAIN kids
    BY <1>4, <1>8, <1>10, <1>11 DEF Walk, Family, Sourced
  <2>2. \A i \in 1..m : m + 1 - i \in 1..m
    OBVIOUS
  <2>3. \A i \in 1..m : Visit(c[m + 1 - i]) \in N
    BY <2>1, <2>2, <1>5 DEF Visit
  <2>4. push \in Seq(N) /\ Len(push) = m /\ \A i \in 1..m : push[i] = Visit(c[m + 1 - i])
    BY <2>3, <1>12
  <2> QED BY <2>4 DEF Visit
<1>17. /\ st2 \in Seq(N) /\ Len(st2) = L + m
       /\ \A i \in 1..L : st2[i] = mid[i]
       /\ \A i \in 1..m : st2[L + i] = push[i]
  <2>1. /\ st2 \in Seq(N) /\ Len(st2) = Len(mid) + Len(push)
        /\ \A i \in 1..Len(mid) + Len(push) :
             st2[i] = IF i <= Len(mid) THEN mid[i] ELSE push[i - Len(mid)]
    BY <1>12, <1>15, <1>16, ConcatProperties
  <2>2. \A i \in 1..L + m : st2[i] = IF i <= L THEN mid[i] ELSE push[i - L]
    BY <2>1, <1>15, <1>16
  <2>3. \A i \in 1..m : L + i \in 1..L + m /\ ~(L + i <= L) /\ L + i - L = i
    OBVIOUS
  <2>4. \A i \in 1..m : st2[L + i] = push[i]
    BY <2>2, <2>3
  <2>5. \A i \in 1..L : i \in 1..L + m /\ i <= L
    OBVIOUS
  <2>6. \A i \in 1..L : st2[i] = mid[i]
    BY <2>2, <2>5
  <2> QED BY <2>1, <2>4, <2>6, <1>15, <1>16
<1>18. PICK L2, nm2, D2, lo2, hi2 :
         /\ L2 = L + m /\ D2 = DOMAIN iv \cup {n}
         /\ nm2 = [i \in 1..L + m |-> st2[i].name]
         /\ lo2 = [k \in DOMAIN iv \cup {n} |-> IF k = n THEN nx ELSE lo[k]]
         /\ hi2 = [k \in DOMAIN iv \cup {n} |-> IF k = n \/ On(L, nm, k) THEN nx + 1 ELSE hi[k]]
  OBVIOUS
<1>19. /\ \A i \in 1..L : nm2[i] = nm[i]
       /\ \A i \in 1..m : nm2[L + i] = c[m + 1 - i]
  <2>1. \A i \in 1..L : i \in 1..L + m /\ (i = L \/ i \in 1..L - 1)
    BY <1>7
  <2>2. \A i \in 1..L : nm2[i] = st2[i].name /\ st2[i].name = nm[i]
    BY <2>1, <1>4, <1>7, <1>8, <1>15, <1>17, <1>18 DEF Pictured
  <2>3. \A i \in 1..m : L + i \in 1..L + m
    BY <1>7
  <2>4. \A i \in 1..m : nm2[L + i] = st2[L + i].name
    BY <2>3, <1>18
  <2>5. ASSUME NEW i \in 1..m
        PROVE  nm2[L + i] = c[m + 1 - i]
    <3>1. nm2[L + i] = st2[L + i].name
      BY <2>4
    <3>2. st2[L + i] = push[i] /\ push[i].name = c[m + 1 - i]
      BY <1>16, <1>17
    <3> QED BY <3>1, <3>2
  <2> QED BY <2>2, <2>5
<1>20. Entering(kids, L, nm, DOMAIN iv, lo, hi, nx, L2, nm2, D2, lo2, hi2)
  BY <1>8, <1>9, <1>11, <1>18, <1>19 DEF Entering
<1>21. Walk(src, kids, L2, nm2, D2, lo2, hi2, nx + 1)
  BY <1>4, <1>7, <1>8, <1>9, <1>20, WalkEnter
<1>22. DOMAIN iv2 = D2 /\ iv2[n] = [start |-> nx, end |-> nx]
       /\ \A k \in DOMAIN iv : k # n => iv2[k] = iv[k]
  BY <1>12, <1>18 DEF Extended
<1>23. /\ \A k : On(L2, nm2, k) <=> On(L, nm, k) \/ \E i \in 1..m : c[i] = k
       /\ \A i \in 1..m : ~On(L, nm, c[i]) /\ c[i] \notin DOMAIN iv /\ c[i] # n
       /\ On(L, nm, n)
  <2>1. /\ \A k : On(L2, nm2, k) <=>
                    On(L, nm, k) \/ \E i \in 1..Len(kids[nm[L]]) : kids[nm[L]][i] = k
        /\ \A i \in 1..Len(kids[nm[L]]) : /\ ~On(L, nm, kids[nm[L]][i])
                                          /\ kids[nm[L]][i] \notin DOMAIN iv
                                          /\ kids[nm[L]][i] # nm[L]
        /\ On(L, nm, nm[L])
    <3>1. L \in Nat /\ L # 0 /\ Walk(src, kids, L, nm, DOMAIN iv, lo, hi, nx)
      BY <1>4, <1>7
    <3>2. nm[L] \notin DOMAIN iv
      BY <1>8, <1>9
    <3>3. PICK D : D = DOMAIN iv
      OBVIOUS
    <3>4. /\ Walk(src, kids, L, nm, D, lo, hi, nx) /\ nm[L] \notin D
          /\ Entering(kids, L, nm, D, lo, hi, nx, L2, nm2, D2, lo2, hi2)
      BY <1>20, <3>1, <3>2, <3>3
    <3>5. /\ \A k : On(L2, nm2, k) <=>
                    On(L, nm, k) \/ \E i \in 1..Len(kids[nm[L]]) : kids[nm[L]][i] = k
          /\ \A i \in 1..Len(kids[nm[L]]) : /\ ~On(L, nm, kids[nm[L]][i])
                                            /\ kids[nm[L]][i] \notin D
                                            /\ kids[nm[L]][i] # nm[L]
          /\ On(L, nm, nm[L]) /\ nm[L] \in DOMAIN kids /\ Len(kids[nm[L]]) \in Nat
      BY <3>1, <3>4, OnEnter
    <3> QED BY <3>3, <3>5
  <2> QED BY <1>8, <1>11, <2>1
<1>24. Pictured(kids, st2, iv2, nm2, lo2, hi2)
  <2>1. ASSUME NEW i \in 1..L + m
        PROVE  st2[i].name = nm2[i] /\ (st2[i].exiting <=> nm2[i] \in D2)
    <3>1. CASE i \in 1..L - 1
      <4>1. i \in 1..L /\ i # L /\ st2[i] = st[i]
        BY <3>1, <1>7, <1>15, <1>17
      <4>2. nm[i] # n
        BY <4>1, <1>4, <1>7, <1>8 DEF Walk, Hanging
      <4> QED BY <4>1, <4>2, <1>4, <1>7, <1>18, <1>19 DEF Pictured
    <3>2. CASE i = L
      BY <3>2, <1>7, <1>8, <1>15, <1>17, <1>18, <1>19
    <3>3. CASE i \notin 1..L
      <4>1. PICK j \in 1..m : L + j = i
        BY <3>3, <1>7, Places
      <4>2. m + 1 - j \in 1..m
        BY <4>1
      <4>3. st2[i].exiting = FALSE /\ nm2[i] = c[m + 1 - j] /\ nm2[i] \notin D2
        <5>1. st2[L + j].exiting = FALSE /\ nm2[L + j] = c[m + 1 - j]
          BY <1>16, <1>17, <1>19
        <5>2. c[m + 1 - j] \notin D2
          BY <4>2, <1>18, <1>23
        <5> QED BY <4>1, <5>1, <5>2
      <4>4. st2[i].name = nm2[i]
        BY <1>18
      <4> QED BY <4>3, <4>4
    <3> QED BY <3>1, <3>2, <3>3, <1>7
  <2>2. ASSUME NEW k \in D2
        PROVE  /\ iv2[k] \in [start : Nat, end : Nat] /\ iv2[k].start = lo2[k]
               /\ ~On(L2, nm2, k) => iv2[k].end = hi2[k]
    <3>1. CASE k = n
      BY <3>1, <1>10, <1>18, <1>22, <1>23
    <3>2. CASE k # n
      <4>1. k \in DOMAIN iv /\ iv2[k] = iv[k]
        BY <3>2, <1>18, <1>22
      <4>2. /\ iv[k] \in [start : Nat, end : Nat] /\ iv[k].start = lo[k]
            /\ ~On(L, nm, k) => iv[k].end = hi[k]
        BY <4>1, <1>4, <1>7 DEF Pictured
      <4> QED BY <3>2, <4>1, <4>2, <1>18, <1>23
    <3> QED BY <3>1, <3>2
  <2> QED BY <2>1, <2>2, <1>5, <1>17, <1>18, <1>22 DEF Pictured
<1>25. Walking(src, kids, st2, iv2, nx + 1)
  BY <1>17, <1>18, <1>21, <1>22, <1>24 DEF Walking
<1>26. \A k : /\ OnStack(st, k) <=> On(L, nm, k)
              /\ OnStack(st2, k) <=> On(L2, nm2, k)
  <2>1. \A i \in 1..L : st[i].name = nm[i]
    BY <1>4, <1>7 DEF Pictured
  <2>2. Len(st2) = L2 /\ \A i \in 1..L2 : st2[i].name = nm2[i]
    BY <1>17, <1>18
  <2> QED BY <2>1, <2>2, <1>7 DEF OnStack, On
<1>27. Roots(src, kids, left, st2, iv2)
  <2>1. \A i \in 1..m : Sourced(src, c[i])
    BY <1>4, <1>8, <1>10, <1>11 DEF Walk, Family
  <2>2. ASSUME NEW k \in left
        PROVE  /\ k \in DOMAIN kids /\ ~Sourced(src, k) /\ k \notin D2 /\ ~On(L2, nm2, k)
    BY <2>1, <1>3, <1>18, <1>23, <1>26 DEF Roots
  <2>3. ASSUME NEW k \in DOMAIN kids
        PROVE  Sourced(src, k) \/ k \in left \/ k \in D2 \/ On(L2, nm2, k)
    BY <1>3, <1>18, <1>23, <1>26 DEF Roots
  <2> QED BY <2>2, <2>3, <1>22, <1>26 DEF Roots
<1> QED BY <1>1, <1>2, <1>13, <1>25, <1>27 DEF Ancestral, Relations

LEMMA ExitStep ==
    ASSUME Ancestral, Exit
    PROVE  Ancestral'
<1>1. /\ source' = source /\ unlisted' = unlisted /\ children' = children /\ rooted' = rooted
      /\ unrooted' = unrooted /\ next' = next /\ stack # <<>> /\ Top.exiting
      /\ intervals' = [intervals EXCEPT ![Top.name].end = next]
      /\ stack' = Below(stack)
  BY DEF Exit, EndOf, declared
<1>2. PICK src, kids, iv, st, nx, left :
        /\ src = source /\ kids = children /\ iv = intervals /\ st = stack /\ nx = next
        /\ left = unrooted
  OBVIOUS
<1>3. Walking(src, kids, st, iv, nx) /\ Roots(src, kids, left, st, iv) /\ rooted
  BY <1>1, <1>2 DEF Ancestral
<1>4. PICK nm, lo, hi : /\ Pictured(kids, st, iv, nm, lo, hi)
                        /\ Walk(src, kids, Len(st), nm, DOMAIN iv, lo, hi, nx)
  BY <1>3 DEF Walking
<1>5. PICK N : N = [name : DOMAIN kids, exiting : BOOLEAN]
  OBVIOUS
<1>6. st \in Seq(N) /\ st # <<>>
  BY <1>1, <1>2, <1>4, <1>5 DEF Pictured
<1>7. PICK L \in Nat \ {0} : L = Len(st) /\ L \in 1..L
  BY <1>6, BelowTop
<1>8. PICK n : n = nm[L]
  OBVIOUS
<1>9. Top = st[L] /\ Top.name = n /\ n \in DOMAIN iv
  BY <1>1, <1>2, <1>4, <1>7, <1>8 DEF Top, Pictured
<1>10. PICK st2, iv2 : st2 = Below(st) /\ iv2 = [iv EXCEPT ![n].end = nx]
  OBVIOUS
<1>11. st2 = stack' /\ iv2 = intervals' /\ nx = next'
  BY <1>1, <1>2, <1>9, <1>10
<1>12. st2 \in Seq(N) /\ Len(st2) = L - 1 /\ \A i \in 1..L - 1 : st2[i] = st[i]
  BY <1>6, <1>7, <1>10, BelowTop
<1>13. Walk(src, kids, L - 1, nm, DOMAIN iv, lo, hi, nx)
  BY <1>4, <1>7, <1>8, <1>9, WalkExit
<1>14. /\ nx \in Nat /\ hi[n] = nx /\ iv[n] \in [start : Nat, end : Nat] /\ iv[n].start = lo[n]
  <2>1. On(L, nm, n)
    BY <1>7, <1>8 DEF On
  <2> QED BY <2>1, <1>4, <1>7, <1>9 DEF Walk, Numbered, Pictured
<1>15. /\ DOMAIN iv2 = DOMAIN iv /\ iv2[n].end = nx /\ iv2[n].start = lo[n]
       /\ iv2[n] \in [start : Nat, end : Nat]
       /\ \A k \in DOMAIN iv : k # n => iv2[k] = iv[k]
  BY <1>9, <1>10, <1>14
<1>16. \A k : On(L, nm, k) <=> On(L - 1, nm, k) \/ k = n
  <2>1. \A i \in 1..L : i \in 1..L - 1 \/ i = L
    BY <1>7
  <2>2. \A i \in 1..L - 1 : i \in 1..L
    BY <1>7
  <2> QED BY <2>1, <2>2, <1>7, <1>8 DEF On
<1>17. Pictured(kids, st2, iv2, nm, lo, hi)
  <2>1. \A i \in 1..L - 1 : i \in 1..L
    BY <1>7
  <2>2. \A i \in 1..L - 1 : st2[i].name = nm[i] /\ (st2[i].exiting <=> nm[i] \in DOMAIN iv2)
    BY <2>1, <1>4, <1>7, <1>12, <1>15 DEF Pictured
  <2>3. ASSUME NEW k \in DOMAIN iv2
        PROVE  /\ iv2[k] \in [start : Nat, end : Nat] /\ iv2[k].start = lo[k]
               /\ ~On(L - 1, nm, k) => iv2[k].end = hi[k]
    <3>1. CASE k = n
      BY <3>1, <1>14, <1>15
    <3>2. CASE k # n
      <4>1. k \in DOMAIN iv /\ iv2[k] = iv[k]
        BY <3>2, <1>15
      <4>2. /\ iv[k] \in [start : Nat, end : Nat] /\ iv[k].start = lo[k]
            /\ ~On(L, nm, k) => iv[k].end = hi[k]
        BY <4>1, <1>4, <1>7 DEF Pictured
      <4> QED BY <3>2, <4>1, <4>2, <1>16
    <3> QED BY <3>1, <3>2
  <2> QED BY <2>2, <2>3, <1>5, <1>12 DEF Pictured
<1>18. Walking(src, kids, st2, iv2, nx)
  BY <1>12, <1>13, <1>15, <1>17 DEF Walking
<1>19. \A k : /\ OnStack(st, k) <=> On(L, nm, k)
              /\ OnStack(st2, k) <=> On(L - 1, nm, k)
  <2>1. \A i \in 1..L : st[i].name = nm[i]
    BY <1>4, <1>7 DEF Pictured
  <2>2. Len(st2) = L - 1 /\ \A i \in 1..L - 1 : st2[i].name = nm[i]
    BY <1>12, <1>17 DEF Pictured
  <2> QED BY <2>1, <2>2, <1>7 DEF OnStack, On
<1>20. Roots(src, kids, left, st2, iv2)
  BY <1>3, <1>9, <1>15, <1>16, <1>19 DEF Roots
<1> QED BY <1>1, <1>2, <1>11, <1>18, <1>20 DEF Ancestral, Relations

LEMMA AncestralStep ==
    ASSUME Ancestral, [Next]_vars
    PROVE  Ancestral'
<1>1. CASE UNCHANGED vars
  <2>1. /\ source' = source /\ unlisted' = unlisted /\ children' = children /\ rooted' = rooted
        /\ unrooted' = unrooted /\ next' = next /\ stack' = stack /\ intervals' = intervals
    BY <1>1 DEF vars, declared
  <2> QED BY <2>1 DEF Ancestral, Relations
<1>2. CASE Next
  BY <1>2, ListRelationStep, FindRootsStep, StartRootStep, EnterStep, ExitStep DEF Next
<1> QED BY <1>1, <1>2

-----------------------------------------------------------------------------
(* Intervals and sources.                                                  *)
Closed(src, S) == \A r \in S : Sourced(src, r) => src[r] \in S

Over(D, lo, hi, b) == {x \in D : lo[x] <= lo[b] /\ lo[b] < hi[x]}

(* Whose interval holds a name is reached from it through sources.         *)
LEMMA OverReached ==
    ASSUME NEW src, NEW kids, NEW nm, NEW D, NEW lo, NEW hi, NEW nx,
           Walk(src, kids, 0, nm, D, lo, hi, nx),
           NEW b \in D, NEW a \in Over(D, lo, hi, b), NEW S, b \in S, Closed(src, S)
    PROVE  a \in S
<1>1. /\ \A n \in D : lo[n] \in Nat /\ hi[n] \in Nat
      /\ \A x, y \in D : lo[x] = lo[y] => x = y
  BY DEF Walk, Numbered
<1>2. a \in D /\ lo[a] <= lo[b] /\ lo[b] < hi[a]
  BY DEF Over
<1>3. PICK X : X = {x \in D : x \in S /\ lo[a] <= lo[x] /\ lo[x] < hi[a]}
  OBVIOUS
<1>4. PICK T : T = {lo[x] : x \in X}
  OBVIOUS
<1>5. T \in SUBSET Nat /\ lo[b] \in T
  BY <1>1, <1>2, <1>3, <1>4
<1>6. PICK t \in T : \A k \in T : t <= k
  BY <1>5, LeastNumber
<1>7. PICK x \in X : t = lo[x]
  BY <1>4, <1>6
<1>8. x \in D /\ x \in S /\ lo[a] <= lo[x] /\ lo[x] < hi[a]
  BY <1>3, <1>7
<1>9. CASE lo[a] = lo[x]
  BY <1>1, <1>2, <1>8, <1>9
<1>10. CASE lo[a] < lo[x]
  <2>1. Sourced(src, x) /\ lo[a] <= lo[src[x]]
    BY <1>2, <1>8, <1>10 DEF Walk, Laminar
  <2>2. src[x] \in D /\ lo[src[x]] < lo[x] /\ src[x] \in S
    BY <2>1, <1>8 DEF Walk, Laminar, Closed
  <2>3. lo[src[x]] < hi[a]
    BY <2>2, <1>1, <1>2, <1>8
  <2>4. lo[src[x]] \in T
    BY <2>1, <2>2, <2>3, <1>3, <1>4
  <2>5. t <= lo[src[x]]
    BY <2>4, <1>6
  <2> QED BY <2>2, <2>5, <1>1, <1>7, <1>8
<1> QED BY <1>1, <1>2, <1>8, <1>9, <1>10

LEMMA OverClosed ==
    ASSUME NEW src, NEW kids, NEW nm, NEW D, NEW lo, NEW hi, NEW nx,
           Walk(src, kids, 0, nm, D, lo, hi, nx), NEW b \in D
    PROVE  b \in Over(D, lo, hi, b) /\ Closed(src, Over(D, lo, hi, b))
<1>1. \A n \in D : lo[n] \in Nat /\ hi[n] \in Nat /\ lo[n] < hi[n]
  BY DEF Walk, Numbered
<1>2. b \in Over(D, lo, hi, b)
  BY <1>1 DEF Over
<1>3. ASSUME NEW r \in Over(D, lo, hi, b), Sourced(src, r)
      PROVE  src[r] \in Over(D, lo, hi, b)
  <2>1. r \in D /\ lo[r] <= lo[b] /\ lo[b] < hi[r]
    BY DEF Over
  <2>2. src[r] \in D /\ lo[src[r]] < lo[r] /\ hi[r] <= hi[src[r]]
    BY <2>1, <1>3 DEF Walk, Laminar
  <2>3. lo[src[r]] <= lo[b] /\ lo[b] < hi[src[r]]
    BY <2>1, <2>2, <1>1
  <2> QED BY <2>2, <2>3 DEF Over
<1> QED BY <1>2, <1>3 DEF Closed

(* Whatever was entered comes from a root.                                 *)
LEMMA RootReached ==
    ASSUME NEW src, NEW kids, NEW nm, NEW D, NEW lo, NEW hi, NEW nx,
           Walk(src, kids, 0, nm, D, lo, hi, nx),
           NEW b \in D, NEW S, b \in S, Closed(src, S)
    PROVE  \E a \in S : ~Sourced(src, a)
<1>1. \A n \in D : lo[n] \in Nat
  BY DEF Walk, Numbered
<1>2. PICK T : T = {lo[x] : x \in D \cap S}
  OBVIOUS
<1>3. T \in SUBSET Nat /\ lo[b] \in T
  BY <1>1, <1>2
<1>4. PICK t \in T : \A k \in T : t <= k
  BY <1>3, LeastNumber
<1>5. PICK x \in D \cap S : t = lo[x]
  BY <1>2, <1>4
<1>6. ~Sourced(src, x)
  <2>1. SUFFICES ASSUME Sourced(src, x)
                 PROVE  FALSE
    OBVIOUS
  <2>2. src[x] \in D /\ lo[src[x]] < lo[x] /\ src[x] \in S
    BY <2>1, <1>5 DEF Walk, Laminar, Closed
  <2>3. t <= lo[src[x]]
    BY <2>2, <1>2, <1>4
  <2> QED BY <2>2, <2>3, <1>1, <1>5
<1> QED BY <1>5, <1>6

(* In an ascending sequence those up to a bound come first.                *)
LEMMA Prefix ==
    ASSUME NEW m \in Nat, NEW f, NEW s \in Nat, \A i \in 1..m : f[i] \in Nat,
           \A i, j \in 1..m : i < j => f[i] < f[j]
    PROVE  /\ Cardinality({i \in 1..m : f[i] <= s}) \in 0..m
           /\ \A i \in 1..m : f[i] <= s <=> i <= Cardinality({j \in 1..m : f[j] <= s})
<1>1. PICK Q : Q = {i \in 1..m + 1 : i = m + 1 \/ f[i] > s}
  OBVIOUS
<1>2. Q \in SUBSET Nat /\ m + 1 \in Q
  BY <1>1
<1>3. PICK q \in Q : \A k \in Q : q <= k
  BY <1>2, LeastNumber
<1>4. q \in 1..m + 1 /\ (q = m + 1 \/ f[q] > s)
  BY <1>1
<1>5. PICK k \in Nat : k = q - 1 /\ k \in 0..m
  BY <1>4
<1>6. ASSUME NEW i \in 1..m
      PROVE  f[i] <= s <=> i <= k
  <2>1. CASE i < q
    <3>1. i \notin Q /\ i \in 1..m + 1
      BY <2>1, <1>3, <1>4
    <3>2. ~(f[i] > s)
      BY <3>1, <1>1
    <3> QED BY <3>2, <2>1, <1>4, <1>5
  <2>2. CASE i = q
    BY <2>2, <1>4, <1>5
  <2>3. CASE i > q
    <3>1. q \in 1..m /\ f[q] > s
      BY <2>3, <1>4
    <3>2. f[q] < f[i]
      BY <3>1, <2>3
    <3> QED BY <3>1, <3>2, <2>3, <1>5
  <2> QED BY <2>1, <2>2, <2>3, <1>4
<1>7. {i \in 1..m : f[i] <= s} = 1..k
  BY <1>5, <1>6
<1>8. Cardinality(1..k) = k
  BY FS_Interval
<1> QED BY <1>5, <1>6, <1>7, <1>8

-----------------------------------------------------------------------------
(* What Above means once the walk is over: entered relations reach those   *)
(* whose interval holds them, others run in a circle.                      *)
LEMMA AboveClosed ==
    ASSUME NoSource \notin Relations, NEW n \in Names
    PROVE  /\ n \in Above(n) /\ Above(n) \subseteq Names /\ Closed(source, Above(n))
           /\ \A S \in SUBSET Names : n \in S /\ Closed(source, S) => Above(n) \subseteq S
<1>1. \A r : r \in Derived <=> Sourced(source, r)
  BY DEF Derived, Sourced, Relations
<1>2. \A S : Upward(S) <=> Closed(source, S)
  BY <1>1 DEF Upward, Closed
<1>3. n \in Above(n) /\ Above(n) \subseteq Names
  BY DEF Above
<1>4. ASSUME NEW r \in Above(n), Sourced(source, r)
      PROVE  source[r] \in Above(n)
  <2>1. source[r] \in Names
    BY <1>4 DEF Names, Sourced, Relations
  <2>2. ASSUME NEW S \in SUBSET Names, n \in S, Upward(S)
        PROVE  source[r] \in S
    <3>1. r \in S /\ r \in Derived
      BY <2>2, <1>1, <1>4 DEF Above
    <3> QED BY <3>1, <2>2 DEF Upward
  <2> QED BY <2>1, <2>2 DEF Above
<1>5. \A S \in SUBSET Names : n \in S /\ Closed(source, S) => Above(n) \subseteq S
  BY <1>2 DEF Above
<1> QED BY <1>3, <1>4, <1>5 DEF Closed

LEMMA NamesListed ==
    ASSUME NoSource \notin Relations, Listing(source, {}, children)
    PROVE  DOMAIN children = Names
<1>1. \A n : n \in DOMAIN children <=> n \in Relations \/ \E r \in Relations : Sourced(source, r) /\ source[r] = n
  BY DEF Listing, Relations
<1>2. \A n : n \in Names <=> n \in Relations \/ \E r \in Relations : Sourced(source, r) /\ source[r] = n
  BY DEF Names, Sourced, Relations
<1> QED BY <1>1, <1>2

LEMMA IndexSound ==
    ASSUME Ancestral, Indexed
    PROVE  /\ NoneLeftOut
           /\ \A scope \in Relations, relation \in Names : \A read :
                Holds(scope, relation, read) <=>
                  /\ Grounded(scope)
                  /\ \E link \in Above(scope) \cap Derived :
                       source[link] = relation /\ slots[link] = read
<1>1. /\ Listing(source, {}, children) /\ NoSource \notin Relations /\ stack = <<>> /\ unrooted = {}
      /\ Walking(source, children, <<>>, intervals, next)
      /\ Roots(source, children, {}, <<>>, intervals)
  BY DEF Ancestral, Indexed, Listing, Relations
<1>2. PICK src, kids, iv, nx, D : /\ src = source /\ kids = children /\ iv = intervals /\ nx = next
                                  /\ D = DOMAIN intervals
  OBVIOUS
<1>3. Len(<<>>) = 0
  OBVIOUS
<1>4. PICK nm, lo, hi : /\ Pictured(kids, <<>>, iv, nm, lo, hi)
                        /\ Walk(src, kids, 0, nm, D, lo, hi, nx)
  BY <1>1, <1>2, <1>3 DEF Walking
<1>5. \A n : ~On(0, nm, n) /\ ~OnStack(<<>>, n)
  BY <1>3 DEF On, OnStack
<1>6. \A n \in D : intervals[n].start = lo[n] /\ intervals[n].end = hi[n]
  BY <1>2, <1>3, <1>4, <1>5 DEF Pictured
<1>7. \A n \in D : lo[n] \in Nat /\ hi[n] \in Nat /\ lo[n] < hi[n] /\ n \in DOMAIN kids
  BY <1>4 DEF Walk, Numbered
<1>8. \A n \in D : \A i \in 1..Len(kids[n]) : kids[n][i] \in D
  BY <1>4, <1>5 DEF Walk, InTurn
<1>9. DOMAIN kids = Names /\ \A r : r \in Derived <=> Sourced(src, r)
  BY <1>1, <1>2, NamesListed DEF Derived, Sourced, Relations
<1>10. \A n \in Names : Sourced(src, n) \/ n \in D
  BY <1>1, <1>2, <1>5, <1>9 DEF Roots
<1>11. ASSUME NEW n \in D
       PROVE  Above(n) = Over(D, lo, hi, n) /\ Grounded(n)
  <2>1. n \in Names /\ Over(D, lo, hi, n) \in SUBSET Names
    BY <1>7, <1>9 DEF Over
  <2>2. PICK A : A = Above(n)
    OBVIOUS
  <2>3. /\ n \in A /\ Closed(src, A) /\ A \subseteq Names
        /\ \A S \in SUBSET Names : n \in S /\ Closed(src, S) => A \subseteq S
    BY <2>1, <2>2, <1>1, <1>2, AboveClosed
  <2>4. n \in Over(D, lo, hi, n) /\ Closed(src, Over(D, lo, hi, n))
    BY <1>4, OverClosed
  <2>5. A \subseteq Over(D, lo, hi, n)
    BY <2>1, <2>3, <2>4
  <2>6. \A a \in Over(D, lo, hi, n) : a \in A
    BY <2>3, <1>4, OverReached
  <2>7. \E a \in A : ~Sourced(src, a)
    BY <2>3, <1>4, RootReached
  <2> QED BY <2>2, <2>5, <2>6, <2>7, <1>9 DEF Grounded
<1>12. ASSUME NEW n \in Names, n \notin D
       PROVE  ~Grounded(n)
  <2>1. PICK S : S = Names \ D
    OBVIOUS
  <2>2. ASSUME NEW r \in S, Sourced(src, r)
        PROVE  src[r] \in S
    <3>1. src[r] \in DOMAIN kids /\ \E i \in 1..Len(kids[src[r]]) : kids[src[r]][i] = r
      BY <1>4, <2>2 DEF Walk, Family
    <3>2. src[r] \notin D
      BY <3>1, <2>1, <1>8
    <3> QED BY <3>1, <3>2, <2>1, <1>9
  <2>3. S \in SUBSET Names /\ n \in S /\ Closed(source, S)
    BY <2>1, <2>2, <1>2, <1>12 DEF Closed
  <2>4. Above(n) \subseteq S
    BY <2>3, <1>1, AboveClosed
  <2> QED BY <2>1, <2>4, <1>9, <1>10 DEF Grounded
<1>13. ASSUME NEW scope \in D, NEW relation \in D, NEW read
       PROVE  Holds(scope, relation, read) <=>
                \E link \in Over(D, lo, hi, scope) :
                  Sourced(src, link) /\ src[link] = relation /\ slots[link] = read
  <2>1. PICK c, m, s, f : /\ c = kids[relation] /\ m = Len(kids[relation]) /\ s = lo[scope]
                          /\ f = [i \in 1..m |-> lo[c[i]]]
    OBVIOUS
  <2>2. /\ m \in Nat /\ s \in Nat
        /\ \A i \in 1..m : c[i] \in D /\ Sourced(src, c[i]) /\ src[c[i]] = relation
    BY <2>1, <1>4, <1>7, <1>8 DEF Walk, Family
  <2>3. \A i \in 1..m : f[i] = lo[c[i]] /\ f[i] \in Nat
    BY <2>1, <2>2, <1>7
  <2>4. \A i, j \in 1..m : i < j => f[i] < f[j]
    BY <2>1, <2>2, <2>3, <1>4 DEF Walk, InTurn
  <2>5. PICK at : at = Cardinality({i \in 1..m : f[i] <= s})
    OBVIOUS
  <2>6. at \in 0..m /\ \A i \in 1..m : f[i] <= s <=> i <= at
    BY <2>2, <2>3, <2>4, <2>5, Prefix
  <2>7. StartedBy(Branches(relation), s) = at
    <3>1. Branches(relation) = c /\ Len(c) = m
      BY <2>1, <1>2 DEF Branches
    <3>2. \A i \in 1..m : intervals[c[i]].start = f[i]
      BY <2>2, <2>3, <1>6
    <3>3. {i \in 1..m : intervals[c[i]].start <= s} = {i \in 1..m : f[i] <= s}
      BY <3>2
    <3> QED BY <3>1, <3>3, <2>5 DEF StartedBy
  <2>8. Holds(scope, relation, read) <=>
          /\ lo[relation] < s /\ s < hi[relation] /\ at > 0
          /\ s < intervals[c[at]].end /\ slots[c[at]] = read
    BY <2>1, <2>7, <1>2, <1>6 DEF Holds, Branches
  <2>9. ASSUME Holds(scope, relation, read)
        PROVE  \E link \in Over(D, lo, hi, scope) :
                  Sourced(src, link) /\ src[link] = relation /\ slots[link] = read
    <3>1. at \in 1..m /\ at <= at
      BY <2>2, <2>6, <2>8, <2>9
    <3>2. /\ c[at] \in D /\ Sourced(src, c[at]) /\ src[c[at]] = relation
          /\ lo[c[at]] <= s /\ s < hi[c[at]] /\ slots[c[at]] = read
      BY <3>1, <2>2, <2>3, <2>6, <2>8, <2>9, <1>6
    <3> QED BY <3>2, <2>1 DEF Over
  <2>10. ASSUME NEW link \in Over(D, lo, hi, scope),
                Sourced(src, link), src[link] = relation, slots[link] = read
         PROVE  Holds(scope, relation, read)
    <3>1. link \in D /\ lo[link] <= s /\ s < hi[link]
      BY <2>1 DEF Over
    <3>2. lo[relation] < lo[link] /\ hi[link] <= hi[relation]
      BY <3>1, <2>10, <1>4 DEF Walk, Laminar
    <3>3. PICK k \in 1..m : c[k] = link
      BY <2>1, <2>10, <1>4 DEF Walk, Family
    <3>4. k <= at /\ at \in 1..m
      BY <3>1, <3>3, <2>2, <2>3, <2>6
    <3>5. k = at
      <4>1. SUFFICES ASSUME k < at
                     PROVE  FALSE
        BY <3>4
      <4>2. f[k] < f[at] /\ f[at] <= s
        BY <4>1, <3>4, <2>4, <2>6
      <4>3. lo[link] < lo[c[at]] /\ lo[c[at]] < hi[link] /\ c[at] \in D /\ src[c[at]] = relation
        BY <4>2, <3>1, <3>3, <3>4, <2>2, <2>3, <1>7
      <4>4. lo[link] <= lo[relation]
        BY <4>3, <3>1, <1>4 DEF Walk, Laminar
      <4> QED BY <4>4, <3>1, <3>2, <1>7
    <3>6. lo[relation] < s /\ s < hi[relation] /\ at > 0
      BY <3>1, <3>2, <3>4, <2>2, <1>7
    <3>7. intervals[c[at]].end = hi[link] /\ slots[c[at]] = read
      BY <3>1, <3>3, <3>5, <2>10, <1>6
    <3> QED BY <3>1, <3>6, <3>7, <2>8
  <2> QED BY <2>9, <2>10
<1>14. ASSUME NEW scope \in Relations, NEW relation \in Names, NEW read
       PROVE  Holds(scope, relation, read) <=>
                /\ Grounded(scope)
                /\ \E link \in Above(scope) \cap Derived :
                     source[link] = relation /\ slots[link] = read
  <2>1. scope \in Names
    BY <1>1 DEF Names, Relations
  <2>2. CASE scope \notin D
    BY <2>1, <2>2, <1>2, <1>12 DEF Holds
  <2>3. CASE scope \in D /\ relation \notin D
    <3>1. ~Holds(scope, relation, read)
      BY <2>3, <1>2 DEF Holds
    <3>2. ASSUME NEW link \in Above(scope) \cap Derived
          PROVE  source[link] # relation
      <4>1. link \in D /\ Sourced(src, link)
        BY <2>3, <1>9, <1>11 DEF Over
      <4>2. src[link] \in D
        BY <4>1, <1>4 DEF Walk, Laminar
      <4> QED BY <4>2, <2>3, <1>2
    <3> QED BY <3>1, <3>2
  <2>4. CASE scope \in D /\ relation \in D
    <3>1. Grounded(scope) /\ Above(scope) = Over(D, lo, hi, scope)
      BY <2>4, <1>11
    <3>2. Holds(scope, relation, read) <=>
            \E link \in Over(D, lo, hi, scope) :
              Sourced(src, link) /\ src[link] = relation /\ slots[link] = read
      BY <2>4, <1>13
    <3> QED BY <3>1, <3>2, <1>2, <1>9
  <2> QED BY <2>2, <2>3, <2>4
<1>15. NoneLeftOut
  BY <1>2, <1>8 DEF NoneLeftOut
<1> QED BY <1>14, <1>15

(* Whatever relations are declared, in whatever order the hash map lists   *)
(* them and its roots: once the index is built every child was entered,    *)
(* and the index holds a relation for a scope exactly if it is a source up *)
(* the scope's chain and the link below it reads it with the slots asked   *)
(* about; chains that run in a circle hold nothing                         *)
(* (`CandidateAncestry::new`, `holds`).                                    *)
THEOREM IndexCorrect == AncestrySpec => []IndexExact
<1>1. Init /\ NoSource \notin Relations => Ancestral
  BY AncestralInit
<1>2. Ancestral /\ [Next]_vars => Ancestral'
  BY AncestralStep
<1>3. Ancestral => IndexExact
  BY IndexSound DEF IndexExact
<1> QED BY <1>1, <1>2, <1>3, PTL DEF AncestrySpec
=============================================================================
