----------------------------- MODULE BulkProofs -----------------------------
(***************************************************************************)
(* Theorems about Bulk for every program, batch of rows, request and       *)
(* threshold: a computed column holds explain's outcome in each of its     *)
(* rows, and a request answered fast is answered as explain would.         *)
(*                                                                         *)
(* A node's column is right if, row by row, the accumulated value stands   *)
(* for operand values that lead explain's recursion to the node's meaning. *)
(***************************************************************************)
EXTENDS Bulk, SequenceTheorems, FiniteSetTheorems, NaturalsInduction, WellFoundedInduction, TLAPS

(* The types of frames and columns.                                        *)
ErrorNames ==
    (Statuses \ {"ok"}) \cup {"expected_scalar", "expected_judgment", "overflow", "missing_input",
                              "division_by_zero", "type_mismatch", "no_matching_arm"}
ErrorsType == UNION {[rows -> ErrorNames] : rows \in SUBSET Rows}

FrameType ==
    [key : Keys, expr : Exprs, mask : SUBSET Rows, live : SUBSET Rows, n : Nat,
     acc : [Rows -> Int], errors : ErrorsType, body : BOOLEAN]

ColumnType == [vals : [Rows -> Int], errors : ErrorsType, computed : SUBSET Rows]
TaskType == [key : Keys, rows : SUBSET Rows]

(* A node's or a rule's value in a row.                                    *)
ValuesOf(e) == IF Judges(e) THEN {Holds, NotHolds} ELSE Values
KindValues(k) == IF k.kind = "judgment" THEN {Holds, NotHolds} ELSE Values

Decided(p, cell, e, a) == a \in ValuesOf(e) /\ Rest(p, cell, e, <<>>) = Ok(a)

NodeRight(p, cell, e, col, errors, r) ==
    IF r \in DOMAIN errors THEN Rest(p, cell, e, <<>>) = Err(errors[r])
    ELSE Decided(p, cell, e, col[r])

RuleRight(p, cell, k, col, errors, r) ==
    IF r \in DOMAIN errors THEN Meaning(p, cell, k) = Err(errors[r])
    ELSE col[r] \in KindValues(k) /\ Meaning(p, cell, k) = Ok(col[r])

(* Operand values explain has seen where the column has come to `a`.       *)
Holding(e, n, a, vals) ==
    CASE e.op = "add" -> Len(vals) = n /\ Total(vals) = a
      [] e.op = "max" -> Len(vals) = n /\ (n > 0 => IsLargest(a, vals))
      [] e.op = "and" -> Len(vals) = n /\ a = Holds
      [] e.op = "or"  -> Len(vals) = n /\ a = NotHolds
      [] e.op \in {"div", "compare"} -> Len(vals) = n /\ (n = 1 => vals[1] = a)
      [] e.op = "if"  -> \/ n = 0 /\ vals = <<>>
                         \/ n = 1 /\ Len(vals) = 1 /\ vals[1] = a
                         \/ n = 2 /\ Len(vals) = 1 /\ vals[1] # Holds
      [] OTHER -> n = 0 /\ vals = <<>>

(* Explain comes through these operand values, and from them, to the       *)
(* node's outcome.                                                         *)
OnCourse(p, cell, e, vals) ==
    /\ Rest(p, cell, e, vals) = Rest(p, cell, e, <<>>)
    /\ Reaches(p, cell, e, vals) => Reaches(p, cell, e, <<>>)
    /\ Rest(p, cell, e, <<>>).ok => Steps(p, cell, e, vals) <= Steps(p, cell, e, <<>>)

Standing(p, cell, e, n, a) ==
    \E vals \in Partial(e) :
        Wants(e, vals) /\ OnCourse(p, cell, e, vals) /\ Holding(e, n, a, vals)

(* The accumulated column is a value once the node has one.                *)
Accumulates(e, n) ==
    /\ e.op \notin {"literal", "input", "unsupported"}
    /\ e.op \in {"derived", "max"} => n > 0

MayDecide(e, n) == e.op \in {"and", "or"} \/ (e.op = "if" /\ n >= 2)

RowSound(p, cell, f, r) ==
    IF r \in DOMAIN f.errors
    THEN /\ f.expr.op # "derived" => r \notin f.live
         /\ Rest(p, cell, f.expr, <<>>) = Err(f.errors[r])
    ELSE /\ r \notin f.live => MayDecide(f.expr, f.n)
         /\ IF f.n < Len(f.expr.args) /\ r \in f.live
            THEN Standing(p, cell, f.expr, f.n, f.acc[r])
            ELSE Accumulates(f.expr, f.n) => Decided(p, cell, f.expr, f.acc[r])

FrameSound(p, cs, f) ==
    /\ f.mask # {} /\ f.live \subseteq f.mask
    /\ DOMAIN f.errors \subseteq f.mask
    /\ \A r \in f.mask : RowSound(p, cs[r], f, r)

(* The rows a column has been computed for.                                *)
ComputedIn(cols, k) == IF k \in DOMAIN cols THEN cols[k].computed ELSE {}

ColumnRight(p, cs, k, column) ==
    /\ DOMAIN column.errors \subseteq column.computed
    /\ \A r \in column.computed : RuleRight(p, cs[r], k, column.vals, column.errors, r)

(* A frame stands where the one below it waits: for a rule's column over   *)
(* the rows not computed yet, or for an operand over the rows that need it.*)
Follows(cols, g, f) ==
    IF g.body
    THEN /\ f.expr.op = "derived" /\ f.n = 0 /\ g.key = f.expr.key
         /\ f.mask \subseteq g.mask \cup ComputedIn(cols, g.key)
    ELSE WantsOperand(f) /\ g.expr = NextOperand(f) /\ g.mask = OperandRows(f)

BodySound(p, f) == f.body => f.expr = Body(p, f.key.rule) /\ RefusalOf(p, f.key) = "none"

Typed ==
    /\ program \in Programs
    /\ cells \in [Rows -> Cells]
    /\ request \in [Rows -> Seq(Rules)]
    /\ tasks \in Seq(TaskType)

ColumnsSound(p, cs, cols) ==
    /\ DOMAIN cols \subseteq Keys
    /\ \A k \in DOMAIN cols : cols[k] \in ColumnType /\ ColumnRight(p, cs, k, cols[k])

ColumnsRight == ColumnsSound(program, cells, columns)

StackSound(p, cs, cols, goal, st) ==
    /\ st \in Seq(FrameType)
    /\ st # <<>> => /\ st[1].body /\ st[1].key = goal.key
                    /\ goal.rows \subseteq st[1].mask \cup ComputedIn(cols, goal.key)
    /\ \A i \in 1..Len(st) : FrameSound(p, cs, st[i]) /\ BodySound(p, st[i])
    /\ \A i \in 1..(Len(st) - 1) : Follows(cols, st[i+1], st[i])

StackRight ==
    /\ stack # <<>> => Running /\ Asked # {}
    /\ StackSound(program, cells, columns, Goal, stack)

TasksRight == tasks # <<>> => Running /\ Asked # {}

EvaluatedRight ==
    /\ DOMAIN evaluated \subseteq Asked
    /\ \A name \in DOMAIN evaluated : \A r \in RowsAsking(name) :
           OutcomeFor(r, name) = Ok(evaluated[name][r])
    /\ Running /\ Asked # {} => Pending # {}

Inductive ==
    Typed /\ ColumnsRight /\ StackRight /\ TasksRight /\ EvaluatedRight /\ FastEqualsExplain
-----------------------------------------------------------------------------
(* Sums. A sum is the last value of the function that adds up the terms.   *)
IsSum(s, v, n) ==
    /\ s \in [0..n -> Int]
    /\ \A i \in 0..n : s[i] = IF i = 0 THEN 0 ELSE s[i-1] + v[i]

(* Every nonempty set of numbers has a least one.                          *)
LEMMA LeastNumber ==
    ASSUME NEW S \in SUBSET Nat, S # {}
    PROVE  \E m \in S : \A k \in S : m <= k
<1> DEFINE R == OpToRel(<, Nat)
<1>1. IsWellFoundedOn(R, Nat)
  BY NatLessThanWellFounded
<1>2. \A x, y \in Nat : x < y => <<x, y>> \in R
  BY DEF OpToRel
<1> HIDE DEF R
<1>3. PICK m \in S : \A k \in S : <<k, m>> \notin R
  BY <1>1, WFMin
<1>4. \A k \in S : m <= k
  <2> TAKE k \in S
  <2>1. k \in Nat /\ m \in Nat /\ ~(k < m)
    BY <1>2, <1>3
  <2> QED BY <2>1
<1> QED BY <1>4

LEMMA SumExists ==
    ASSUME NEW v \in Seq(Int), NEW n \in 0..Len(v)
    PROVE  \E s : IsSum(s, v, n)
<1> DEFINE S == {m \in 0..Len(v) : ~\E s : IsSum(s, v, m)}
<1>1. SUFFICES ASSUME S # {}
               PROVE  FALSE
  OBVIOUS
<1>2. Len(v) \in Nat /\ S \in SUBSET Nat
  OBVIOUS
<1>3. PICK m \in S : \A k \in S : m <= k
  <2> HIDE DEF S
  <2> QED BY <1>1, <1>2, LeastNumber
<1>4. m \in 0..Len(v) /\ m \in Nat
  BY <1>2
<1>5. CASE m = 0
  <2>1. IsSum([i \in 0..0 |-> 0], v, 0)
    BY DEF IsSum
  <2> QED BY <2>1, <1>5
<1>6. CASE m # 0
  <2>1. m - 1 \in 0..Len(v) /\ m - 1 \notin S
    <3>1. m - 1 \in Nat /\ ~(m <= m - 1)
      BY <1>4, <1>6
    <3> QED BY <3>1, <1>2, <1>3, <1>4
  <2>2. PICK s : IsSum(s, v, m - 1)
    BY <2>1
  <2> DEFINE t == [i \in 0..m |-> IF i = m THEN s[m - 1] + v[m] ELSE s[i]]
  <2>3. m \in 1..Len(v) /\ v[m] \in Int
    BY <1>4, <1>6
  <2>4. /\ \A i \in 0..m : i # m => i \in 0..(m - 1)
        /\ \A i \in 0..m : i # 0 => i - 1 \in 0..(m - 1) /\ i - 1 \in 0..m /\ i - 1 # m
        /\ m - 1 \in 0..(m - 1)
    BY <1>4, <1>6
  <2>5. s \in [0..(m - 1) -> Int]
    BY <2>2 DEF IsSum
  <2>6. t \in [0..m -> Int]
    BY <2>3, <2>4, <2>5
  <2>7. ASSUME NEW i \in 0..m
        PROVE  t[i] = IF i = 0 THEN 0 ELSE t[i-1] + v[i]
    <3>1. CASE i = m
      <4>1. t[i] = s[m - 1] + v[m]
        BY <3>1
      <4>2. t[i - 1] = s[m - 1]
        BY <3>1, <2>4, <1>6
      <4> QED BY <4>1, <4>2, <3>1, <1>6
    <3>2. CASE i # m
      <4>1. t[i] = s[i] /\ i \in 0..(m - 1)
        BY <3>2, <2>4
      <4>2. i # 0 => t[i - 1] = s[i - 1]
        BY <2>4
      <4>3. s[i] = IF i = 0 THEN 0 ELSE s[i-1] + v[i]
        BY <4>1, <2>2 DEF IsSum
      <4> QED BY <4>1, <4>2, <4>3
    <3> QED BY <3>1, <3>2
  <2> HIDE DEF t
  <2>8. IsSum(t, v, m)
    BY <2>6, <2>7 DEF IsSum
  <2> QED BY <2>8
<1> QED BY <1>5, <1>6

LEMMA SumUnique ==
    ASSUME NEW v, NEW w, NEW n \in Nat, \A i \in 1..n : v[i] = w[i],
           NEW m \in Nat, NEW s, NEW t, IsSum(s, v, m), n <= m, IsSum(t, w, n)
    PROVE  s[n] = t[n]
<1> DEFINE S == {i \in 0..n : s[i] # t[i]}
<1>1. SUFFICES ASSUME S # {}
               PROVE  FALSE
  OBVIOUS
<1>2. PICK i \in S : \A k \in S : i <= k
  <2>1. S \in SUBSET Nat
    OBVIOUS
  <2> HIDE DEF S
  <2> QED BY <1>1, <2>1, LeastNumber
<1>3. i \in 0..n /\ i \in 0..m /\ s[i] # t[i]
  OBVIOUS
<1>4. i # 0
  BY <1>3 DEF IsSum
<1>5. i - 1 \in 0..n /\ i - 1 \notin S /\ i \in 1..n
  <2>1. i - 1 \in 0..n /\ i \in 1..n /\ ~(i <= i - 1)
    BY <1>3, <1>4
  <2> QED BY <2>1, <1>2
<1>6. s[i-1] = t[i-1] /\ v[i] = w[i]
  BY <1>5
<1>7. s[i] = s[i-1] + v[i] /\ t[i] = t[i-1] + w[i]
  BY <1>3, <1>4 DEF IsSum
<1> QED BY <1>3, <1>6, <1>7

LEMMA TotalIsSum ==
    ASSUME NEW v \in Seq(Int)
    PROVE  \E s : IsSum(s, v, Len(v)) /\ Total(v) = s[Len(v)]
<1> DEFINE F(s) == [i \in 0..Len(v) |-> IF i = 0 THEN 0 ELSE s[i-1] + v[i]]
<1>1. Len(v) \in 0..Len(v) /\ Len(v) \in Nat
  OBVIOUS
<1>2. PICK s : IsSum(s, v, Len(v))
  BY <1>1, SumExists
<1>3. s = F(s)
  BY <1>2 DEF IsSum
<1>4. PICK t : t = CHOOSE x : x = F(x)
  OBVIOUS
<1>5. t = F(t) /\ Total(v) = t[Len(v)]
  BY <1>3, <1>4 DEF Total
<1>6. Total(v) = s[Len(v)]
  <2> DEFINE S == {i \in 0..Len(v) : t[i] # s[i]}
  <2>1. SUFFICES ASSUME S # {}
                 PROVE  FALSE
    BY <1>1, <1>5
  <2>2. PICK i \in S : \A k \in S : i <= k
    <3>1. S \in SUBSET Nat
      OBVIOUS
    <3> HIDE DEF S
    <3> QED BY <2>1, <3>1, LeastNumber
  <2>3. i \in 0..Len(v) /\ t[i] # s[i]
    OBVIOUS
  <2>4. t[i] = IF i = 0 THEN 0 ELSE t[i-1] + v[i]
    BY <1>5, <2>3
  <2>5. s[i] = IF i = 0 THEN 0 ELSE s[i-1] + v[i]
    BY <1>2, <2>3 DEF IsSum
  <2>6. i # 0
    BY <2>3, <2>4, <2>5
  <2>7. i - 1 \in 0..Len(v) /\ ~(i <= i - 1)
    BY <1>1, <2>3, <2>6
  <2>8. t[i-1] = s[i-1]
    BY <2>2, <2>7
  <2> QED BY <2>3, <2>4, <2>5, <2>8
<1> QED BY <1>2, <1>6

LEMMA TotalFacts ==
    ASSUME NEW v \in Seq(Values)
    PROVE  /\ Total(v) \in Int
           /\ v = <<>> => Total(v) = 0
           /\ \A x \in Values : Total(Append(v, x)) = Total(v) + x
<1>1. v \in Seq(Int) /\ Len(v) \in Nat /\ \A x \in Values : x \in Int
  <2>1. Values \subseteq Int
    BY MaxDecimalAssumption DEF Values
  <2>2. Len(v) \in Nat /\ v \in [1..Len(v) -> Values]
    OBVIOUS
  <2>3. v \in [1..Len(v) -> Int]
    BY <2>1, <2>2
  <2>4. v \in Seq(Int)
    BY <2>2, <2>3
  <2> QED BY <2>1, <2>2, <2>4
<1>2. PICK s : IsSum(s, v, Len(v)) /\ Total(v) = s[Len(v)]
  BY <1>1, TotalIsSum
<1>3. Total(v) \in Int
  BY <1>1, <1>2 DEF IsSum
<1>4. v = <<>> => Total(v) = 0
  BY <1>2 DEF IsSum
<1>5. ASSUME NEW x \in Values
      PROVE  Total(Append(v, x)) = Total(v) + x
  <2> DEFINE w == Append(v, x)
             n == Len(v)
  <2>1. /\ w \in Seq(Int) /\ Len(w) = n + 1 /\ w[n + 1] = x /\ n \in Nat
        /\ \A i \in 1..n : w[i] = v[i]
    BY <1>1, <1>5, AppendProperties
  <2> HIDE DEF w, n
  <2>2. PICK t : IsSum(t, w, n + 1) /\ Total(w) = t[n + 1]
    BY <2>1, TotalIsSum
  <2>3. t[n + 1] = t[n] + w[n + 1]
    <3>1. n + 1 \in 0..(n + 1) /\ n + 1 # 0 /\ (n + 1) - 1 = n
      BY <2>1
    <3> QED BY <3>1, <2>2 DEF IsSum
  <2>4. IsSum(s, v, n)
    BY <1>2 DEF n
  <2>5. t[n] = s[n]
    <3>1. n + 1 \in Nat /\ n <= n + 1
      BY <2>1
    <3> QED BY <3>1, <2>1, <2>2, <2>4, SumUnique
  <2> QED BY <2>1, <2>2, <2>3, <2>5, <1>2 DEF w, n
<1> QED BY <1>3, <1>4, <1>5

-----------------------------------------------------------------------------
(* What the assumptions say of one formula node.                           *)
LEMMA NodeFacts ==
    ASSUME NEW e \in Exprs
    PROVE  /\ e.args \in Seq(Exprs)
           /\ Len(e.args) \in Nat
           /\ \A i \in 1..Len(e.args) : e.args[i] \in Exprs
           /\ Arity(e) \in Nat
           /\ e.op = "derived" => e.key \in Keys
           /\ e.op = "literal" => e.val \in Values
           /\ e.op \in {"literal", "input", "unsupported", "derived"} => Len(e.args) = 0
           /\ e.op \in {"no_match", "not"} => Len(e.args) = 1
           /\ e.op \in {"div", "compare"} => Len(e.args) = 2
           /\ e.op = "if" => Len(e.args) = 3
           /\ e.op \in {"and", "or"} => \A i \in 1..Len(e.args) : Judges(e.args[i])
           /\ e.op \in {"literal", "input", "unsupported", "derived", "add", "max", "div",
                        "if", "no_match", "compare", "and", "or", "not"}
<1>1. CASE e.op \in {"input", "unsupported"}
  <2>1. e.args = <<>>
    BY <1>1, BulkAssumption DEF WellTyped
  <2>2. e.args \in Seq(Exprs) /\ Len(e.args) = 0
    BY <2>1
  <2> QED BY <2>2, <1>1 DEF Arity
<1>2. CASE e.op \notin {"input", "unsupported"}
  <2>1. WellFormed(e) /\ e.op # "missing"
    BY <1>2, BulkAssumption DEF WellTyped
  <2> QED BY <2>1, <1>2, BulkAssumption DEF WellTyped, WellFormed, Arity, Leaves, Ops
<1> QED BY <1>1, <1>2

(* Operand values are a sequence no longer than the node's operands.       *)
LEMMA PartialFacts ==
    ASSUME NEW e \in Exprs, NEW vals \in Partial(e)
    PROVE  /\ vals \in Seq(Values)
           /\ Len(vals) \in Nat
           /\ Len(vals) <= Arity(e)
           /\ \A i \in 1..Len(vals) : vals[i] \in Values
<1>1. PICK n \in 0..Arity(e) : vals \in [1..n -> Values]
  BY DEF Partial
<1>2. Arity(e) \in Nat
  BY NodeFacts
<1> QED BY <1>1, <1>2

LEMMA EmptyPartial ==
    ASSUME NEW e \in Exprs
    PROVE  <<>> \in Partial(e)
<1>1. Arity(e) \in Nat
  BY NodeFacts
<1>2. <<>> \in [1..0 -> Values]
  OBVIOUS
<1> QED BY <1>1, <1>2 DEF Partial

LEMMA AppendPartial ==
    ASSUME NEW e \in Exprs, NEW vals \in Partial(e), NEW v \in Values,
           Len(vals) < Arity(e)
    PROVE  /\ Append(vals, v) \in Partial(e)
           /\ Len(Append(vals, v)) = Len(vals) + 1
           /\ \A i \in 1..Len(vals) : Append(vals, v)[i] = vals[i]
           /\ Append(vals, v)[Len(vals) + 1] = v
<1>1. vals \in Seq(Values) /\ Len(vals) \in Nat /\ Arity(e) \in Nat
  BY PartialFacts, NodeFacts
<1>2. /\ Append(vals, v) \in Seq(Values)
      /\ Len(Append(vals, v)) = Len(vals) + 1
      /\ \A i \in 1..Len(vals) : Append(vals, v)[i] = vals[i]
      /\ Append(vals, v)[Len(vals) + 1] = v
  BY <1>1, AppendProperties
<1>4. Append(vals, v) \in [1..(Len(vals) + 1) -> Values]
  BY <1>2, LenProperties
<1>3. Len(vals) + 1 \in 0..Arity(e)
  BY <1>1
<1> QED BY <1>2, <1>3, <1>4 DEF Partial

(* A node that wants an operand has one, and room for its value.           *)
LEMMA WantsFacts ==
    ASSUME NEW e \in Exprs, NEW vals \in Partial(e), Wants(e, vals)
    PROVE  /\ e.op \notin {"literal", "input", "unsupported", "derived"}
           /\ Position(e, vals) \in 1..Len(e.args)
           /\ Operand(e, vals) \in Exprs
           /\ Len(vals) < Arity(e)
<1>1. /\ Len(vals) \in Nat /\ Len(e.args) \in Nat
      /\ e.op = "div" => Len(e.args) = 2
      /\ e.op = "if" => Len(e.args) = 3
  BY NodeFacts, PartialFacts
<1>2. CASE e.op = "div"
  <2>1. Len(vals) = 0 \/ Len(vals) = 1
    BY <1>2 DEF Wants
  <2>2. Len(e.args) = 2
    BY <1>1, <1>2
  <2>3. Position(e, vals) \in {1, 2}
    BY <2>1, <1>2 DEF Position
  <2>4. Len(vals) < Len(e.args) /\ Position(e, vals) \in 1..Len(e.args)
    BY <2>1, <2>2, <2>3
  <2> QED BY <2>4, <1>2, NodeFacts DEF Operand, Arity
<1>3. CASE e.op = "if"
  <2>1. Len(vals) = 0 \/ Len(vals) = 1
    BY <1>3 DEF Wants
  <2>2. Len(e.args) = 3
    BY <1>1, <1>3
  <2>3. Position(e, vals) \in {1, 2, 3}
    BY <1>3 DEF Position
  <2>4. Len(vals) < Len(e.args) /\ Position(e, vals) \in 1..Len(e.args)
    BY <2>1, <2>2, <2>3
  <2> QED BY <2>4, <1>3, NodeFacts DEF Operand, Arity
<1>4. CASE e.op \notin {"div", "if"}
  <2>1. /\ Len(vals) < Len(e.args)
        /\ e.op \notin {"literal", "input", "unsupported", "derived"}
    BY <1>1, <1>4 DEF Wants
  <2>2. Position(e, vals) = Len(vals) + 1
    BY <1>4 DEF Position
  <2>3. Position(e, vals) \in 1..Len(e.args)
    BY <1>1, <2>1, <2>2
  <2> QED BY <2>1, <2>3, NodeFacts DEF Operand, Arity
<1> QED BY <1>2, <1>3, <1>4

-----------------------------------------------------------------------------
(* A value and an error can be told apart and read back.                   *)
LEMMA OkFacts ==
    ASSUME NEW v, NEW x
    PROVE  Ok(v).ok = TRUE /\ Ok(v).val = v /\ Err(x).ok = FALSE /\ Ok(v) # Err(x)
BY DEF Ok, Err

(* What the reference says of one node and of one rule.                    *)
LEMMA RestRead ==
    ASSUME NEW p \in Programs, NEW cell \in Cells, NEW e \in Exprs, e.op = "derived"
    PROVE  Rest(p, cell, e, <<>>) = Meaning(p, cell, e.key)
BY EmptyPartial, ReferenceAssumption DEF ExplainsOn

LEMMA RestInput ==
    ASSUME NEW p \in Programs, NEW cell \in Cells, NEW e \in Exprs, e.op = "input"
    PROVE  /\ cell = Absent => Rest(p, cell, e, <<>>) = Err("missing_input")
           /\ cell # Absent => Rest(p, cell, e, <<>>) = Ok(cell)
BY EmptyPartial, ReferenceAssumption DEF ExplainsOn

LEMMA RestWants ==
    ASSUME NEW p \in Programs, NEW cell \in Cells, NEW e \in Exprs,
           NEW vals \in Partial(e), Wants(e, vals)
    PROVE  /\ \A v : Rest(p, cell, Operand(e, vals), <<>>) = Ok(v)
                        => Rest(p, cell, e, Append(vals, v)) = Rest(p, cell, e, vals)
           /\ \A x : Rest(p, cell, Operand(e, vals), <<>>) = Err(x)
                        => Rest(p, cell, e, vals) = Err(x)
<1>1. e.op \notin {"unsupported", "input", "derived"}
  BY WantsFacts
<1>2. Rest(p, cell, e, vals) =
         LET o == Rest(p, cell, Operand(e, vals), <<>>)
         IN  IF o.ok THEN Rest(p, cell, e, Append(vals, o.val)) ELSE o
  BY <1>1, ReferenceAssumption DEF ExplainsOn
<1>3. ASSUME NEW v, Rest(p, cell, Operand(e, vals), <<>>) = Ok(v)
      PROVE  Rest(p, cell, e, Append(vals, v)) = Rest(p, cell, e, vals)
  BY <1>2, <1>3, OkFacts
<1>4. ASSUME NEW x, Rest(p, cell, Operand(e, vals), <<>>) = Err(x)
      PROVE  Rest(p, cell, e, vals) = Err(x)
  BY <1>2, <1>4, OkFacts
<1> QED BY <1>3, <1>4

(* Where explain comes to a value, every operand on its way does, in fewer *)
(* steps.                                                                  *)
LEMMA WantsEnds ==
    ASSUME NEW p \in Programs, NEW cell \in Cells, NEW e \in Exprs,
           NEW vals \in Partial(e), Wants(e, vals), Rest(p, cell, e, vals).ok
    PROVE  /\ Rest(p, cell, Operand(e, vals), <<>>).ok
           /\ Steps(p, cell, Operand(e, vals), <<>>) < Steps(p, cell, e, vals)
           /\ \A v \in Values : Rest(p, cell, Operand(e, vals), <<>>) = Ok(v)
                 => Steps(p, cell, e, Append(vals, v)) < Steps(p, cell, e, vals)
<1>1. e.op \notin {"unsupported", "input", "derived"}
  BY WantsFacts
<1>2. Rest(p, cell, e, vals) =
         LET o == Rest(p, cell, Operand(e, vals), <<>>)
         IN  IF o.ok THEN Rest(p, cell, e, Append(vals, o.val)) ELSE o
  BY <1>1, ReferenceAssumption DEF ExplainsOn
<1>3. Rest(p, cell, Operand(e, vals), <<>>).ok
  BY <1>2
<1> QED BY <1>3, EndAssumption DEF EndsOn

(* What an operand reaches, its node reaches, and so from there on.        *)
LEMMA WantsReaches ==
    ASSUME NEW p \in Programs, NEW cell \in Cells, NEW e \in Exprs,
           NEW vals \in Partial(e), Wants(e, vals)
    PROVE  /\ Reaches(p, cell, Operand(e, vals), <<>>) => Reaches(p, cell, e, vals)
           /\ \A v : Rest(p, cell, Operand(e, vals), <<>>) = Ok(v)
                     /\ Reaches(p, cell, e, Append(vals, v)) => Reaches(p, cell, e, vals)
<1>1. e.op \notin {"unsupported", "input", "derived"}
  BY WantsFacts
<1>2. Reaches(p, cell, e, vals) <=>
         LET o == Rest(p, cell, Operand(e, vals), <<>>)
         IN  \/ Reaches(p, cell, Operand(e, vals), <<>>)
             \/ o.ok /\ Reaches(p, cell, e, Append(vals, o.val))
  BY <1>1, TouchesAssumption DEF TouchesOn
<1>3. ASSUME NEW v, Rest(p, cell, Operand(e, vals), <<>>) = Ok(v),
             Reaches(p, cell, e, Append(vals, v))
      PROVE  Reaches(p, cell, e, vals)
  BY <1>2, <1>3, OkFacts
<1> QED BY <1>2, <1>3

(* Explain starts on its course and stays on it.                           *)
LEMMA CourseStarts ==
    ASSUME NEW p \in Programs, NEW cell \in Cells, NEW e \in Exprs
    PROVE  OnCourse(p, cell, e, <<>>)
<1>1. Steps(p, cell, e, <<>>) \in Nat
  BY EmptyPartial, EndAssumption DEF EndsOn
<1> QED BY <1>1 DEF OnCourse

LEMMA CourseGoesOn ==
    ASSUME NEW p \in Programs, NEW cell \in Cells, NEW e \in Exprs,
           NEW vals \in Partial(e), Wants(e, vals), OnCourse(p, cell, e, vals),
           NEW v \in Values, Rest(p, cell, Operand(e, vals), <<>>) = Ok(v)
    PROVE  OnCourse(p, cell, e, Append(vals, v))
<1>1. Rest(p, cell, e, Append(vals, v)) = Rest(p, cell, e, <<>>)
  BY RestWants DEF OnCourse
<1>2. Reaches(p, cell, e, Append(vals, v)) => Reaches(p, cell, e, <<>>)
  BY WantsReaches DEF OnCourse
<1>3. ASSUME Rest(p, cell, e, <<>>).ok
      PROVE  Steps(p, cell, e, Append(vals, v)) <= Steps(p, cell, e, <<>>)
  <2>1. /\ Steps(p, cell, e, Append(vals, v)) < Steps(p, cell, e, vals)
        /\ Steps(p, cell, e, vals) <= Steps(p, cell, e, <<>>)
    BY <1>3, WantsEnds DEF OnCourse
  <2>2. PICK w : w = Append(vals, v)
    OBVIOUS
  <2>3. w \in Partial(e)
    BY <2>2, WantsFacts, AppendPartial
  <2>4. /\ Steps(p, cell, e, w) \in Nat /\ Steps(p, cell, e, vals) \in Nat
        /\ Steps(p, cell, e, <<>>) \in Nat
    BY <2>3, EmptyPartial, EndAssumption DEF EndsOn
  <2> QED BY <2>1, <2>2, <2>4
<1> QED BY <1>1, <1>2, <1>3 DEF OnCourse

LEMMA RestFinish ==
    ASSUME NEW p \in Programs, NEW cell \in Cells, NEW e \in Exprs,
           NEW vals \in Partial(e), ~Wants(e, vals),
           e.op \notin {"unsupported", "input", "derived"}
    PROVE  Rest(p, cell, e, vals) = Finish(e, vals)
BY ReferenceAssumption DEF ExplainsOn

LEMMA MeaningRule ==
    ASSUME NEW p \in Programs, NEW cell \in Cells, NEW k \in Keys
    PROVE  /\ RefusalOf(p, k) # "none" => Meaning(p, cell, k) = Err(RefusalOf(p, k))
           /\ RefusalOf(p, k) = "none" =>
                /\ \A v : Rest(p, cell, Body(p, k.rule), <<>>) = Ok(v)
                            => Meaning(p, cell, k) = Ok(RoundedTo(p, k, v))
                /\ \A x : Rest(p, cell, Body(p, k.rule), <<>>) = Err(x)
                            => Meaning(p, cell, k) = Err(x)
<1>1. Meaning(p, cell, k) =
        IF RefusalOf(p, k) # "none" THEN Err(RefusalOf(p, k))
        ELSE LET o == Rest(p, cell, Body(p, k.rule), <<>>)
             IN  IF o.ok THEN Ok(RoundedTo(p, k, o.val)) ELSE o
  BY ReferenceAssumption DEF ExplainsOn
<1>2. ASSUME RefusalOf(p, k) = "none", NEW v, Rest(p, cell, Body(p, k.rule), <<>>) = Ok(v)
      PROVE  Meaning(p, cell, k) = Ok(RoundedTo(p, k, v))
  BY <1>1, <1>2, OkFacts
<1>3. ASSUME RefusalOf(p, k) = "none", NEW x, Rest(p, cell, Body(p, k.rule), <<>>) = Err(x)
      PROVE  Meaning(p, cell, k) = Err(x)
  BY <1>1, <1>3, OkFacts
<1> QED BY <1>1, <1>2, <1>3

LEMMA BodyFacts ==
    ASSUME NEW p \in Programs, NEW k \in Keys
    PROVE  /\ Body(p, k.rule) \in Exprs
           /\ RefusalOf(p, k) = "none" /\ k.kind = "judgment" => Judges(Body(p, k.rule))
           /\ RefusalOf(p, k) # "none" => RefusalOf(p, k) \in ErrorNames
BY BulkAssumption DEF WellTyped, Keys, RefusalOf, ErrorNames, Statuses

(* Judgments are values, and rounding keeps a value one of its kind.       *)
LEMMA ValuesFacts ==
    /\ Holds \in Values /\ NotHolds \in Values /\ Holds # NotHolds
    /\ Values \subseteq Int /\ 0 \in Values
    /\ \A b : Truth(b) \in {Holds, NotHolds}
    /\ \A e : ValuesOf(e) \subseteq Values
    /\ \A k : KindValues(k) \subseteq Values
BY MaxDecimalAssumption DEF Values, Holds, NotHolds, Truth, ValuesOf, KindValues

LEMMA RoundedFacts ==
    ASSUME NEW p \in Programs, NEW k \in Keys, RefusalOf(p, k) = "none",
           NEW v \in ValuesOf(Body(p, k.rule))
    PROVE  RoundedTo(p, k, v) \in KindValues(k)
<1>1. CASE k.kind = "judgment"
  <2>1. Judges(Body(p, k.rule))
    BY <1>1, BodyFacts
  <2> QED BY <2>1, <1>1 DEF RoundedTo, KindValues, ValuesOf
<1>2. CASE k.kind # "judgment"
  <2>1. v \in Values
    BY ValuesFacts
  <2> QED BY <2>1, <1>2, MaxDecimalAssumption DEF RoundedTo, KindValues, Values
<1> QED BY <1>1, <1>2

-----------------------------------------------------------------------------
(* One row of a node. Where the accumulated value stands for operand       *)
(* values, the next operand's value brings the row one step on.            *)
Advanced(p, cell, e, n, a) ==
    IF n < Len(e.args) THEN Standing(p, cell, e, n, a) ELSE Decided(p, cell, e, a)

Delivered(p, cell, e, n, a, vals, v) ==
    /\ vals \in Partial(e) /\ Wants(e, vals) /\ Holding(e, n, a, vals)
    /\ v \in Values
    /\ OnCourse(p, cell, e, Append(vals, v))

(* The operand values once it is taken, and what follows of the node.      *)
Extended(p, cell, e, vals, v, w) ==
    /\ w \in Partial(e) /\ vals \in Seq(Values) /\ v \in Values
    /\ Len(vals) \in Nat /\ Len(w) = Len(vals) + 1
    /\ \A i \in 1..Len(vals) : w[i] = vals[i] /\ vals[i] \in Values
    /\ w[Len(vals) + 1] = v
    /\ \A m, b : Wants(e, w) /\ Holding(e, m, b, w) => Standing(p, cell, e, m, b)
    /\ ~Wants(e, w) => Rest(p, cell, e, <<>>) = Finish(e, w)

LEMMA DeliveredFacts ==
    ASSUME NEW p \in Programs, NEW cell \in Cells, NEW e \in Exprs, NEW n, NEW a,
           NEW vals, NEW v, Delivered(p, cell, e, n, a, vals, v), NEW w, w = Append(vals, v)
    PROVE  Extended(p, cell, e, vals, v, w)
<1>1. vals \in Partial(e) /\ Wants(e, vals) /\ v \in Values
  BY DEF Delivered
<1>2. /\ vals \in Seq(Values) /\ Len(vals) \in Nat /\ Len(vals) < Arity(e)
      /\ \A i \in 1..Len(vals) : vals[i] \in Values
      /\ e.op \notin {"unsupported", "input", "derived"}
  BY <1>1, PartialFacts, WantsFacts
<1>3. /\ w \in Partial(e) /\ Len(w) = Len(vals) + 1
      /\ \A i \in 1..Len(vals) : w[i] = vals[i]
      /\ w[Len(vals) + 1] = v
  BY <1>1, <1>2, AppendPartial
<1>4. OnCourse(p, cell, e, w)
  BY DEF Delivered
<1>5. \A m, b : Wants(e, w) /\ Holding(e, m, b, w) => Standing(p, cell, e, m, b)
  BY <1>3, <1>4 DEF Standing
<1>6. ~Wants(e, w) => Rest(p, cell, e, <<>>) = Finish(e, w)
  BY <1>2, <1>3, <1>4, RestFinish DEF OnCourse
<1> QED BY <1>1, <1>2, <1>3, <1>5, <1>6 DEF Extended

LEMMA AddTakes ==
    ASSUME NEW p \in Programs, NEW cell \in Cells, NEW e \in Exprs, NEW n \in Nat, NEW a,
           NEW vals, NEW v, Delivered(p, cell, e, n, a, vals, v), e.op = "add"
    PROVE  IF a + v \in Values THEN Advanced(p, cell, e, n + 1, a + v)
           ELSE Rest(p, cell, e, <<>>) = Err("overflow")
<1>1. PICK w : w = Append(vals, v)
  OBVIOUS
<1>2. /\ Len(w) = Len(vals) + 1 /\ Len(vals) \in Nat /\ vals \in Seq(Values) /\ v \in Values
      /\ \A m, b : Wants(e, w) /\ Holding(e, m, b, w) => Standing(p, cell, e, m, b)
      /\ ~Wants(e, w) => Rest(p, cell, e, <<>>) = Finish(e, w)
  <2>1. Extended(p, cell, e, vals, v, w)
    BY <1>1, DeliveredFacts, Zenon
  <2> QED BY <2>1 DEF Extended
<1>3. Len(vals) = n /\ Total(vals) = a
  BY DEF Delivered, Holding
<1>4. Len(w) = n + 1 /\ Total(w) = a + v
  BY <1>1, <1>2, <1>3, TotalFacts
<1>5. Holding(e, n + 1, a + v, w)
  BY <1>4 DEF Holding
<1>6. Wants(e, w) <=> n + 1 < Len(e.args) /\ a + v \in Values
  BY <1>4 DEF Wants
<1>7. Finish(e, w) = IF a + v \in Values THEN Ok(a + v) ELSE Err("overflow")
  BY <1>4 DEF Finish, Checked
<1>8. ValuesOf(e) = Values
  BY DEF ValuesOf, Judges
<1> QED BY <1>2, <1>5, <1>6, <1>7, <1>8 DEF Advanced, Decided

LEMMA DivTakes ==
    ASSUME NEW p \in Programs, NEW cell \in Cells, NEW e \in Exprs, NEW n \in Nat, NEW a,
           NEW vals, NEW v, Delivered(p, cell, e, n, a, vals, v), e.op = "div",
           n < Len(e.args)
    PROVE  /\ n = 0 => IF v = 0 THEN Rest(p, cell, e, <<>>) = Err("division_by_zero")
                       ELSE Advanced(p, cell, e, n + 1, v)
           /\ n # 0 => Advanced(p, cell, e, n + 1, v \div a)
<1>1. PICK w : w = Append(vals, v)
  OBVIOUS
<1>2. /\ Len(w) = Len(vals) + 1 /\ Len(vals) \in Nat /\ vals \in Seq(Values) /\ v \in Values
      /\ \A i \in 1..Len(vals) : w[i] = vals[i] /\ vals[i] \in Values
      /\ w[Len(vals) + 1] = v
      /\ \A m, b : Wants(e, w) /\ Holding(e, m, b, w) => Standing(p, cell, e, m, b)
      /\ ~Wants(e, w) => Rest(p, cell, e, <<>>) = Finish(e, w)
  <2>1. Extended(p, cell, e, vals, v, w)
    BY <1>1, DeliveredFacts, Zenon
  <2> QED BY <2>1 DEF Extended
<1>3. Len(vals) = n /\ (n = 1 => vals[1] = a) /\ Len(e.args) = 2 /\ n \in {0, 1}
  <2>1. Len(e.args) = 2
    BY NodeFacts
  <2> QED BY <2>1 DEF Delivered, Holding
<1>4. ValuesOf(e) = Values
  BY DEF ValuesOf, Judges
<1>5. CASE n = 0
  <2>1. Len(w) = 1 /\ w[1] = v
    BY <1>2, <1>3, <1>5
  <2>2. Wants(e, w) <=> v # 0
    BY <2>1 DEF Wants
  <2>3. Holding(e, 1, v, w)
    BY <2>1 DEF Holding
  <2>4. v = 0 => Finish(e, w) = Err("division_by_zero")
    BY <2>1 DEF Finish
  <2> QED BY <1>2, <1>3, <1>5, <2>2, <2>3, <2>4 DEF Advanced
<1>6. CASE n = 1
  <2>1. Len(w) = 2 /\ w[1] = a /\ w[2] = v /\ a \in Values
    BY <1>2, <1>3, <1>6
  <2>2. a # 0
    BY <1>3, <1>6 DEF Delivered, Wants
  <2>3. ~Wants(e, w)
    BY <2>1 DEF Wants
  <2>4. v \div a \in Values
    <3>1. MaxDecimal \in Nat /\ a \in Nat /\ a > 0 /\ v \in Nat /\ v <= MaxDecimal
      BY <2>1, <2>2, <1>2, MaxDecimalAssumption DEF Values
    <3>2. v \div a \in 0..MaxDecimal
      BY <3>1
    <3> QED BY <3>2 DEF Values
  <2>5. Finish(e, w) = Ok(v \div a)
    <3>1. Finish(e, w) = Checked(w[2] \div w[1])
      BY <2>1, <2>2 DEF Finish
    <3> QED BY <3>1, <2>1, <2>4 DEF Checked
  <2> QED BY <1>2, <1>3, <1>4, <1>6, <2>3, <2>4, <2>5 DEF Advanced, Decided
<1> QED BY <1>3, <1>5, <1>6

LEMMA MaxTakes ==
    ASSUME NEW p \in Programs, NEW cell \in Cells, NEW e \in Exprs, NEW n \in Nat, NEW a \in Int,
           NEW vals, NEW v, Delivered(p, cell, e, n, a, vals, v), e.op = "max"
    PROVE  Advanced(p, cell, e, n + 1, IF n = 0 \/ v > a THEN v ELSE a)
<1>1. PICK w : w = Append(vals, v)
  OBVIOUS
<1>2. /\ Len(w) = Len(vals) + 1 /\ Len(vals) \in Nat /\ vals \in Seq(Values) /\ v \in Values
      /\ \A i \in 1..Len(vals) : w[i] = vals[i] /\ vals[i] \in Values
      /\ w[Len(vals) + 1] = v
      /\ \A m, b : Wants(e, w) /\ Holding(e, m, b, w) => Standing(p, cell, e, m, b)
      /\ ~Wants(e, w) => Rest(p, cell, e, <<>>) = Finish(e, w)
  <2>1. Extended(p, cell, e, vals, v, w)
    BY <1>1, DeliveredFacts, Zenon
  <2> QED BY <2>1 DEF Extended
<1>3. Len(vals) = n /\ (n > 0 => IsLargest(a, vals))
  BY DEF Delivered, Holding
<1>4. PICK b : b = IF n = 0 \/ v > a THEN v ELSE a
  OBVIOUS
<1>5. v \in Int /\ \A i \in 1..n : vals[i] \in Int
  BY <1>2, <1>3, ValuesFacts
<1>6. /\ Len(w) = n + 1 /\ w[n + 1] = v
      /\ \A i \in 1..n : w[i] = vals[i]
  BY <1>2, <1>3
<1>7. IsLargest(b, w) /\ b \in Values
  <2>1. CASE n = 0
    <3>1. b = v /\ Len(w) = 1 /\ w[1] = v
      BY <1>4, <1>6, <2>1
    <3> QED BY <3>1, <1>2, <1>5 DEF IsLargest
  <2>2. CASE n # 0
    <3>1. PICK i \in 1..n : vals[i] = a
      BY <2>2, <1>3 DEF IsLargest
    <3>2. \A j \in 1..n : vals[j] <= a
      BY <2>2, <1>3 DEF IsLargest
    <3>3. a \in Values /\ i \in 1..(n + 1) /\ n + 1 \in 1..(n + 1)
      BY <3>1, <1>2, <1>3
    <3>4. w[i] = a /\ w[n + 1] = v
      BY <3>1, <1>6
    <3>5. b \in {a, v} /\ a <= b /\ v <= b /\ b \in Int
      BY <1>4, <1>5, <2>2
    <3>6. \A j \in 1..(n + 1) : w[j] <= b
      <4> TAKE j \in 1..(n + 1)
      <4>1. CASE j = n + 1
        BY <4>1, <3>4, <3>5
      <4>2. CASE j # n + 1
        <5>1. j \in 1..n
          BY <4>2
        <5>2. w[j] = vals[j] /\ vals[j] <= a /\ vals[j] \in Int
          BY <5>1, <1>5, <1>6, <3>2
        <5> QED BY <5>2, <3>5
      <4> QED BY <4>1, <4>2
    <3>7. \E j \in 1..(n + 1) : w[j] = b
      BY <3>3, <3>4, <3>5
    <3> QED BY <3>3, <3>5, <3>6, <3>7, <1>2, <1>6 DEF IsLargest
  <2> QED BY <2>1, <2>2
<1>8. Holding(e, n + 1, b, w)
  BY <1>6, <1>7 DEF Holding
<1>9. Wants(e, w) <=> n + 1 < Len(e.args)
  BY <1>6 DEF Wants
<1>10. Finish(e, w) = Ok(b)
  <2>1. \A m \in Values : IsLargest(m, w) => m = b
    <3> TAKE m \in Values
    <3> HAVE IsLargest(m, w)
    <3>1. PICK i \in 1..Len(w) : w[i] = m
      BY DEF IsLargest
    <3>2. PICK j \in 1..Len(w) : w[j] = b
      BY <1>7 DEF IsLargest
    <3>3. m <= b /\ b <= m
      BY <3>1, <3>2, <1>7 DEF IsLargest
    <3> QED BY <3>3, <1>7, ValuesFacts
  <2>2. (CHOOSE m \in Values : IsLargest(m, w)) = b
    BY <2>1, <1>7
  <2> QED BY <2>2, <1>7 DEF Finish
<1>11. ValuesOf(e) = Values
  BY DEF ValuesOf, Judges
<1>12. Advanced(p, cell, e, n + 1, b)
  BY <1>2, <1>7, <1>8, <1>9, <1>10, <1>11 DEF Advanced, Decided
<1> QED BY <1>4, <1>12

LEMMA CompareTakes ==
    ASSUME NEW p \in Programs, NEW cell \in Cells, NEW e \in Exprs, NEW n \in Nat, NEW a,
           NEW vals, NEW v, Delivered(p, cell, e, n, a, vals, v), e.op = "compare",
           n < Len(e.args)
    PROVE  /\ n = 0 => Advanced(p, cell, e, n + 1, v)
           /\ n # 0 => Advanced(p, cell, e, n + 1, Truth(a >= v))
<1>1. PICK w : w = Append(vals, v)
  OBVIOUS
<1>2. /\ Len(w) = Len(vals) + 1 /\ Len(vals) \in Nat /\ vals \in Seq(Values) /\ v \in Values
      /\ \A i \in 1..Len(vals) : w[i] = vals[i] /\ vals[i] \in Values
      /\ w[Len(vals) + 1] = v
      /\ \A m, b : Wants(e, w) /\ Holding(e, m, b, w) => Standing(p, cell, e, m, b)
      /\ ~Wants(e, w) => Rest(p, cell, e, <<>>) = Finish(e, w)
  <2>1. Extended(p, cell, e, vals, v, w)
    BY <1>1, DeliveredFacts, Zenon
  <2> QED BY <2>1 DEF Extended
<1>3. Len(vals) = n /\ (n = 1 => vals[1] = a) /\ Len(e.args) = 2 /\ n \in {0, 1}
  <2>1. Len(e.args) = 2
    BY NodeFacts
  <2> QED BY <2>1 DEF Delivered, Holding
<1>4. ValuesOf(e) = {Holds, NotHolds}
  BY DEF ValuesOf, Judges
<1>5. CASE n = 0
  <2>1. Len(w) = 1 /\ w[1] = v
    BY <1>2, <1>3, <1>5
  <2>2. Wants(e, w)
    BY <2>1, <1>3 DEF Wants
  <2>3. Holding(e, 1, v, w)
    BY <2>1 DEF Holding
  <2> QED BY <1>2, <1>3, <1>5, <2>2, <2>3 DEF Advanced
<1>6. CASE n = 1
  <2>1. Len(w) = 2 /\ w[1] = a /\ w[2] = v
    BY <1>2, <1>3, <1>6
  <2>2. ~Wants(e, w)
    BY <2>1, <1>3 DEF Wants
  <2>3. Finish(e, w) = Ok(Truth(a >= v))
    BY <2>1 DEF Finish
  <2>4. Truth(a >= v) \in ValuesOf(e)
    BY <1>4 DEF Truth
  <2> QED BY <1>2, <1>3, <1>6, <2>2, <2>3, <2>4 DEF Advanced, Decided
<1> QED BY <1>3, <1>5, <1>6

LEMMA IfTakes ==
    ASSUME NEW p \in Programs, NEW cell \in Cells, NEW e \in Exprs, NEW n \in Nat, NEW a,
           NEW vals, NEW v, Delivered(p, cell, e, n, a, vals, v), e.op = "if",
           n < Len(e.args)
    PROVE  /\ n = 0 => Standing(p, cell, e, 1, v)
           /\ n # 0 => Decided(p, cell, e, v)
<1>1. PICK w : w = Append(vals, v)
  OBVIOUS
<1>2. /\ Len(w) = Len(vals) + 1 /\ Len(vals) \in Nat /\ vals \in Seq(Values) /\ v \in Values
      /\ \A i \in 1..Len(vals) : w[i] = vals[i] /\ vals[i] \in Values
      /\ w[Len(vals) + 1] = v
      /\ \A m, b : Wants(e, w) /\ Holding(e, m, b, w) => Standing(p, cell, e, m, b)
      /\ ~Wants(e, w) => Rest(p, cell, e, <<>>) = Finish(e, w)
  <2>1. Extended(p, cell, e, vals, v, w)
    BY <1>1, DeliveredFacts, Zenon
  <2> QED BY <2>1 DEF Extended
<1>3. \/ n = 0 /\ vals = <<>>
      \/ n \in {1, 2} /\ Len(vals) = 1
  BY DEF Delivered, Holding
<1>4. CASE n = 0
  <2>1. Len(w) = 1 /\ w[1] = v
    BY <1>2, <1>3, <1>4
  <2>2. Wants(e, w)
    BY <2>1 DEF Wants
  <2>3. Holding(e, 1, v, w)
    BY <2>1 DEF Holding
  <2> QED BY <1>2, <1>4, <2>2, <2>3
<1>5. CASE n # 0
  <2>0. Len(vals) = 1
    BY <1>3, <1>5
  <2>1. Len(w) = 2 /\ w[2] = v
    BY <1>2, <2>0
  <2>2. ~Wants(e, w)
    BY <2>1 DEF Wants
  <2>3. Finish(e, w) = Ok(v)
    BY <2>1 DEF Finish
  <2>4. v \in ValuesOf(e)
    BY <1>2 DEF ValuesOf, Judges
  <2> QED BY <1>2, <1>5, <2>2, <2>3, <2>4 DEF Decided
<1> QED BY <1>4, <1>5

(* The rows a conditional has not selected stand for its third operand.    *)
LEMMA IfPasses ==
    ASSUME NEW p, NEW cell, NEW e, NEW a, NEW b, e.op = "if",
           Standing(p, cell, e, 1, a), a # Holds
    PROVE  Standing(p, cell, e, 2, b)
<1>1. PICK vals \in Partial(e) :
        Wants(e, vals) /\ OnCourse(p, cell, e, vals) /\ Holding(e, 1, a, vals)
  BY DEF Standing
<1>2. Holding(e, 2, b, vals)
  BY <1>1 DEF Holding
<1> QED BY <1>1, <1>2 DEF Standing

LEMMA AndTakes ==
    ASSUME NEW p \in Programs, NEW cell \in Cells, NEW e \in Exprs, NEW n \in Nat, NEW a,
           NEW vals, NEW v \in {Holds, NotHolds},
           Delivered(p, cell, e, n, a, vals, v), e.op = "and"
    PROVE  /\ a = Holds
           /\ v = NotHolds => Decided(p, cell, e, NotHolds)
           /\ v = Holds => Advanced(p, cell, e, n + 1, Holds)
<1>1. PICK w : w = Append(vals, v)
  OBVIOUS
<1>2. /\ Len(w) = Len(vals) + 1 /\ Len(vals) \in Nat /\ vals \in Seq(Values)
      /\ \A i \in 1..Len(vals) : w[i] = vals[i] /\ vals[i] \in Values
      /\ w[Len(vals) + 1] = v
      /\ \A m, b : Wants(e, w) /\ Holding(e, m, b, w) => Standing(p, cell, e, m, b)
      /\ ~Wants(e, w) => Rest(p, cell, e, <<>>) = Finish(e, w)
  <2>1. Extended(p, cell, e, vals, v, w)
    BY <1>1, DeliveredFacts, Zenon
  <2> QED BY <2>1 DEF Extended
<1>3. Len(vals) = n /\ a = Holds /\ \A i \in 1..Len(vals) : vals[i] = Holds
  BY DEF Delivered, Holding, Wants
<1>4. /\ Len(w) = n + 1 /\ w[n + 1] = v
      /\ \A i \in 1..n : w[i] = Holds
  BY <1>2, <1>3
<1>5. (\A i \in 1..(n + 1) : w[i] = Holds) <=> v = Holds
  <2>1. n + 1 \in 1..(n + 1) /\ \A i \in 1..(n + 1) : i = n + 1 \/ i \in 1..n
    OBVIOUS
  <2> QED BY <2>1, <1>4
<1>6. Wants(e, w) <=> n + 1 < Len(e.args) /\ v = Holds
  BY <1>4, <1>5 DEF Wants
<1>7. Finish(e, w) = Ok(Truth(v = Holds))
  BY <1>4, <1>5 DEF Finish
<1>8. Holding(e, n + 1, Holds, w)
  BY <1>4 DEF Holding
<1>9. ValuesOf(e) = {Holds, NotHolds}
  BY DEF ValuesOf, Judges
<1>10. ASSUME v = NotHolds
       PROVE  Decided(p, cell, e, NotHolds)
  BY <1>2, <1>6, <1>7, <1>9, <1>10, ValuesFacts DEF Decided, Truth
<1>11. ASSUME v = Holds
       PROVE  Advanced(p, cell, e, n + 1, Holds)
  BY <1>2, <1>6, <1>7, <1>8, <1>9, <1>11 DEF Decided, Advanced, Truth
<1> QED BY <1>3, <1>10, <1>11

LEMMA OrTakes ==
    ASSUME NEW p \in Programs, NEW cell \in Cells, NEW e \in Exprs, NEW n \in Nat, NEW a,
           NEW vals, NEW v \in {Holds, NotHolds},
           Delivered(p, cell, e, n, a, vals, v), e.op = "or"
    PROVE  /\ a = NotHolds
           /\ v = Holds => Decided(p, cell, e, Holds)
           /\ v = NotHolds => Advanced(p, cell, e, n + 1, NotHolds)
<1>1. PICK w : w = Append(vals, v)
  OBVIOUS
<1>2. /\ Len(w) = Len(vals) + 1 /\ Len(vals) \in Nat /\ vals \in Seq(Values)
      /\ \A i \in 1..Len(vals) : w[i] = vals[i] /\ vals[i] \in Values
      /\ w[Len(vals) + 1] = v
      /\ \A m, b : Wants(e, w) /\ Holding(e, m, b, w) => Standing(p, cell, e, m, b)
      /\ ~Wants(e, w) => Rest(p, cell, e, <<>>) = Finish(e, w)
  <2>1. Extended(p, cell, e, vals, v, w)
    BY <1>1, DeliveredFacts, Zenon
  <2> QED BY <2>1 DEF Extended
<1>3. Len(vals) = n /\ a = NotHolds /\ \A i \in 1..Len(vals) : vals[i] = NotHolds
  BY DEF Delivered, Holding, Wants
<1>4. /\ Len(w) = n + 1 /\ w[n + 1] = v
      /\ \A i \in 1..n : w[i] = NotHolds
  BY <1>2, <1>3
<1>5. /\ (\A i \in 1..(n + 1) : w[i] = NotHolds) <=> v = NotHolds
  <2>1. n + 1 \in 1..(n + 1) /\ \A i \in 1..(n + 1) : i = n + 1 \/ i \in 1..n
    OBVIOUS
  <2> QED BY <2>1, <1>4
<1>6. (\E i \in 1..(n + 1) : w[i] = Holds) <=> v = Holds
  <2>1. n + 1 \in 1..(n + 1) /\ \A i \in 1..(n + 1) : i = n + 1 \/ i \in 1..n
    OBVIOUS
  <2> QED BY <2>1, <1>4, ValuesFacts
<1>7. Wants(e, w) <=> n + 1 < Len(e.args) /\ v = NotHolds
  BY <1>4, <1>5 DEF Wants
<1>8. Finish(e, w) = Ok(Truth(v = Holds))
  BY <1>4, <1>6 DEF Finish
<1>9. Holding(e, n + 1, NotHolds, w)
  BY <1>4 DEF Holding
<1>10. ValuesOf(e) = {Holds, NotHolds}
  BY DEF ValuesOf, Judges
<1>11. ASSUME v = Holds
       PROVE  Decided(p, cell, e, Holds)
  BY <1>2, <1>7, <1>8, <1>10, <1>11, ValuesFacts DEF Decided, Truth
<1>12. ASSUME v = NotHolds
       PROVE  Advanced(p, cell, e, n + 1, NotHolds)
  BY <1>2, <1>7, <1>8, <1>9, <1>10, <1>12, ValuesFacts DEF Decided, Advanced, Truth
<1> QED BY <1>3, <1>11, <1>12

LEMMA NotTakes ==
    ASSUME NEW p \in Programs, NEW cell \in Cells, NEW e \in Exprs, NEW n \in Nat, NEW a,
           NEW vals, NEW v, Delivered(p, cell, e, n, a, vals, v), e.op \in {"not", "no_match"}
    PROVE  /\ n = 0
           /\ e.op = "not" => Advanced(p, cell, e, 1, Truth(v = NotHolds))
           /\ e.op = "no_match" => Rest(p, cell, e, <<>>) = Err("no_matching_arm")
<1>1. PICK w : w = Append(vals, v)
  OBVIOUS
<1>2. /\ Len(w) = Len(vals) + 1 /\ Len(vals) \in Nat
      /\ w[Len(vals) + 1] = v
      /\ ~Wants(e, w) => Rest(p, cell, e, <<>>) = Finish(e, w)
  <2>1. Extended(p, cell, e, vals, v, w)
    BY <1>1, DeliveredFacts, Zenon
  <2> QED BY <2>1 DEF Extended
<1>3. n = 0 /\ Len(vals) = 0 /\ Len(e.args) = 1
  <2>1. n = 0 /\ vals = <<>>
    BY DEF Delivered, Holding
  <2> QED BY <2>1, NodeFacts
<1>4. Len(w) = 1 /\ w[1] = v /\ ~Wants(e, w)
  BY <1>2, <1>3 DEF Wants
<1>5. Truth(v = NotHolds) \in {Holds, NotHolds}
  BY DEF Truth
<1>6. ASSUME e.op = "not"
      PROVE  Advanced(p, cell, e, 1, Truth(v = NotHolds))
  <2>1. Finish(e, w) = Ok(Truth(v = NotHolds))
    BY <1>4, <1>6 DEF Finish
  <2>2. ValuesOf(e) = {Holds, NotHolds}
    BY <1>6 DEF ValuesOf, Judges
  <2> QED BY <2>1, <2>2, <1>2, <1>3, <1>4, <1>5 DEF Advanced, Decided
<1>7. ASSUME e.op = "no_match"
      PROVE  Rest(p, cell, e, <<>>) = Err("no_matching_arm")
  BY <1>2, <1>4, <1>7 DEF Finish
<1> QED BY <1>3, <1>6, <1>7

(* The operand a row's node takes next is the one explain evaluates.       *)
ArgAt(e, n) == e.args[IF e.op = "div" THEN 2 - n ELSE n + 1]

LEMMA NextIsOperand ==
    ASSUME NEW e \in Exprs, NEW n \in Nat, NEW a, NEW vals \in Partial(e), n < Len(e.args),
           e.op = "if" /\ n = 1 => a = Holds, Wants(e, vals), Holding(e, n, a, vals)
    PROVE  /\ Operand(e, vals) = ArgAt(e, n)
           /\ ArgAt(e, n) \in Exprs
           /\ e.op \in {"and", "or"} => Judges(ArgAt(e, n))
<1>2. Len(vals) \in Nat /\ Position(e, vals) \in 1..Len(e.args)
  BY PartialFacts, WantsFacts
<1>3. Position(e, vals) = IF e.op = "div" THEN 2 - n ELSE n + 1
  <2>1. CASE e.op = "div"
    <3>1. Len(vals) = n /\ n \in {0, 1}
      BY <2>1, NodeFacts DEF Holding
    <3> QED BY <2>1, <3>1 DEF Position
  <2>2. CASE e.op = "if"
    <3>1. n = 0 /\ vals = <<>> => Position(e, vals) = 1
      BY <2>2 DEF Position
    <3>2. n = 1 /\ Len(vals) = 1 /\ vals[1] = a => Position(e, vals) = 2
      BY <2>2 DEF Position
    <3>3. n = 2 /\ Len(vals) = 1 /\ vals[1] # Holds => Position(e, vals) = 3
      BY <2>2 DEF Position
    <3> QED BY <2>2, <3>1, <3>2, <3>3 DEF Holding
  <2>3. CASE e.op \notin {"div", "if"}
    <3>1. Len(vals) = n
      BY <2>3 DEF Holding
    <3> QED BY <2>3, <3>1 DEF Position
  <2> QED BY <2>1, <2>2, <2>3
<1>4. Operand(e, vals) = ArgAt(e, n)
  BY <1>3 DEF Operand, ArgAt
<1>5. ArgAt(e, n) \in Exprs /\ (e.op \in {"and", "or"} => Judges(ArgAt(e, n)))
  BY <1>2, <1>3, NodeFacts DEF ArgAt
<1> QED BY <1>4, <1>5

LEMMA RowOperand ==
    ASSUME NEW p \in Programs, NEW cell \in Cells, NEW e \in Exprs, NEW n \in Nat, NEW a,
           n < Len(e.args), Standing(p, cell, e, n, a), e.op = "if" /\ n = 1 => a = Holds
    PROVE  /\ ArgAt(e, n) \in Exprs
           /\ e.op \in {"and", "or"} => Judges(ArgAt(e, n))
           /\ \A x : Rest(p, cell, ArgAt(e, n), <<>>) = Err(x)
                        => Rest(p, cell, e, <<>>) = Err(x)
           /\ \A v \in Values : Rest(p, cell, ArgAt(e, n), <<>>) = Ok(v)
                        => \E vals : Delivered(p, cell, e, n, a, vals, v)
<1>1. PICK vals \in Partial(e) :
        Wants(e, vals) /\ OnCourse(p, cell, e, vals) /\ Holding(e, n, a, vals)
  BY DEF Standing
<1>4. Operand(e, vals) = ArgAt(e, n)
  BY <1>1, NextIsOperand
<1>5. ArgAt(e, n) \in Exprs /\ (e.op \in {"and", "or"} => Judges(ArgAt(e, n)))
  BY <1>1, NextIsOperand
<1>6. /\ \A v \in Values : Rest(p, cell, ArgAt(e, n), <<>>) = Ok(v)
                     => OnCourse(p, cell, e, Append(vals, v))
      /\ \A x : Rest(p, cell, ArgAt(e, n), <<>>) = Err(x)
                     => Rest(p, cell, e, <<>>) = Err(x)
  BY <1>1, <1>4, RestWants, CourseGoesOn DEF OnCourse
<1>7. ASSUME NEW v \in Values, Rest(p, cell, ArgAt(e, n), <<>>) = Ok(v)
      PROVE  Delivered(p, cell, e, n, a, vals, v)
  BY <1>1, <1>6, <1>7 DEF Delivered
<1> QED BY <1>5, <1>6, <1>7

(* A node starts with the value of no operands at all.                     *)
StartValue(e) == IF e.op = "and" THEN Holds ELSE NotHolds

LEMMA RowStarts ==
    ASSUME NEW p \in Programs, NEW cell \in Cells, NEW e \in Exprs
    PROVE  /\ 0 < Len(e.args) => Standing(p, cell, e, 0, StartValue(e))
           /\ ~(0 < Len(e.args)) /\ Accumulates(e, 0) => Decided(p, cell, e, StartValue(e))
<1>1. <<>> \in Partial(e) /\ Len(<<>>) = 0 /\ <<>> \in Seq(Values)
  BY EmptyPartial
<1>2. Total(<<>>) = 0 /\ 0 \in Values
  BY <1>1, TotalFacts, ValuesFacts
<1>3. Len(e.args) \in Nat
  BY NodeFacts
<1>4. ASSUME 0 < Len(e.args)
      PROVE  Standing(p, cell, e, 0, StartValue(e))
  <2>1. e.op \notin {"literal", "input", "unsupported", "derived"}
    BY <1>3, <1>4, NodeFacts
  <2>2. Wants(e, <<>>)
    BY <1>1, <1>2, <1>4, <2>1, NodeFacts DEF Wants
  <2>3. Holding(e, 0, StartValue(e), <<>>)
    BY <1>1, <1>2 DEF Holding, StartValue, NotHolds
  <2>4. OnCourse(p, cell, e, <<>>)
    BY <1>1, CourseStarts
  <2> QED BY <1>1, <2>2, <2>3, <2>4 DEF Standing
<1>5. ASSUME ~(0 < Len(e.args)), Accumulates(e, 0)
      PROVE  Decided(p, cell, e, StartValue(e))
  <2>1. Len(e.args) = 0
    BY <1>3, <1>5
  <2>2. e.op \in {"add", "and", "or"}
    <3>1. e.op \notin {"literal", "input", "unsupported", "derived", "max"}
      BY <1>5 DEF Accumulates
    <3>2. e.op \notin {"no_match", "not", "div", "compare", "if"}
      <4>1. Len(e.args) # 1 /\ Len(e.args) # 2 /\ Len(e.args) # 3
        BY <2>1
      <4> QED BY <4>1, NodeFacts, Zenon
    <3> QED BY <3>1, <3>2, NodeFacts
  <2>3. ~Wants(e, <<>>)
    BY <2>1, <2>2 DEF Wants
  <2>4. Rest(p, cell, e, <<>>) = Finish(e, <<>>)
    BY <1>1, <2>2, <2>3, RestFinish
  <2>5. CASE e.op = "add"
    <3>1. Finish(e, <<>>) = Ok(0)
      BY <2>5, <1>2 DEF Finish, Checked
    <3> QED BY <3>1, <2>4, <2>5, <1>2 DEF Decided, StartValue, NotHolds, ValuesOf, Judges
  <2>6. CASE e.op = "and"
    <3>1. \A i \in 1..Len(<<>>) : <<>>[i] = Holds
      OBVIOUS
    <3>2. Finish(e, <<>>) = Ok(Holds)
      BY <2>6, <3>1 DEF Finish, Truth
    <3> QED BY <3>2, <2>4, <2>6 DEF Decided, StartValue, ValuesOf, Judges
  <2>7. CASE e.op = "or"
    <3>1. ~\E i \in 1..Len(<<>>) : <<>>[i] = Holds
      OBVIOUS
    <3>2. Finish(e, <<>>) = Ok(NotHolds)
      BY <2>7, <3>1 DEF Finish, Truth
    <3> QED BY <3>2, <2>4, <2>7 DEF Decided, StartValue, ValuesOf, Judges
  <2> QED BY <2>2, <2>5, <2>6, <2>7
<1> QED BY <1>4, <1>5

-----------------------------------------------------------------------------
(* Errors of rows.                                                         *)
LEMMA AbsorbFacts ==
    ASSUME NEW a \in ErrorsType, NEW b \in ErrorsType
    PROVE  /\ Absorb(a, b) \in ErrorsType
           /\ DOMAIN Absorb(a, b) = DOMAIN a \cup DOMAIN b
           /\ \A r \in DOMAIN a : Absorb(a, b)[r] = a[r]
           /\ \A r \in DOMAIN b \ DOMAIN a : Absorb(a, b)[r] = b[r]
<1>1. /\ DOMAIN a \in SUBSET Rows /\ \A r \in DOMAIN a : a[r] \in ErrorNames
      /\ DOMAIN b \in SUBSET Rows /\ \A r \in DOMAIN b : b[r] \in ErrorNames
  BY DEF ErrorsType
<1>2. /\ DOMAIN Absorb(a, b) = DOMAIN a \cup DOMAIN b
      /\ \A r \in DOMAIN a : Absorb(a, b)[r] = a[r]
      /\ \A r \in DOMAIN b \ DOMAIN a : Absorb(a, b)[r] = b[r]
  BY DEF Absorb
<1>3. Absorb(a, b) \in [DOMAIN a \cup DOMAIN b -> ErrorNames]
  BY <1>1 DEF Absorb
<1>4. DOMAIN a \cup DOMAIN b \in SUBSET Rows
  BY <1>1
<1>5. Absorb(a, b) \in ErrorsType
  BY <1>3, <1>4 DEF ErrorsType
<1> QED BY <1>2, <1>5

LEMMA FailFacts ==
    ASSUME NEW rows \in SUBSET Rows, NEW x \in ErrorNames
    PROVE  /\ Fail(rows, x) \in ErrorsType
           /\ DOMAIN Fail(rows, x) = rows
           /\ \A r \in rows : Fail(rows, x)[r] = x
<1>1. Fail(rows, x) \in [rows -> ErrorNames]
  BY DEF Fail
<1>2. Fail(rows, x) \in ErrorsType
  BY <1>1 DEF ErrorsType
<1> QED BY <1>2 DEF Fail

LEMMA NoErrorsFacts == NoErrors \in ErrorsType /\ DOMAIN NoErrors = {}
<1>1. DOMAIN NoErrors = {} /\ NoErrors \in [{} -> ErrorNames]
  BY DEF NoErrors
<1> QED BY <1>1 DEF ErrorsType

LEMMA RestrictedFacts ==
    ASSUME NEW a \in ErrorsType, NEW mask
    PROVE  /\ RestrictedTo(a, mask) \in ErrorsType
           /\ DOMAIN RestrictedTo(a, mask) = DOMAIN a \cap mask
           /\ \A r \in DOMAIN a \cap mask : RestrictedTo(a, mask)[r] = a[r]
<1>1. DOMAIN a \in SUBSET Rows /\ \A r \in DOMAIN a : a[r] \in ErrorNames
  BY DEF ErrorsType
<1>2. RestrictedTo(a, mask) \in [DOMAIN a \cap mask -> ErrorNames]
  BY <1>1 DEF RestrictedTo
<1>3. DOMAIN a \cap mask \in SUBSET Rows
  BY <1>1
<1>4. RestrictedTo(a, mask) \in ErrorsType
  BY <1>2, <1>3 DEF ErrorsType
<1> QED BY <1>4 DEF RestrictedTo

-----------------------------------------------------------------------------
(* One row of a node that takes an operand's column: of the rows the       *)
(* operand was evaluated for those in `alive` have a value.                *)
RowInput(p, cell, f, r, col, alive) ==
    /\ f \in FrameType /\ r \in Rows /\ col \in [Rows -> Int]
    /\ f.n < Len(f.expr.args)
    /\ alive \subseteq OperandRows(f)
    /\ r \in f.live => Standing(p, cell, f.expr, f.n, f.acc[r])
    /\ r \in alive =>
           /\ \E vals : Delivered(p, cell, f.expr, f.n, f.acc[r], vals, col[r])
           /\ f.expr.op \in {"and", "or"} => col[r] \in {Holds, NotHolds}

TakesRow(p, cell, f, r, alive, acc, own, live) ==
    /\ acc[r] \in Int
    /\ r \in DOMAIN own => r \in alive /\ Rest(p, cell, f.expr, <<>>) = Err(own[r])
    /\ r \in live => r \in f.live /\ r \notin DOMAIN own /\ (r \in OperandRows(f) => r \in alive)
    /\ r \in alive \ DOMAIN own =>
           /\ r \notin live => MayDecide(f.expr, f.n + 1)
           /\ IF f.n + 1 < Len(f.expr.args) /\ r \in live
              THEN Standing(p, cell, f.expr, f.n + 1, acc[r])
              ELSE Decided(p, cell, f.expr, acc[r])
    /\ r \in f.live \ OperandRows(f) =>
           /\ r \in live /\ f.n + 1 < Len(f.expr.args)
           /\ Standing(p, cell, f.expr, f.n + 1, acc[r])
    /\ MayDecide(f.expr, f.n) /\ r \notin f.live => acc[r] = f.acc[r]

LEMMA FrameFacts ==
    ASSUME NEW f \in FrameType
    PROVE  /\ f.key \in Keys /\ f.expr \in Exprs /\ f.n \in Nat
           /\ f.mask \in SUBSET Rows /\ f.live \in SUBSET Rows
           /\ f.acc \in [Rows -> Int] /\ f.errors \in ErrorsType /\ f.body \in BOOLEAN
BY DEF FrameType

LEMMA RowAdds ==
    ASSUME NEW p \in Programs, NEW cell \in Cells, NEW f, NEW r, NEW col, NEW alive,
           RowInput(p, cell, f, r, col, alive), f.expr.op = "add",
           NEW acc, acc = Combined(f, col, alive),
           NEW own, own = FailsHere(f, acc, alive),
           NEW live, live = StillLive(f, acc, alive \ DOMAIN own)
    PROVE  TakesRow(p, cell, f, r, alive, acc, own, live)
<1>1. f \in FrameType /\ r \in Rows /\ col \in [Rows -> Int]
  BY DEF RowInput
<1>2. f.expr \in Exprs /\ f.n \in Nat /\ f.acc[r] \in Int /\ col[r] \in Int
  BY <1>1, FrameFacts
<1>3. OperandRows(f) = f.live /\ alive \subseteq f.live
  BY DEF OperandRows, RowInput
<1>4. acc[r] = IF r \in alive THEN f.acc[r] + col[r] ELSE f.acc[r]
  BY <1>1 DEF Combined
<1>5. own = Fail({s \in alive : acc[s] \notin Values}, "overflow")
  BY DEF FailsHere
<1>6. /\ \A s : s \in DOMAIN own <=> s \in alive /\ acc[s] \notin Values
      /\ \A s \in DOMAIN own : own[s] = "overflow"
  BY <1>5 DEF Fail
<1>7. live = alive \ DOMAIN own
  BY DEF StillLive
<1>8. ASSUME r \in alive
      PROVE  IF acc[r] \in Values THEN Advanced(p, cell, f.expr, f.n + 1, acc[r])
             ELSE Rest(p, cell, f.expr, <<>>) = Err("overflow")
  <2>1. PICK vals : Delivered(p, cell, f.expr, f.n, f.acc[r], vals, col[r])
    BY <1>8 DEF RowInput
  <2> QED BY <2>1, <1>2, <1>4, <1>8, AddTakes
<1>9. ~MayDecide(f.expr, f.n)
  BY DEF MayDecide
<1>10. acc[r] \in Int
  BY <1>2, <1>4
<1>11. ASSUME r \in DOMAIN own
       PROVE  r \in alive /\ Rest(p, cell, f.expr, <<>>) = Err(own[r])
  BY <1>6, <1>8, <1>11
<1>12. ASSUME r \in alive, r \notin DOMAIN own
       PROVE  r \in live /\ Advanced(p, cell, f.expr, f.n + 1, acc[r])
  BY <1>6, <1>7, <1>8, <1>12
<1> QED BY <1>3, <1>7, <1>9, <1>10, <1>11, <1>12 DEF TakesRow, Advanced

LEMMA RowDivides ==
    ASSUME NEW p \in Programs, NEW cell \in Cells, NEW f, NEW r, NEW col, NEW alive,
           RowInput(p, cell, f, r, col, alive), f.expr.op = "div",
           NEW acc, acc = Combined(f, col, alive),
           NEW own, own = FailsHere(f, acc, alive),
           NEW live, live = StillLive(f, acc, alive \ DOMAIN own)
    PROVE  TakesRow(p, cell, f, r, alive, acc, own, live)
<1>1. f \in FrameType /\ r \in Rows /\ col \in [Rows -> Int]
  BY DEF RowInput
<1>2. f.expr \in Exprs /\ f.n \in Nat /\ f.acc[r] \in Int /\ col[r] \in Int
  BY <1>1, FrameFacts
<1>3. OperandRows(f) = f.live /\ alive \subseteq f.live /\ f.n < Len(f.expr.args)
  BY DEF OperandRows, RowInput
<1>4. acc[r] = IF f.n = 0 THEN col[r] ELSE IF r \in alive THEN col[r] \div f.acc[r] ELSE 0
  BY <1>1 DEF Combined
<1>5. live = alive \ DOMAIN own /\ ~MayDecide(f.expr, f.n)
  BY DEF StillLive, MayDecide
<1>6. ASSUME r \in alive
      PROVE  /\ f.n = 0 => IF col[r] = 0 THEN Rest(p, cell, f.expr, <<>>) = Err("division_by_zero")
                           ELSE Advanced(p, cell, f.expr, f.n + 1, col[r])
             /\ f.n # 0 => Advanced(p, cell, f.expr, f.n + 1, col[r] \div f.acc[r])
  <2>1. PICK vals : Delivered(p, cell, f.expr, f.n, f.acc[r], vals, col[r])
    BY <1>6 DEF RowInput
  <2> QED BY <2>1, <1>2, <1>3, DivTakes
<1>7. CASE f.n = 0
  <2>1. own = Fail({s \in alive : acc[s] = 0}, "division_by_zero")
    BY <1>7 DEF FailsHere
  <2>2. /\ \A s : s \in DOMAIN own <=> s \in alive /\ acc[s] = 0
        /\ \A s \in DOMAIN own : own[s] = "division_by_zero"
    BY <2>1 DEF Fail
  <2> QED BY <2>2, <1>2, <1>3, <1>4, <1>5, <1>6, <1>7 DEF TakesRow, Advanced
<1>8. CASE f.n # 0
  <2>1. own = NoErrors
    BY <1>8 DEF FailsHere
  <2>2. DOMAIN own = {}
    BY <2>1, NoErrorsFacts
  <2>3. f.n + 1 >= Len(f.expr.args)
    <3>1. Len(f.expr.args) = 2
      BY <1>2, NodeFacts
    <3> QED BY <3>1, <1>2, <1>8
  <2>4. r \in alive => Decided(p, cell, f.expr, acc[r])
    BY <2>3, <1>2, <1>4, <1>6, <1>8, NodeFacts DEF Advanced
  <2>5. acc[r] \in Int
    BY <2>4, <1>4, <1>8, ValuesFacts DEF Decided
  <2> QED BY <2>2, <2>3, <2>4, <2>5, <1>2, <1>3, <1>5, NodeFacts DEF TakesRow
<1> QED BY <1>7, <1>8

LEMMA RowGrows ==
    ASSUME NEW p \in Programs, NEW cell \in Cells, NEW f, NEW r, NEW col, NEW alive,
           RowInput(p, cell, f, r, col, alive), f.expr.op = "max",
           NEW acc, acc = Combined(f, col, alive),
           NEW own, own = FailsHere(f, acc, alive),
           NEW live, live = StillLive(f, acc, alive \ DOMAIN own)
    PROVE  TakesRow(p, cell, f, r, alive, acc, own, live)
<1>1. f \in FrameType /\ r \in Rows /\ col \in [Rows -> Int]
  BY DEF RowInput
<1>2. f.expr \in Exprs /\ f.n \in Nat /\ f.acc[r] \in Int /\ col[r] \in Int
  BY <1>1, FrameFacts
<1>3. OperandRows(f) = f.live /\ alive \subseteq f.live
  BY DEF OperandRows, RowInput
<1>4. acc[r] = IF f.n = 0 \/ (r \in alive /\ col[r] > f.acc[r]) THEN col[r] ELSE f.acc[r]
  BY <1>1 DEF Combined
<1>5. own = NoErrors
  BY DEF FailsHere
<1>6. DOMAIN own = {}
  BY <1>5, NoErrorsFacts
<1>7. live = alive /\ ~MayDecide(f.expr, f.n)
  BY <1>6 DEF StillLive, MayDecide
<1>8. ASSUME r \in alive
      PROVE  Advanced(p, cell, f.expr, f.n + 1, acc[r])
  <2>1. PICK vals : Delivered(p, cell, f.expr, f.n, f.acc[r], vals, col[r])
    BY <1>8 DEF RowInput
  <2>2. acc[r] = IF f.n = 0 \/ col[r] > f.acc[r] THEN col[r] ELSE f.acc[r]
    BY <1>4, <1>8
  <2>3. Advanced(p, cell, f.expr, f.n + 1, IF f.n = 0 \/ col[r] > f.acc[r] THEN col[r] ELSE f.acc[r])
    BY <2>1, <1>2, MaxTakes
  <2> QED BY <2>2, <2>3
<1>9. acc[r] \in Int
  BY <1>2, <1>4
<1> QED BY <1>3, <1>6, <1>7, <1>8, <1>9 DEF TakesRow, Advanced

LEMMA RowCompares ==
    ASSUME NEW p \in Programs, NEW cell \in Cells, NEW f, NEW r, NEW col, NEW alive,
           RowInput(p, cell, f, r, col, alive), f.expr.op = "compare",
           NEW acc, acc = Combined(f, col, alive),
           NEW own, own = FailsHere(f, acc, alive),
           NEW live, live = StillLive(f, acc, alive \ DOMAIN own)
    PROVE  TakesRow(p, cell, f, r, alive, acc, own, live)
<1>1. f \in FrameType /\ r \in Rows /\ col \in [Rows -> Int]
  BY DEF RowInput
<1>2. f.expr \in Exprs /\ f.n \in Nat /\ f.acc[r] \in Int /\ col[r] \in Int
  BY <1>1, FrameFacts
<1>3. OperandRows(f) = f.live /\ alive \subseteq f.live /\ f.n < Len(f.expr.args)
  BY DEF OperandRows, RowInput
<1>4. acc[r] = IF f.n = 0 THEN col[r] ELSE Truth(r \in alive /\ f.acc[r] >= col[r])
  BY <1>1 DEF Combined
<1>5. own = NoErrors
  BY DEF FailsHere
<1>6. DOMAIN own = {}
  BY <1>5, NoErrorsFacts
<1>7. live = alive /\ ~MayDecide(f.expr, f.n)
  BY <1>6 DEF StillLive, MayDecide
<1>8. ASSUME r \in alive
      PROVE  Advanced(p, cell, f.expr, f.n + 1, acc[r])
  <2>1. PICK vals : Delivered(p, cell, f.expr, f.n, f.acc[r], vals, col[r])
    BY <1>8 DEF RowInput
  <2>2. acc[r] = IF f.n = 0 THEN col[r] ELSE Truth(f.acc[r] >= col[r])
    BY <1>4, <1>8 DEF Truth
  <2> QED BY <2>1, <2>2, <1>2, <1>3, CompareTakes
<1>9. acc[r] \in Int
  BY <1>2, <1>4 DEF Truth, Holds, NotHolds
<1> QED BY <1>3, <1>6, <1>7, <1>8, <1>9 DEF TakesRow, Advanced

LEMMA RowNegates ==
    ASSUME NEW p \in Programs, NEW cell \in Cells, NEW f, NEW r, NEW col, NEW alive,
           RowInput(p, cell, f, r, col, alive), f.expr.op \in {"not", "no_match"},
           NEW acc, acc = Combined(f, col, alive),
           NEW own, own = FailsHere(f, acc, alive),
           NEW live, live = StillLive(f, acc, alive \ DOMAIN own)
    PROVE  TakesRow(p, cell, f, r, alive, acc, own, live)
<1>1. f \in FrameType /\ r \in Rows /\ col \in [Rows -> Int]
  BY DEF RowInput
<1>2. f.expr \in Exprs /\ f.n \in Nat /\ f.acc[r] \in Int /\ col[r] \in Int
  BY <1>1, FrameFacts
<1>3. OperandRows(f) = f.live /\ alive \subseteq f.live /\ f.n < Len(f.expr.args)
  BY DEF OperandRows, RowInput
<1>4. live = alive \ DOMAIN own /\ ~MayDecide(f.expr, f.n)
  BY DEF StillLive, MayDecide
<1>5. ASSUME r \in alive
      PROVE  /\ f.n = 0
             /\ f.expr.op = "not" => Advanced(p, cell, f.expr, 1, Truth(col[r] = NotHolds))
             /\ f.expr.op = "no_match" => Rest(p, cell, f.expr, <<>>) = Err("no_matching_arm")
  <2>1. PICK vals : Delivered(p, cell, f.expr, f.n, f.acc[r], vals, col[r])
    BY <1>5 DEF RowInput
  <2> QED BY <2>1, <1>2, NotTakes
<1>6. CASE f.expr.op = "not"
  <2>1. acc[r] = Truth(col[r] = NotHolds)
    BY <1>1, <1>6 DEF Combined
  <2>2. own = NoErrors
    BY <1>6 DEF FailsHere
  <2>3. DOMAIN own = {}
    BY <2>2, NoErrorsFacts
  <2>4. r \in alive => Advanced(p, cell, f.expr, f.n + 1, acc[r])
    BY <1>2, <1>5, <1>6, <2>1
  <2>5. acc[r] \in Int
    BY <2>1 DEF Truth, Holds, NotHolds
  <2> QED BY <1>3, <1>4, <2>3, <2>4, <2>5 DEF TakesRow, Advanced
<1>7. CASE f.expr.op = "no_match"
  <2>1. acc[r] \in Int
    BY <1>1, <1>2, <1>7 DEF Combined
  <2>2. own = Fail(alive, "no_matching_arm")
    BY <1>7 DEF FailsHere
  <2>3. DOMAIN own = alive /\ \A s \in alive : own[s] = "no_matching_arm"
    BY <2>2 DEF Fail
  <2> QED BY <1>3, <1>4, <1>5, <1>7, <2>1, <2>3 DEF TakesRow
<1> QED BY <1>6, <1>7

LEMMA RowConjoins ==
    ASSUME NEW p \in Programs, NEW cell \in Cells, NEW f, NEW r, NEW col, NEW alive,
           RowInput(p, cell, f, r, col, alive), f.expr.op = "and",
           NEW acc, acc = Combined(f, col, alive),
           NEW own, own = FailsHere(f, acc, alive),
           NEW live, live = StillLive(f, acc, alive \ DOMAIN own)
    PROVE  TakesRow(p, cell, f, r, alive, acc, own, live)
<1>1. f \in FrameType /\ r \in Rows /\ col \in [Rows -> Int]
  BY DEF RowInput
<1>2. f.expr \in Exprs /\ f.n \in Nat /\ f.acc[r] \in Int /\ col[r] \in Int
  BY <1>1, FrameFacts
<1>3. OperandRows(f) = f.live /\ alive \subseteq f.live
  BY DEF OperandRows, RowInput
<1>4. acc[r] = IF r \in alive /\ col[r] = NotHolds THEN NotHolds ELSE f.acc[r]
  BY <1>1 DEF Combined
<1>5. own = NoErrors
  BY DEF FailsHere
<1>6. DOMAIN own = {}
  BY <1>5, NoErrorsFacts
<1>7. r \in live <=> r \in alive /\ acc[r] = Holds
  BY <1>6 DEF StillLive
<1>8. MayDecide(f.expr, f.n + 1)
  BY DEF MayDecide
<1>9. ASSUME r \in alive
      PROVE  /\ f.acc[r] = Holds /\ col[r] \in {Holds, NotHolds}
             /\ col[r] = NotHolds => Decided(p, cell, f.expr, NotHolds)
             /\ col[r] = Holds => Advanced(p, cell, f.expr, f.n + 1, Holds)
  <2>1. PICK vals : Delivered(p, cell, f.expr, f.n, f.acc[r], vals, col[r])
    BY <1>9 DEF RowInput
  <2>2. col[r] \in {Holds, NotHolds}
    BY <1>9 DEF RowInput
  <2> QED BY <2>1, <2>2, <1>2, AndTakes
<1>10. ASSUME r \in alive
       PROVE  IF r \in live THEN Advanced(p, cell, f.expr, f.n + 1, acc[r])
              ELSE Decided(p, cell, f.expr, acc[r])
  BY <1>4, <1>7, <1>9, <1>10, ValuesFacts
<1>11. acc[r] \in Int
  BY <1>2, <1>4 DEF Holds, NotHolds
<1>12. r \notin f.live => acc[r] = f.acc[r]
  BY <1>3, <1>4
<1> QED BY <1>3, <1>6, <1>7, <1>8, <1>10, <1>11, <1>12 DEF TakesRow, Advanced

LEMMA RowDisjoins ==
    ASSUME NEW p \in Programs, NEW cell \in Cells, NEW f, NEW r, NEW col, NEW alive,
           RowInput(p, cell, f, r, col, alive), f.expr.op = "or",
           NEW acc, acc = Combined(f, col, alive),
           NEW own, own = FailsHere(f, acc, alive),
           NEW live, live = StillLive(f, acc, alive \ DOMAIN own)
    PROVE  TakesRow(p, cell, f, r, alive, acc, own, live)
<1>1. f \in FrameType /\ r \in Rows /\ col \in [Rows -> Int]
  BY DEF RowInput
<1>2. f.expr \in Exprs /\ f.n \in Nat /\ f.acc[r] \in Int /\ col[r] \in Int
  BY <1>1, FrameFacts
<1>3. OperandRows(f) = f.live /\ alive \subseteq f.live
  BY DEF OperandRows, RowInput
<1>4. acc[r] = IF r \in alive /\ col[r] = Holds THEN Holds ELSE f.acc[r]
  BY <1>1 DEF Combined
<1>5. own = NoErrors
  BY DEF FailsHere
<1>6. DOMAIN own = {}
  BY <1>5, NoErrorsFacts
<1>7. r \in live <=> r \in alive /\ acc[r] = NotHolds
  BY <1>6 DEF StillLive
<1>8. MayDecide(f.expr, f.n + 1)
  BY DEF MayDecide
<1>9. ASSUME r \in alive
      PROVE  /\ f.acc[r] = NotHolds /\ col[r] \in {Holds, NotHolds}
             /\ col[r] = Holds => Decided(p, cell, f.expr, Holds)
             /\ col[r] = NotHolds => Advanced(p, cell, f.expr, f.n + 1, NotHolds)
  <2>1. PICK vals : Delivered(p, cell, f.expr, f.n, f.acc[r], vals, col[r])
    BY <1>9 DEF RowInput
  <2>2. col[r] \in {Holds, NotHolds}
    BY <1>9 DEF RowInput
  <2> QED BY <2>1, <2>2, <1>2, OrTakes
<1>10. ASSUME r \in alive
       PROVE  IF r \in live THEN Advanced(p, cell, f.expr, f.n + 1, acc[r])
              ELSE Decided(p, cell, f.expr, acc[r])
  BY <1>4, <1>7, <1>9, <1>10, ValuesFacts
<1>11. acc[r] \in Int
  BY <1>2, <1>4 DEF Holds, NotHolds
<1>12. r \notin f.live => acc[r] = f.acc[r]
  BY <1>3, <1>4
<1> QED BY <1>3, <1>6, <1>7, <1>8, <1>10, <1>11, <1>12 DEF TakesRow, Advanced

LEMMA RowChooses ==
    ASSUME NEW p \in Programs, NEW cell \in Cells, NEW f, NEW r, NEW col, NEW alive,
           RowInput(p, cell, f, r, col, alive), f.expr.op = "if",
           NEW acc, acc = Combined(f, col, alive),
           NEW own, own = FailsHere(f, acc, alive),
           NEW live, live = StillLive(f, acc, alive \ DOMAIN own)
    PROVE  TakesRow(p, cell, f, r, alive, acc, own, live)
<1>1. f \in FrameType /\ r \in Rows /\ col \in [Rows -> Int]
  BY DEF RowInput
<1>2. f.expr \in Exprs /\ f.n \in Nat /\ f.acc[r] \in Int /\ col[r] \in Int
  BY <1>1, FrameFacts
<1>3. /\ alive \subseteq OperandRows(f) /\ f.n < 3 /\ Len(f.expr.args) = 3
      /\ OperandRows(f) = IF f.n = 1 THEN {s \in f.live : f.acc[s] = Holds} ELSE f.live
  BY <1>2, NodeFacts DEF OperandRows, RowInput
<1>4. acc[r] = IF f.n < 2 \/ r \in f.live THEN col[r] ELSE f.acc[r]
  BY <1>1 DEF Combined
<1>5. own = NoErrors
  BY DEF FailsHere
<1>6. DOMAIN own = {}
  BY <1>5, NoErrorsFacts
<1>7. live = IF f.n > 0 THEN f.live \ OperandRows(f) ELSE alive
  BY <1>6 DEF StillLive
<1>8. ASSUME r \in alive
      PROVE  /\ f.n = 0 => Standing(p, cell, f.expr, 1, col[r])
             /\ f.n # 0 => Decided(p, cell, f.expr, col[r])
  <2>1. PICK vals : Delivered(p, cell, f.expr, f.n, f.acc[r], vals, col[r])
    BY <1>8 DEF RowInput
  <2>2. f.n < Len(f.expr.args)
    BY DEF RowInput
  <2> QED BY <2>1, <2>2, <1>2, IfTakes
<1>9. acc[r] \in Int
  BY <1>2, <1>4
<1>10. CASE f.n = 0
  <2>1. OperandRows(f) = f.live /\ live = alive /\ acc[r] = col[r]
    BY <1>3, <1>4, <1>7, <1>10
  <2>2. ~MayDecide(f.expr, f.n)
    BY <1>10 DEF MayDecide
  <2> QED BY <1>3, <1>6, <1>8, <1>9, <1>10, <2>1, <2>2 DEF TakesRow
<1>11. CASE f.n = 1
  <2>1. live = f.live \ OperandRows(f) /\ acc[r] = col[r]
    BY <1>4, <1>7, <1>11
  <2>2. ~MayDecide(f.expr, f.n) /\ MayDecide(f.expr, f.n + 1)
    BY <1>11 DEF MayDecide
  <2>3. ASSUME r \in f.live \ OperandRows(f)
        PROVE  Standing(p, cell, f.expr, f.n + 1, acc[r])
    <3>1. f.acc[r] # Holds
      BY <2>3, <1>3, <1>11
    <3>2. Standing(p, cell, f.expr, 1, f.acc[r])
      BY <2>3, <1>11 DEF RowInput
    <3>3. Standing(p, cell, f.expr, 2, acc[r])
      BY <3>1, <3>2, IfPasses
    <3> QED BY <3>3, <1>11
  <2>4. f.n + 1 < Len(f.expr.args)
    BY <1>3, <1>11
  <2> QED BY <1>3, <1>6, <1>8, <1>9, <1>11, <2>1, <2>2, <2>3, <2>4 DEF TakesRow
<1>12. CASE f.n = 2
  <2>1. live = {} /\ OperandRows(f) = f.live
    BY <1>3, <1>7, <1>12
  <2>2. acc[r] = IF r \in f.live THEN col[r] ELSE f.acc[r]
    BY <1>4, <1>12
  <2>3. MayDecide(f.expr, f.n + 1)
    BY <1>12 DEF MayDecide
  <2> QED BY <1>3, <1>6, <1>8, <1>9, <1>12, <2>1, <2>2, <2>3 DEF TakesRow
<1> QED BY <1>2, <1>3, <1>10, <1>11, <1>12

(* Every node takes an operand's column row by row as explain takes its    *)
(* value.                                                                  *)
LEMMA RowTakes ==
    ASSUME NEW p \in Programs, NEW cell \in Cells, NEW f, NEW r, NEW col, NEW alive,
           RowInput(p, cell, f, r, col, alive),
           NEW acc, acc = Combined(f, col, alive),
           NEW own, own = FailsHere(f, acc, alive),
           NEW live, live = StillLive(f, acc, alive \ DOMAIN own)
    PROVE  TakesRow(p, cell, f, r, alive, acc, own, live)
<1>1. f \in FrameType /\ f.n < Len(f.expr.args)
  BY DEF RowInput
<1>2. f.expr \in Exprs /\ f.n \in Nat
  BY <1>1, FrameFacts
<1>3. f.expr.op \notin {"literal", "input", "unsupported", "derived"}
  <2>1. Len(f.expr.args) # 0
    BY <1>1, <1>2, NodeFacts
  <2> QED BY <2>1, <1>2, NodeFacts, Zenon
<1>4. f.expr.op \in {"add", "max", "div", "if", "no_match", "compare", "and", "or", "not"}
  BY <1>2, <1>3, NodeFacts
<1> QED BY <1>4, RowAdds, RowDivides, RowGrows, RowCompares, RowNegates, RowConjoins,
           RowDisjoins, RowChooses, Zenon

-----------------------------------------------------------------------------
(* A sound node that takes a right operand column is sound.                *)
Takes(f, col, errors, alive, acc, own, live, g) ==
    /\ f \in FrameType
    /\ alive = OperandRows(f) \ DOMAIN errors
    /\ acc = Combined(f, col, alive)
    /\ own = FailsHere(f, acc, alive)
    /\ live = StillLive(f, acc, alive \ DOMAIN own)
    /\ g = Taken(f, col, errors)

LEMMA TakenFields ==
    ASSUME NEW f, NEW col, NEW errors, NEW alive, NEW acc, NEW own, NEW live, NEW g,
           Takes(f, col, errors, alive, acc, own, live, g)
    PROVE  /\ g.key = f.key /\ g.expr = f.expr /\ g.mask = f.mask /\ g.body = f.body
           /\ g.n = f.n + 1
           /\ \A r \in Rows : g.acc[r] = IF r \in DOMAIN own THEN f.acc[r] ELSE acc[r]
           /\ g.live = live
           /\ g.errors = Absorb(Absorb(f.errors, errors), own)
           /\ (\A r \in Rows : acc[r] \in Int) /\ live \in SUBSET Rows /\ g.errors \in ErrorsType
                => g \in FrameType
<1>1. /\ f.key \in Keys /\ f.expr \in Exprs /\ f.n \in Nat
      /\ f.mask \in SUBSET Rows /\ f.live \in SUBSET Rows
      /\ f.acc \in [Rows -> Int] /\ f.errors \in ErrorsType /\ f.body \in BOOLEAN
  BY FrameFacts DEF Takes
<1>2. /\ g.key = f.key /\ g.expr = f.expr /\ g.mask = f.mask /\ g.body = f.body
      /\ g.n = f.n + 1
      /\ g.acc = [r \in Rows |-> IF r \in DOMAIN own THEN f.acc[r] ELSE acc[r]]
      /\ g.live = live
      /\ g.errors = Absorb(Absorb(f.errors, errors), own)
      /\ g = [key |-> g.key, expr |-> g.expr, mask |-> g.mask, live |-> g.live,
              n |-> g.n, acc |-> g.acc, errors |-> g.errors, body |-> g.body]
  BY DEF Takes, Taken, FrameType
<1>3. ASSUME \A r \in Rows : acc[r] \in Int, live \in SUBSET Rows, g.errors \in ErrorsType
      PROVE  g \in FrameType
  <2>1. g.acc \in [Rows -> Int] /\ g.n \in Nat
    BY <1>1, <1>2, <1>3
  <2> QED BY <2>1, <1>1, <1>2, <1>3 DEF FrameType
<1> QED BY <1>2, <1>3

LEMMA FailsHereType ==
    ASSUME NEW f, NEW acc, NEW alive \in SUBSET Rows
    PROVE  FailsHere(f, acc, alive) \in ErrorsType
<1>1. \A S \in SUBSET Rows, x \in {"overflow", "division_by_zero", "no_matching_arm"} :
         Fail(S, x) \in ErrorsType
  BY FailFacts DEF ErrorNames
<1>2. {r \in alive : acc[r] \notin Values} \in SUBSET Rows
      /\ {r \in alive : acc[r] = 0} \in SUBSET Rows
  OBVIOUS
<1>3. CASE f.expr.op = "add"
  BY <1>1, <1>2, <1>3 DEF FailsHere
<1>4. CASE f.expr.op = "div" /\ f.n = 0
  BY <1>1, <1>2, <1>4 DEF FailsHere
<1>5. CASE f.expr.op = "no_match"
  BY <1>1, <1>5 DEF FailsHere
<1>6. CASE f.expr.op # "add" /\ ~(f.expr.op = "div" /\ f.n = 0) /\ f.expr.op # "no_match"
  <2>1. FailsHere(f, acc, alive) = NoErrors
    BY <1>6 DEF FailsHere
  <2> QED BY <2>1, NoErrorsFacts
<1> QED BY <1>3, <1>4, <1>5, <1>6

(* What a node's operand has to deliver.                                   *)
OperandRight(p, cs, f, col, errors) ==
    /\ col \in [Rows -> Int] /\ errors \in ErrorsType
    /\ DOMAIN errors \subseteq OperandRows(f)
    /\ \A r \in OperandRows(f) : NodeRight(p, cs[r], NextOperand(f), col, errors, r)

LEMMA WantsRows ==
    ASSUME NEW p, NEW cs, NEW f \in FrameType, FrameSound(p, cs, f), WantsOperand(f)
    PROVE  /\ f.n < Len(f.expr.args)
           /\ f.expr.op \notin {"literal", "input", "unsupported", "derived"}
           /\ NextOperand(f) = ArgAt(f.expr, f.n)
           /\ OperandRows(f) \subseteq f.live /\ f.live \in SUBSET Rows
           /\ f.live \subseteq f.mask
           /\ \A r \in f.live : /\ r \notin DOMAIN f.errors
                                /\ Standing(p, cs[r], f.expr, f.n, f.acc[r])
           /\ \A r \in OperandRows(f) : f.expr.op = "if" /\ f.n = 1 => f.acc[r] = Holds
<1>1. f.n < Len(f.expr.args) /\ f.expr \in Exprs /\ f.n \in Nat /\ f.live \in SUBSET Rows
  BY FrameFacts DEF WantsOperand
<1>2. Len(f.expr.args) # 0
  BY <1>1, NodeFacts
<1>3. f.expr.op \notin {"literal", "input", "unsupported", "derived"}
  BY <1>1, <1>2, NodeFacts, Zenon
<1>4. f.live \subseteq f.mask /\ \A r \in f.mask : RowSound(p, cs[r], f, r)
  BY DEF FrameSound
<1>5. \A r \in f.live : r \notin DOMAIN f.errors /\ Standing(p, cs[r], f.expr, f.n, f.acc[r])
  BY <1>1, <1>3, <1>4 DEF RowSound
<1> QED BY <1>1, <1>3, <1>4, <1>5 DEF NextOperand, ArgAt, OperandRows

TakesRight(p, cs, f, col, errors) ==
    /\ p \in Programs /\ cs \in [Rows -> Cells] /\ f \in FrameType
    /\ FrameSound(p, cs, f) /\ WantsOperand(f)
    /\ OperandRight(p, cs, f, col, errors)

LEMMA OperandInput ==
    ASSUME NEW p, NEW cs, NEW f, NEW col, NEW errors, TakesRight(p, cs, f, col, errors),
           NEW r \in Rows,
           NEW alive, alive = OperandRows(f) \ DOMAIN errors
    PROVE  /\ RowInput(p, cs[r], f, r, col, alive)
           /\ r \in DOMAIN errors => Rest(p, cs[r], f.expr, <<>>) = Err(errors[r])
<1>0. /\ p \in Programs /\ cs \in [Rows -> Cells] /\ f \in FrameType
      /\ FrameSound(p, cs, f) /\ WantsOperand(f)
      /\ OperandRight(p, cs, f, col, errors)
  BY DEF TakesRight
<1>1. /\ f.expr \in Exprs /\ f.n \in Nat /\ cs[r] \in Cells /\ col \in [Rows -> Int]
      /\ DOMAIN errors \subseteq OperandRows(f)
  BY <1>0, FrameFacts DEF OperandRight
<1>2. /\ f.n < Len(f.expr.args)
      /\ NextOperand(f) = ArgAt(f.expr, f.n)
      /\ OperandRows(f) \subseteq f.live
      /\ r \in f.live => Standing(p, cs[r], f.expr, f.n, f.acc[r])
      /\ r \in OperandRows(f) => (f.expr.op = "if" /\ f.n = 1 => f.acc[r] = Holds)
  BY <1>0, WantsRows
<1>3. ASSUME r \in OperandRows(f)
      PROVE  /\ f.expr.op \in {"and", "or"} => Judges(ArgAt(f.expr, f.n))
             /\ \A x : Rest(p, cs[r], ArgAt(f.expr, f.n), <<>>) = Err(x)
                          => Rest(p, cs[r], f.expr, <<>>) = Err(x)
             /\ \A v \in Values : Rest(p, cs[r], ArgAt(f.expr, f.n), <<>>) = Ok(v)
                          => \E vals : Delivered(p, cs[r], f.expr, f.n, f.acc[r], vals, v)
             /\ NodeRight(p, cs[r], ArgAt(f.expr, f.n), col, errors, r)
  BY <1>0, <1>1, <1>2, <1>3, RowOperand DEF OperandRight
<1>4. ASSUME r \in OperandRows(f), r \notin DOMAIN errors
      PROVE  /\ \E vals : Delivered(p, cs[r], f.expr, f.n, f.acc[r], vals, col[r])
             /\ f.expr.op \in {"and", "or"} => col[r] \in {Holds, NotHolds}
  <2>1. Decided(p, cs[r], ArgAt(f.expr, f.n), col[r])
    BY <1>3, <1>4 DEF NodeRight
  <2>2. col[r] \in Values
    BY <2>1, ValuesFacts DEF Decided
  <2> QED BY <2>1, <2>2, <1>3, <1>4 DEF Decided, ValuesOf
<1>5. ASSUME r \in DOMAIN errors
      PROVE  Rest(p, cs[r], f.expr, <<>>) = Err(errors[r])
  BY <1>1, <1>3, <1>5 DEF NodeRight
<1> QED BY <1>0, <1>1, <1>2, <1>4, <1>5 DEF RowInput

LEMMA TakenSound ==
    ASSUME NEW p \in Programs, NEW cs \in [Rows -> Cells], NEW f \in FrameType,
           FrameSound(p, cs, f), WantsOperand(f), NEW col, NEW errors,
           OperandRight(p, cs, f, col, errors),
           NEW g, g = Taken(f, col, errors)
    PROVE  /\ g \in FrameType /\ FrameSound(p, cs, g)
           /\ g.key = f.key /\ g.expr = f.expr /\ g.mask = f.mask /\ g.body = f.body
<1>1. PICK alive : alive = OperandRows(f) \ DOMAIN errors
  OBVIOUS
<1>2. PICK acc : acc = Combined(f, col, alive)
  OBVIOUS
<1>3. PICK own : own = FailsHere(f, acc, alive)
  OBVIOUS
<1>4. PICK live : live = StillLive(f, acc, alive \ DOMAIN own)
  OBVIOUS
<1>5. /\ g.key = f.key /\ g.expr = f.expr /\ g.mask = f.mask /\ g.body = f.body
      /\ g.n = f.n + 1
      /\ \A r \in Rows : g.acc[r] = IF r \in DOMAIN own THEN f.acc[r] ELSE acc[r]
      /\ g.live = live
      /\ g.errors = Absorb(Absorb(f.errors, errors), own)
      /\ (\A r \in Rows : acc[r] \in Int) /\ live \in SUBSET Rows /\ g.errors \in ErrorsType
           => g \in FrameType
  <2>1. Takes(f, col, errors, alive, acc, own, live, g)
    BY <1>1, <1>2, <1>3, <1>4 DEF Takes
  <2> QED BY <2>1, TakenFields
<1>6. /\ f.key \in Keys /\ f.expr \in Exprs /\ f.n \in Nat
      /\ f.mask \in SUBSET Rows /\ f.live \in SUBSET Rows
      /\ f.acc \in [Rows -> Int] /\ f.errors \in ErrorsType /\ f.body \in BOOLEAN
  BY FrameFacts
<1>7. /\ f.n < Len(f.expr.args)
      /\ f.expr.op \notin {"literal", "input", "unsupported", "derived"}
      /\ OperandRows(f) \subseteq f.live
      /\ f.live \subseteq f.mask
      /\ \A r \in f.live : r \notin DOMAIN f.errors
  BY WantsRows
<1>8. ASSUME NEW r \in Rows
      PROVE  /\ TakesRow(p, cs[r], f, r, alive, acc, own, live)
             /\ r \in DOMAIN errors => Rest(p, cs[r], f.expr, <<>>) = Err(errors[r])
  <2>1. cs[r] \in Cells
    OBVIOUS
  <2>2. /\ RowInput(p, cs[r], f, r, col, alive)
        /\ r \in DOMAIN errors => Rest(p, cs[r], f.expr, <<>>) = Err(errors[r])
    <3>1. TakesRight(p, cs, f, col, errors)
      BY DEF TakesRight
    <3> QED BY <3>1, <1>1, OperandInput
  <2> QED BY <2>1, <2>2, <1>2, <1>3, <1>4, RowTakes
<1>9. /\ errors \in ErrorsType /\ DOMAIN errors \subseteq OperandRows(f)
      /\ alive \in SUBSET Rows
  BY <1>1, <1>6, <1>7 DEF OperandRight
<1>10. /\ own \in ErrorsType
       /\ DOMAIN own \subseteq alive
       /\ live \subseteq f.live
       /\ \A r \in Rows : acc[r] \in Int
  <2>1. own \in ErrorsType
    BY <1>3, <1>9, FailsHereType
  <2>2. DOMAIN own \subseteq Rows
    BY <2>1 DEF ErrorsType
  <2>3. live \subseteq Rows
    BY <1>1, <1>4, <1>6, <1>9 DEF StillLive
  <2> QED BY <2>1, <2>2, <2>3, <1>8 DEF TakesRow
<1>11. PICK mid : mid = Absorb(f.errors, errors)
  OBVIOUS
<1>12. /\ mid \in ErrorsType
       /\ DOMAIN mid = DOMAIN f.errors \cup DOMAIN errors
       /\ \A r \in DOMAIN f.errors : mid[r] = f.errors[r]
       /\ \A r \in DOMAIN errors \ DOMAIN f.errors : mid[r] = errors[r]
  BY <1>6, <1>9, <1>11, AbsorbFacts
<1>13. /\ g.errors \in ErrorsType
       /\ DOMAIN g.errors = DOMAIN mid \cup DOMAIN own
       /\ \A r \in DOMAIN mid : g.errors[r] = mid[r]
       /\ \A r \in DOMAIN own \ DOMAIN mid : g.errors[r] = own[r]
  <2>1. g.errors = Absorb(mid, own)
    BY <1>5, <1>11
  <2>2. /\ Absorb(mid, own) \in ErrorsType
        /\ DOMAIN Absorb(mid, own) = DOMAIN mid \cup DOMAIN own
        /\ \A r \in DOMAIN mid : Absorb(mid, own)[r] = mid[r]
        /\ \A r \in DOMAIN own \ DOMAIN mid : Absorb(mid, own)[r] = own[r]
    BY <1>10, <1>12, AbsorbFacts, Zenon
  <2> QED BY <2>1, <2>2, Zenon
<1>14. live \in SUBSET Rows
  BY <1>6, <1>10
<1>16. g \in FrameType
  BY <1>5, <1>10, <1>13, <1>14
<1>17. f.mask # {} /\ DOMAIN f.errors \subseteq f.mask /\ \A r \in f.mask : RowSound(p, cs[r], f, r)
  BY DEF FrameSound
<1>18. g.mask # {} /\ g.live \subseteq g.mask /\ DOMAIN g.errors \subseteq g.mask
  BY <1>1, <1>5, <1>7, <1>9, <1>10, <1>12, <1>13, <1>17
<1>19. ASSUME NEW r \in f.mask
       PROVE  RowSound(p, cs[r], g, r)
  <2>1. r \in Rows
    BY <1>6
  <2>2. TakesRow(p, cs[r], f, r, alive, acc, own, live)
    BY <2>1, <1>8
  <2>3. CASE r \in DOMAIN f.errors
    <3>1. r \notin f.live /\ Rest(p, cs[r], f.expr, <<>>) = Err(f.errors[r])
      BY <2>3, <1>7, <1>17 DEF RowSound
    <3>2. g.errors[r] = f.errors[r] /\ r \in DOMAIN g.errors /\ r \notin g.live
      BY <2>3, <3>1, <1>5, <1>10, <1>12, <1>13
    <3> QED BY <3>1, <3>2, <1>5 DEF RowSound
  <2>4. CASE r \in DOMAIN errors /\ r \notin DOMAIN f.errors
    <3>1. Rest(p, cs[r], f.expr, <<>>) = Err(errors[r])
      BY <2>1, <2>4, <1>8
    <3>2. g.errors[r] = errors[r] /\ r \in DOMAIN g.errors
      BY <2>4, <1>12, <1>13
    <3>3. r \notin live
      BY <2>2, <2>4, <1>1, <1>9 DEF TakesRow
    <3> QED BY <3>1, <3>2, <3>3, <1>5 DEF RowSound
  <2>5. CASE r \in DOMAIN own /\ r \notin DOMAIN errors /\ r \notin DOMAIN f.errors
    <3>1. Rest(p, cs[r], f.expr, <<>>) = Err(own[r]) /\ r \notin live
      BY <2>2, <2>5 DEF TakesRow
    <3>2. g.errors[r] = own[r] /\ r \in DOMAIN g.errors
      BY <2>5, <1>12, <1>13
    <3> QED BY <3>1, <3>2, <1>5 DEF RowSound
  <2>6. CASE r \notin DOMAIN own /\ r \notin DOMAIN errors /\ r \notin DOMAIN f.errors
    <3>1. r \notin DOMAIN g.errors /\ g.acc[r] = acc[r]
      BY <2>1, <2>6, <1>5, <1>12, <1>13
    <3>2. CASE r \in alive
      <4>1. /\ r \notin live => MayDecide(f.expr, f.n + 1)
            /\ IF f.n + 1 < Len(f.expr.args) /\ r \in live
               THEN Standing(p, cs[r], f.expr, f.n + 1, acc[r])
               ELSE Decided(p, cs[r], f.expr, acc[r])
        BY <2>2, <2>6, <3>2 DEF TakesRow
      <4> QED BY <3>1, <4>1, <1>5 DEF RowSound
    <3>3. CASE r \in f.live /\ r \notin alive
      <4>1. r \in f.live \ OperandRows(f)
        BY <3>3, <2>6, <1>1
      <4>2. /\ r \in live /\ f.n + 1 < Len(f.expr.args)
            /\ Standing(p, cs[r], f.expr, f.n + 1, acc[r])
        BY <4>1, <2>2 DEF TakesRow
      <4> QED BY <3>1, <4>2, <1>5 DEF RowSound
    <3>4. CASE r \notin f.live
      <4>1. MayDecide(f.expr, f.n) /\ (Accumulates(f.expr, f.n) => Decided(p, cs[r], f.expr, f.acc[r]))
        BY <3>4, <2>6, <1>17 DEF RowSound
      <4>2. Accumulates(f.expr, f.n) /\ MayDecide(f.expr, f.n + 1)
        <5>1. f.expr.op \in {"and", "or", "if"}
          BY <4>1 DEF MayDecide
        <5>2. f.n >= 2 => f.n + 1 >= 2
          BY <1>6
        <5> QED BY <5>1, <5>2, <4>1 DEF Accumulates, MayDecide
      <4>3. acc[r] = f.acc[r] /\ r \notin live
        BY <4>1, <2>2, <3>4 DEF TakesRow
      <4> QED BY <3>1, <4>1, <4>2, <4>3, <1>5 DEF RowSound
    <3> QED BY <3>2, <3>3, <3>4
  <2> QED BY <2>3, <2>4, <2>5, <2>6
<1> QED BY <1>5, <1>16, <1>18, <1>19 DEF FrameSound

-----------------------------------------------------------------------------
(* A node that has every operand it wants has its meaning in each row.     *)
LEMMA FinishedRight ==
    ASSUME program \in Programs, cells \in [Rows -> Cells], NEW f \in FrameType,
           FrameSound(program, cells, f), ~WantsOperand(f),
           ~(f.expr.op = "derived" /\ f.n = 0), f.expr.op # "unsupported"
    PROVE  /\ Column(f) \in [Rows -> Int] /\ Errors(f) \in ErrorsType
           /\ DOMAIN Errors(f) \subseteq f.mask
           /\ \A r \in f.mask :
                 NodeRight(program, cells[r], f.expr, Column(f), Errors(f), r)
<1>1. /\ f.expr \in Exprs /\ f.n \in Nat /\ f.mask \in SUBSET Rows
      /\ f.acc \in [Rows -> Int] /\ f.errors \in ErrorsType
  BY FrameFacts
<1>2. /\ DOMAIN f.errors \subseteq f.mask
      /\ \A r \in f.mask : RowSound(program, cells[r], f, r)
  BY DEF FrameSound
<1>3. \A r \in Rows : cells[r] \in Cells /\ (cells[r] # Absent => cells[r] \in Values)
  BY BulkAssumption DEF WellTyped
<1>4. PICK p : p = program
  OBVIOUS
<1>5. PICK col : col = Column(f)
  OBVIOUS
<1>6. PICK errors : errors = Errors(f)
  OBVIOUS
<1>7. <<>> \in Partial(f.expr) /\ Len(<<>>) = 0
  BY <1>1, EmptyPartial
<1>8. CASE f.expr.op = "literal"
  <2>1. f.expr.val \in Values /\ ValuesOf(f.expr) = Values /\ Len(f.expr.args) = 0
    BY <1>1, <1>8, NodeFacts DEF ValuesOf, Judges
  <2>2. errors = f.errors /\ \A r \in Rows : col[r] = f.expr.val
    BY <1>5, <1>6, <1>8 DEF Column, Errors
  <2>3. col \in [Rows -> Int]
    BY <1>5, <1>8, <2>1, ValuesFacts DEF Column
  <2>4. ~Wants(f.expr, <<>>) /\ Finish(f.expr, <<>>) = Ok(f.expr.val)
    BY <1>8 DEF Wants, Finish
  <2>5. ASSUME NEW r \in f.mask
        PROVE  NodeRight(p, cells[r], f.expr, col, errors, r)
    <3>1. CASE r \in DOMAIN errors
      BY <3>1, <2>2, <1>2, <1>4 DEF RowSound, NodeRight
    <3>2. CASE r \notin DOMAIN errors
      <4>1. Rest(p, cells[r], f.expr, <<>>) = Finish(f.expr, <<>>)
        BY <1>1, <1>3, <1>4, <1>7, <1>8, <2>4, RestFinish
      <4>2. r \in Rows
        BY <1>1
      <4> QED BY <4>1, <4>2, <3>2, <2>1, <2>2, <2>4 DEF NodeRight, Decided
    <3> QED BY <3>1, <3>2
  <2> QED BY <1>1, <1>2, <1>4, <1>5, <1>6, <2>2, <2>3, <2>5
<1>9. CASE f.expr.op = "input"
  <2>1. ValuesOf(f.expr) = Values
    BY <1>9 DEF ValuesOf, Judges
  <2>2. \A r \in Rows : col[r] = IF r \in f.mask /\ cells[r] # Absent THEN cells[r] ELSE 0
    BY <1>5, <1>9 DEF Column
  <2>3. col \in [Rows -> Int]
    BY <1>3, <1>5, <1>9, ValuesFacts DEF Column
  <2>4. PICK S : S = {r \in f.mask : cells[r] = Absent}
    OBVIOUS
  <2>5. S \in SUBSET Rows /\ S \subseteq f.mask
    BY <1>1, <2>4
  <2>6. errors = Fail(S, "missing_input") /\ "missing_input" \in ErrorNames
    BY <1>6, <1>9, <2>4 DEF Errors, ErrorNames
  <2>7. /\ errors \in ErrorsType /\ DOMAIN errors = S
        /\ \A r \in S : errors[r] = "missing_input"
    BY <2>5, <2>6, FailFacts
  <2>8. ASSUME NEW r \in f.mask
        PROVE  NodeRight(p, cells[r], f.expr, col, errors, r)
    <3>1. r \in Rows /\ cells[r] \in Cells
      BY <1>1, <1>3
    <3>2. /\ cells[r] = Absent => Rest(p, cells[r], f.expr, <<>>) = Err("missing_input")
          /\ cells[r] # Absent => Rest(p, cells[r], f.expr, <<>>) = Ok(cells[r])
      BY <1>1, <1>4, <1>9, <3>1, RestInput
    <3>3. r \in DOMAIN errors <=> cells[r] = Absent
      BY <2>4, <2>7
    <3> QED BY <3>1, <3>2, <3>3, <1>3, <2>1, <2>2, <2>7 DEF NodeRight, Decided
  <2> QED BY <1>4, <1>5, <1>6, <2>3, <2>5, <2>7, <2>8
<1>10. CASE f.expr.op = "max" /\ f.n = 0
  <2>1. Len(f.expr.args) = 0
    BY <1>1, <1>10, NodeFacts DEF WantsOperand
  <2>2. errors = Fail(f.mask, "type_mismatch") /\ "type_mismatch" \in ErrorNames
    BY <1>6, <1>10 DEF Errors, ErrorNames
  <2>3. /\ errors \in ErrorsType /\ DOMAIN errors = f.mask
        /\ \A r \in f.mask : errors[r] = "type_mismatch"
    BY <1>1, <2>2, FailFacts
  <2>4. col = f.acc
    BY <1>5, <1>10 DEF Column
  <2>5. ~Wants(f.expr, <<>>)
    BY <1>10, <2>1 DEF Wants
  <2>6. Finish(f.expr, <<>>) = Err("type_mismatch")
    <3>1. ~\E m \in Values : IsLargest(m, <<>>)
      BY DEF IsLargest
    <3> QED BY <3>1, <1>10 DEF Finish
  <2>7. ASSUME NEW r \in f.mask
        PROVE  NodeRight(p, cells[r], f.expr, col, errors, r)
    <3>1. Rest(p, cells[r], f.expr, <<>>) = Finish(f.expr, <<>>)
      BY <1>1, <1>3, <1>4, <1>7, <1>10, <2>5, RestFinish
    <3> QED BY <3>1, <2>3, <2>6 DEF NodeRight
  <2> QED BY <1>1, <1>4, <1>5, <1>6, <2>3, <2>4, <2>7
<1>11. CASE f.expr.op \notin {"literal", "input"} /\ ~(f.expr.op = "max" /\ f.n = 0)
  <2>1. col = f.acc /\ errors = f.errors
    BY <1>5, <1>6, <1>11 DEF Column, Errors
  <2>2. Accumulates(f.expr, f.n)
    BY <1>1, <1>11 DEF Accumulates
  <2>3. ASSUME NEW r \in f.mask
        PROVE  NodeRight(p, cells[r], f.expr, col, errors, r)
    <3>1. RowSound(p, cells[r], f, r)
      BY <1>2, <1>4
    <3>2. ~(f.n < Len(f.expr.args) /\ r \in f.live) \/ r \in DOMAIN f.errors
      BY <3>1 DEF WantsOperand
    <3> QED BY <3>1, <3>2, <2>1, <2>2 DEF RowSound, NodeRight
  <2> QED BY <1>1, <1>2, <1>4, <1>5, <1>6, <2>1, <2>3
<1> QED BY <1>8, <1>9, <1>10, <1>11

-----------------------------------------------------------------------------
(* A new frame is sound before it has taken anything.                      *)
LEMMA NodeSound ==
    ASSUME NEW p \in Programs, NEW cs \in [Rows -> Cells], NEW k \in Keys, NEW e \in Exprs,
           NEW mask \in SUBSET Rows, mask # {}, NEW body \in BOOLEAN, NEW g, g = Node(k, e, mask, body)
    PROVE  /\ g \in FrameType /\ FrameSound(p, cs, g)
           /\ g.key = k /\ g.expr = e /\ g.mask = mask /\ g.body = body /\ g.n = 0
<1>1. /\ g.key = k /\ g.expr = e /\ g.mask = mask /\ g.body = body /\ g.n = 0
      /\ g.live = mask /\ g.errors = NoErrors
      /\ \A r \in Rows : g.acc[r] = StartValue(e)
  BY DEF Node, StartValue
<1>2. g \in FrameType
  <2>1. [r \in Rows |-> IF e.op = "and" THEN Holds ELSE NotHolds] \in [Rows -> Int]
    BY DEF Holds, NotHolds
  <2>2. NoErrors \in ErrorsType
    BY NoErrorsFacts
  <2> QED BY <2>1, <2>2 DEF Node, FrameType
<1>3. DOMAIN g.errors = {}
  BY <1>1, NoErrorsFacts
<1>4. ASSUME NEW r \in mask
      PROVE  RowSound(p, cs[r], g, r)
  <2>1. r \in Rows /\ cs[r] \in Cells
    OBVIOUS
  <2>2. /\ 0 < Len(e.args) => Standing(p, cs[r], e, 0, StartValue(e))
        /\ ~(0 < Len(e.args)) /\ Accumulates(e, 0) => Decided(p, cs[r], e, StartValue(e))
    BY <2>1, RowStarts
  <2> QED BY <2>1, <2>2, <1>1, <1>3 DEF RowSound
<1> QED BY <1>1, <1>2, <1>3, <1>4 DEF FrameSound

(* A read that is given the rule's column.                                 *)
ReadFrame(f, column) ==
    [f EXCEPT !.n = 1, !.acc = column.vals, !.errors = RestrictedTo(column.errors, f.mask)]

LEMMA ReadFrameSound ==
    ASSUME NEW p \in Programs, NEW cs \in [Rows -> Cells], NEW f \in FrameType,
           FrameSound(p, cs, f), f.expr.op = "derived", f.n = 0,
           NEW column \in ColumnType, ColumnRight(p, cs, f.expr.key, column),
           f.mask \subseteq column.computed, NEW g, g = ReadFrame(f, column)
    PROVE  /\ g \in FrameType /\ FrameSound(p, cs, g)
           /\ g.key = f.key /\ g.expr = f.expr /\ g.mask = f.mask /\ g.body = f.body
<1>1. /\ f.key \in Keys /\ f.expr \in Exprs /\ f.n \in Nat
      /\ f.mask \in SUBSET Rows /\ f.live \in SUBSET Rows
      /\ f.acc \in [Rows -> Int] /\ f.errors \in ErrorsType /\ f.body \in BOOLEAN
  BY FrameFacts
<1>2. /\ column.vals \in [Rows -> Int] /\ column.errors \in ErrorsType
      /\ column.computed \in SUBSET Rows
  BY DEF ColumnType
<1>3. PICK errors : errors = RestrictedTo(column.errors, f.mask)
  OBVIOUS
<1>4. /\ errors \in ErrorsType
      /\ DOMAIN errors = DOMAIN column.errors \cap f.mask
      /\ \A r \in DOMAIN column.errors \cap f.mask : errors[r] = column.errors[r]
  BY <1>2, <1>3, RestrictedFacts
<1>5. /\ g.key = f.key /\ g.expr = f.expr /\ g.mask = f.mask /\ g.body = f.body
      /\ g.n = 1 /\ g.live = f.live /\ g.acc = column.vals /\ g.errors = errors
      /\ g = [key |-> g.key, expr |-> g.expr, mask |-> g.mask, live |-> g.live,
              n |-> g.n, acc |-> g.acc, errors |-> g.errors, body |-> g.body]
  BY <1>3 DEF ReadFrame, FrameType
<1>6. g \in FrameType
  BY <1>1, <1>2, <1>4, <1>5 DEF FrameType
<1>7. f.mask # {} /\ f.live \subseteq f.mask /\ \A r \in f.mask : RowSound(p, cs[r], f, r)
  BY DEF FrameSound
<1>8. f.expr.key \in Keys /\ Len(f.expr.args) = 0
  BY <1>1, NodeFacts
<1>9. ASSUME NEW r \in f.mask
      PROVE  RowSound(p, cs[r], g, r)
  <2>1. r \in Rows /\ cs[r] \in Cells
    BY <1>1
  <2>2. RuleRight(p, cs[r], f.expr.key, column.vals, column.errors, r)
    BY DEF ColumnRight
  <2>3. Rest(p, cs[r], f.expr, <<>>) = Meaning(p, cs[r], f.expr.key)
    BY <1>1, <2>1, RestRead
  <2>4. CASE r \in DOMAIN column.errors
    BY <2>2, <2>3, <2>4, <1>4, <1>5 DEF RuleRight, RowSound
  <2>5. CASE r \notin DOMAIN column.errors
    <3>1. /\ column.vals[r] \in KindValues(f.expr.key)
          /\ Rest(p, cs[r], f.expr, <<>>) = Ok(column.vals[r])
      BY <2>2, <2>3, <2>5 DEF RuleRight
    <3>2. ValuesOf(f.expr) = KindValues(f.expr.key)
      BY DEF ValuesOf, KindValues, Judges
    <3>3. r \in f.live
      <4>1. r \in DOMAIN f.errors => Rest(p, cs[r], f.expr, <<>>) = Err(f.errors[r])
        BY <1>7 DEF RowSound
      <4>2. r \notin DOMAIN f.errors
        BY <4>1, <3>1, OkFacts
      <4>3. ~MayDecide(f.expr, f.n)
        BY DEF MayDecide
      <4> QED BY <4>2, <4>3, <1>7 DEF RowSound
    <3>4. r \notin DOMAIN g.errors /\ r \in g.live
      BY <2>5, <3>3, <1>4, <1>5
    <3>5. ~(g.n < Len(g.expr.args))
      BY <1>5, <1>8
    <3> QED BY <3>1, <3>2, <3>4, <3>5, <1>5 DEF RowSound, Decided
  <2> QED BY <2>4, <2>5
<1>10. g.mask # {} /\ g.live \subseteq g.mask /\ DOMAIN g.errors \subseteq g.mask
  BY <1>4, <1>5, <1>7
<1> QED BY <1>5, <1>6, <1>9, <1>10 DEF FrameSound

-----------------------------------------------------------------------------
(* Stacks. What an operation on the innermost frames leaves sound.         *)
LEMMA PopFacts ==
    ASSUME NEW S, NEW s \in Seq(S), Len(s) > 0
    PROVE  /\ Pop(s) \in Seq(S)
           /\ Len(Pop(s)) = Len(s) - 1
           /\ \A i \in 1..(Len(s) - 1) : i \in 1..Len(s) /\ Pop(s)[i] = s[i]
<1>1. /\ Len(s) \in Nat
      /\ \A i \in 1..(Len(s) - 1) : s[i] \in S
  OBVIOUS
<1>2. /\ SubSeq(s, 1, Len(s) - 1) \in Seq(S)
      /\ Len(SubSeq(s, 1, Len(s) - 1)) =
           IF 1 <= Len(s) - 1 THEN (Len(s) - 1) - 1 + 1 ELSE 0
      /\ \A i \in 1..((Len(s) - 1) - 1 + 1) : SubSeq(s, 1, Len(s) - 1)[i] = s[1 + i - 1]
  BY <1>1, SubSeqProperties
<1>3. Pop(s) \in Seq(S)
  BY <1>2 DEF Pop
<1>4. Len(Pop(s)) = Len(s) - 1
  <2>1. CASE Len(s) = 1
    BY <2>1, <1>2 DEF Pop
  <2>2. CASE Len(s) > 1
    <3>1. \A n \in Nat : n > 1 => 1 <= n - 1 /\ (n - 1) - 1 + 1 = n - 1
      OBVIOUS
    <3>2. 1 <= Len(s) - 1 /\ (Len(s) - 1) - 1 + 1 = Len(s) - 1
      BY <2>2, <3>1, <1>1
    <3>3. Len(SubSeq(s, 1, Len(s) - 1)) = (Len(s) - 1) - 1 + 1
      BY <1>2, <3>2, Zenon
    <3>4. Len(SubSeq(s, 1, Len(s) - 1)) = Len(s) - 1
      BY <3>2, <3>3
    <3> QED BY <3>4, Zenon DEF Pop
  <2>3. \A n \in Nat : n > 0 => n = 1 \/ n > 1
    OBVIOUS
  <2>4. Len(s) = 1 \/ Len(s) > 1
    BY <1>1, <2>3
  <2> QED BY <2>1, <2>2, <2>4, Zenon
<1>5. ASSUME NEW i \in 1..(Len(s) - 1)
      PROVE  i \in 1..Len(s) /\ Pop(s)[i] = s[i]
  <2>1. i \in Int /\ i \in 1..((Len(s) - 1) - 1 + 1) /\ 1 + i - 1 = i
    BY <1>1
  <2>2. SubSeq(s, 1, Len(s) - 1)[i] = s[1 + i - 1]
    BY <1>2, <2>1
  <2> QED BY <1>1, <2>1, <2>2 DEF Pop
<1> QED BY <1>3, <1>4, <1>5

LEMMA StackPops ==
    ASSUME NEW p, NEW cs, NEW cols, NEW goal, NEW st, StackSound(p, cs, cols, goal, st), st # <<>>
    PROVE  /\ StackSound(p, cs, cols, goal, Pop(st))
           /\ Len(Pop(st)) = Len(st) - 1
           /\ \A i \in 1..(Len(st) - 1) : Pop(st)[i] = st[i]
<1>1. st \in Seq(FrameType) /\ Len(st) \in Nat /\ Len(st) > 0
  BY DEF StackSound
<1>2. PICK t : t = Pop(st)
  OBVIOUS
<1>3. /\ t \in Seq(FrameType) /\ Len(t) = Len(st) - 1
      /\ \A i \in 1..(Len(st) - 1) : i \in 1..Len(st) /\ t[i] = st[i]
  BY <1>1, <1>2, PopFacts
<1>4. ASSUME t # <<>>
      PROVE  t[1] = st[1]
  <2>1. Len(t) > 0
    BY <1>3, <1>4
  <2> QED BY <2>1, <1>1, <1>3
<1>5. \A i \in 1..Len(t) : FrameSound(p, cs, t[i]) /\ BodySound(p, t[i])
  BY <1>1, <1>3 DEF StackSound
<1>6. ASSUME NEW i \in 1..(Len(t) - 1)
      PROVE  Follows(cols, t[i+1], t[i])
  <2>1. i \in 1..(Len(st) - 1) /\ i + 1 \in 1..(Len(st) - 1)
    BY <1>1, <1>3
  <2> QED BY <2>1, <1>3 DEF StackSound
<1>7. t # <<>> => /\ t[1].body /\ t[1].key = goal.key
                  /\ goal.rows \subseteq t[1].mask \cup ComputedIn(cols, goal.key)
  BY <1>1, <1>4 DEF StackSound
<1> QED BY <1>2, <1>3, <1>5, <1>6, <1>7 DEF StackSound

LEMMA StackReplaces ==
    ASSUME NEW p, NEW cs, NEW cols, NEW goal, NEW st, StackSound(p, cs, cols, goal, st), st # <<>>,
           NEW f, f = st[Len(st)],
           NEW g, g \in FrameType, FrameSound(p, cs, g),
           g.key = f.key, g.expr = f.expr, g.mask = f.mask, g.body = f.body
    PROVE  StackSound(p, cs, cols, goal, Append(Pop(st), g))
<1>1. st \in Seq(FrameType) /\ Len(st) \in Nat /\ Len(st) > 0 /\ Len(st) \in 1..Len(st)
  BY DEF StackSound
<1>2. PICK t : t = Pop(st)
  OBVIOUS
<1>3. /\ t \in Seq(FrameType) /\ Len(t) = Len(st) - 1
      /\ \A i \in 1..(Len(st) - 1) : i \in 1..Len(st) /\ t[i] = st[i]
  BY <1>1, <1>2, PopFacts
<1>4. PICK u : u = Append(t, g)
  OBVIOUS
<1>5. /\ u \in Seq(FrameType) /\ Len(u) = Len(st) /\ u[Len(st)] = g
      /\ \A i \in 1..(Len(st) - 1) : u[i] = st[i]
  <2>1. /\ u \in Seq(FrameType) /\ Len(u) = Len(t) + 1 /\ u[Len(t) + 1] = g
        /\ \A i \in 1..Len(t) : u[i] = t[i]
    BY <1>3, <1>4, AppendProperties
  <2> QED BY <2>1, <1>1, <1>3
<1>6. ASSUME NEW i \in 1..Len(st)
      PROVE  /\ u[i].key = st[i].key /\ u[i].mask = st[i].mask /\ u[i].body = st[i].body
             /\ u[i].expr = st[i].expr
             /\ FrameSound(p, cs, u[i]) /\ BodySound(p, u[i])
  <2>1. FrameSound(p, cs, st[i]) /\ BodySound(p, st[i])
    BY DEF StackSound
  <2>2. CASE i = Len(st)
    BY <2>1, <2>2, <1>5 DEF BodySound
  <2>3. CASE i # Len(st)
    <3>1. i \in 1..(Len(st) - 1)
      BY <1>1, <2>3
    <3> QED BY <3>1, <2>1, <1>5
  <2> QED BY <2>2, <2>3
<1>7. ASSUME NEW i \in 1..(Len(st) - 1)
      PROVE  Follows(cols, u[i+1], u[i])
  <2>1. i + 1 \in 1..Len(st) /\ u[i] = st[i]
    BY <1>1, <1>5
  <2>2. Follows(cols, st[i+1], st[i])
    BY DEF StackSound
  <2> QED BY <2>1, <2>2, <1>6 DEF Follows
<1>8. 1 \in 1..Len(st) /\ u # <<>>
  BY <1>1, <1>5
<1>9. /\ u[1].body /\ u[1].key = goal.key
      /\ goal.rows \subseteq u[1].mask \cup ComputedIn(cols, goal.key)
  BY <1>6, <1>8 DEF StackSound
<1>10. StackSound(p, cs, cols, goal, u)
  BY <1>5, <1>6, <1>7, <1>9 DEF StackSound
<1> QED BY <1>2, <1>4, <1>10

LEMMA StackPushes ==
    ASSUME NEW p, NEW cs, NEW cols, NEW goal, NEW st, StackSound(p, cs, cols, goal, st), st # <<>>,
           NEW f, f = st[Len(st)],
           NEW g, g \in FrameType, FrameSound(p, cs, g), BodySound(p, g), Follows(cols, g, f)
    PROVE  StackSound(p, cs, cols, goal, Append(st, g))
<1>1. st \in Seq(FrameType) /\ Len(st) \in Nat /\ Len(st) > 0 /\ 1 \in 1..Len(st)
  BY DEF StackSound
<1>2. PICK u : u = Append(st, g)
  OBVIOUS
<1>3. /\ u \in Seq(FrameType) /\ Len(u) = Len(st) + 1 /\ u[Len(st) + 1] = g
      /\ \A i \in 1..Len(st) : u[i] = st[i]
  BY <1>1, <1>2, AppendProperties
<1>4. ASSUME NEW i \in 1..Len(u)
      PROVE  FrameSound(p, cs, u[i]) /\ BodySound(p, u[i])
  <2>1. CASE i = Len(st) + 1
    BY <2>1, <1>3
  <2>2. CASE i # Len(st) + 1
    <3>1. i \in 1..Len(st)
      BY <1>1, <1>3, <2>2
    <3> QED BY <3>1, <1>3 DEF StackSound
  <2> QED BY <2>1, <2>2
<1>5. ASSUME NEW i \in 1..(Len(u) - 1)
      PROVE  Follows(cols, u[i+1], u[i])
  <2>1. i \in 1..Len(st) /\ u[i] = st[i]
    BY <1>1, <1>3
  <2>2. CASE i = Len(st)
    BY <2>1, <2>2, <1>3
  <2>3. CASE i # Len(st)
    <3>1. i \in 1..(Len(st) - 1) /\ i + 1 \in 1..Len(st)
      BY <1>1, <2>1, <2>3
    <3> QED BY <3>1, <2>1, <1>3 DEF StackSound
  <2> QED BY <2>2, <2>3
<1>6. u[1] = st[1] /\ u # <<>>
  BY <1>1, <1>3
<1>7. StackSound(p, cs, cols, goal, u)
  BY <1>3, <1>4, <1>5, <1>6 DEF StackSound
<1> QED BY <1>2, <1>7

LEMMA StackStarts ==
    ASSUME NEW p, NEW cs, NEW cols, NEW goal, NEW g \in FrameType,
           FrameSound(p, cs, g), BodySound(p, g), g.body, g.key = goal.key,
           goal.rows \subseteq g.mask \cup ComputedIn(cols, goal.key)
    PROVE  StackSound(p, cs, cols, goal, <<g>>)
<1>1. PICK u : u = <<g>>
  OBVIOUS
<1>2. u \in Seq(FrameType) /\ Len(u) = 1 /\ u[1] = g
  BY <1>1
<1>3. StackSound(p, cs, cols, goal, u)
  BY <1>2 DEF StackSound
<1> QED BY <1>1, <1>3

LEMMA StackEmpty ==
    ASSUME NEW p, NEW cs, NEW cols, NEW goal
    PROVE  StackSound(p, cs, cols, goal, <<>>)
BY DEF StackSound

(* Columns only grow, and a stack stands on the columns there are.         *)
Grown(cols, later) == \A k \in Keys : ComputedIn(cols, k) \subseteq ComputedIn(later, k)

LEMMA StackStays ==
    ASSUME NEW p, NEW cs, NEW cols, NEW later, Grown(cols, later),
           NEW goal, goal.key \in Keys, NEW st, StackSound(p, cs, cols, goal, st)
    PROVE  StackSound(p, cs, later, goal, st)
<1>1. st \in Seq(FrameType) /\ Len(st) \in Nat /\ \A i \in 1..Len(st) : st[i] \in FrameType
  BY DEF StackSound
<1>2. ASSUME NEW i \in 1..(Len(st) - 1)
      PROVE  Follows(later, st[i+1], st[i])
  <2>1. i + 1 \in 1..Len(st)
    BY <1>1
  <2>2. Follows(cols, st[i+1], st[i])
    BY DEF StackSound
  <2>3. st[i+1].key \in Keys
    BY <2>1, <1>1, FrameFacts
  <2> QED BY <2>2, <2>3 DEF Follows, Grown
<1>3. ComputedIn(cols, goal.key) \subseteq ComputedIn(later, goal.key)
  BY DEF Grown
<1> QED BY <1>2, <1>3 DEF StackSound

(* A right column over some rows, stored, leaves every column right.       *)
LEMMA StoredSound ==
    ASSUME program \in Programs, cells \in [Rows -> Cells],
           ColumnsSound(program, cells, columns),
           NEW k \in Keys, NEW col \in [Rows -> Int], NEW errors \in ErrorsType,
           NEW rows \in SUBSET Rows, DOMAIN errors \subseteq rows,
           \A r \in rows : RuleRight(program, cells[r], k, col, errors, r),
           NEW cols, cols = Stored(k, col, errors, rows)
    PROVE  /\ ColumnsSound(program, cells, cols)
           /\ Grown(columns, cols)
           /\ rows \subseteq ComputedIn(cols, k)
           /\ k \in DOMAIN cols
<1>1. PICK p, cs, olds : p = program /\ cs = cells /\ olds = columns
  OBVIOUS
<1>2. /\ DOMAIN olds \subseteq Keys
      /\ \A j \in DOMAIN olds : olds[j] \in ColumnType /\ ColumnRight(p, cs, j, olds[j])
  BY <1>1 DEF ColumnsSound
<1>3. PICK column : /\ cols = Insert(olds, k, column)
                    /\ column \in ColumnType /\ ColumnRight(p, cs, k, column)
                    /\ rows \subseteq column.computed
                    /\ k \in DOMAIN olds => olds[k].computed \subseteq column.computed
  <2>1. CASE k \notin DOMAIN olds
    <3>1. PICK column : column = [vals |-> col, errors |-> errors, computed |-> rows]
      OBVIOUS
    <3>2. column.vals = col /\ column.errors = errors /\ column.computed = rows
      BY <3>1
    <3>3. column \in ColumnType
      BY <3>1 DEF ColumnType
    <3>4. ColumnRight(p, cs, k, column)
      BY <3>2, <1>1 DEF ColumnRight
    <3>5. cols = Insert(olds, k, column)
      BY <3>1, <2>1, <1>1 DEF Stored
    <3> QED BY <3>2, <3>3, <3>4, <3>5, <2>1
  <2>2. CASE k \in DOMAIN olds
    <3>1. PICK old : old = olds[k]
      OBVIOUS
    <3>2. /\ old \in ColumnType /\ ColumnRight(p, cs, k, old)
          /\ old.vals \in [Rows -> Int] /\ old.errors \in ErrorsType
          /\ old.computed \in SUBSET Rows
      BY <3>1, <2>2, <1>2 DEF ColumnType
    <3>3. PICK vals : vals = [r \in Rows |-> IF r \in rows \ DOMAIN errors THEN col[r] ELSE old.vals[r]]
      OBVIOUS
    <3>4. PICK both : both = Absorb(old.errors, errors)
      OBVIOUS
    <3>5. /\ both \in ErrorsType /\ DOMAIN both = DOMAIN old.errors \cup DOMAIN errors
          /\ \A r \in DOMAIN old.errors : both[r] = old.errors[r]
          /\ \A r \in DOMAIN errors \ DOMAIN old.errors : both[r] = errors[r]
      <4>1. PICK olderrs : olderrs = old.errors
        OBVIOUS
      <4>2. olderrs \in ErrorsType /\ both = Absorb(olderrs, errors)
        BY <4>1, <3>2, <3>4
      <4>3. /\ both \in ErrorsType /\ DOMAIN both = DOMAIN olderrs \cup DOMAIN errors
            /\ \A r \in DOMAIN olderrs : both[r] = olderrs[r]
            /\ \A r \in DOMAIN errors \ DOMAIN olderrs : both[r] = errors[r]
        BY ONLY <4>2, AbsorbFacts, errors \in ErrorsType
      <4> QED BY <4>1, <4>3
    <3>6. PICK column : column = [vals |-> vals, errors |-> both, computed |-> old.computed \cup rows]
      OBVIOUS
    <3>7. /\ column.vals = vals /\ column.errors = both
          /\ column.computed = old.computed \cup rows
      BY <3>6
    <3>8. column \in ColumnType
      <4>1. vals \in [Rows -> Int]
        BY <3>2, <3>3
      <4> QED BY <4>1, <3>2, <3>5, <3>6 DEF ColumnType
    <3>9. /\ DOMAIN old.errors \subseteq old.computed
          /\ \A r \in old.computed : RuleRight(p, cs[r], k, old.vals, old.errors, r)
      BY <3>2 DEF ColumnRight
    <3>10. ASSUME NEW r \in column.computed
           PROVE  RuleRight(p, cs[r], k, vals, both, r)
      <4>0. r \in Rows
        BY <3>2, <3>7
      <4>1. CASE r \in DOMAIN old.errors
        BY <4>1, <3>5, <3>9 DEF RuleRight
      <4>2. CASE r \in DOMAIN errors /\ r \notin DOMAIN old.errors
        <5>1. RuleRight(p, cs[r], k, col, errors, r)
          BY <4>2, <1>1
        <5> QED BY <4>2, <5>1, <3>5 DEF RuleRight
      <4>3. CASE r \notin DOMAIN errors /\ r \notin DOMAIN old.errors
        <5>1. r \notin DOMAIN both
          BY <4>3, <3>5
        <5>2. CASE r \in rows
          <6>1. RuleRight(p, cs[r], k, col, errors, r) /\ vals[r] = col[r]
            BY <4>0, <4>3, <5>2, <1>1, <3>3
          <6> QED BY <4>3, <5>1, <6>1 DEF RuleRight
        <5>3. CASE r \notin rows
          <6>1. RuleRight(p, cs[r], k, old.vals, old.errors, r) /\ vals[r] = old.vals[r]
            BY <4>0, <5>3, <3>3, <3>7, <3>9
          <6> QED BY <4>3, <5>1, <6>1 DEF RuleRight
        <5> QED BY <5>2, <5>3
      <4> QED BY <4>1, <4>2, <4>3
    <3>11. ColumnRight(p, cs, k, column)
      BY <3>5, <3>7, <3>9, <3>10 DEF ColumnRight
    <3>12. cols = Insert(olds, k, column)
      BY <3>1, <3>3, <3>4, <3>6, <2>2, <1>1 DEF Stored
    <3> QED BY <3>1, <3>7, <3>8, <3>11, <3>12
  <2> QED BY <2>1, <2>2
<1>4. /\ DOMAIN cols = DOMAIN olds \cup {k}
      /\ \A j \in DOMAIN cols : cols[j] = IF j = k THEN column ELSE olds[j]
  BY <1>3 DEF Insert
<1>5. ColumnsSound(p, cs, cols)
  BY <1>2, <1>3, <1>4 DEF ColumnsSound
<1>6. Grown(olds, cols)
  BY <1>3, <1>4 DEF Grown, ComputedIn
<1> QED BY <1>1, <1>3, <1>4, <1>5, <1>6 DEF ComputedIn

-----------------------------------------------------------------------------
(* The request. While an output is pending, one of them comes first.       *)
LEMMA RowsFacts == Rows \in SUBSET Nat
<1>1. IsFiniteSet(Rows) /\ Rows = 1..Cardinality(Rows)
  BY BulkAssumption DEF WellTyped
<1>2. Cardinality(Rows) \in Nat
  BY <1>1, FS_CardinalityType
<1> QED BY <1>1, <1>2

LEMMA OutputPending ==
    ASSUME request \in [Rows -> Seq(Rules)], Pending # {}
    PROVE  Output \in Pending
<1> DEFINE First(x) == CHOOSE r \in RowsAsking(x) : \A s \in RowsAsking(x) : r <= s
           At(x) == CHOOSE i \in 1..Len(request[First(x)]) :
                        /\ request[First(x)][i] = x
                        /\ \A j \in 1..(i - 1) : request[First(x)][j] # x
<1>1. \A r \in Rows : Len(request[r]) \in Nat
  OBVIOUS
<1>2. ASSUME NEW x \in Asked
      PROVE  First(x) \in Rows /\ First(x) \in Nat /\ First(x) \in RowsAsking(x)
  <2>1. PICK S : S = RowsAsking(x)
    OBVIOUS
  <2>2. S # {} /\ S \in SUBSET Nat /\ S \in SUBSET Rows
    BY <2>1, RowsFacts DEF Asked, RowsAsking
  <2>3. \E r \in S : \A s \in S : r <= s
    BY <2>2, LeastNumber
  <2>4. First(x) \in S
    BY <2>1, <2>3
  <2> HIDE DEF First
  <2> QED BY <2>1, <2>2, <2>4
<1>3. \A x, y : AskedBefore(x, y) <=>
                  First(x) < First(y) \/ (First(x) = First(y) /\ At(x) < At(y))
  BY DEF AskedBefore
<1> HIDE DEF First
<1>4. ASSUME NEW x \in Asked
      PROVE  At(x) \in Nat /\ request[First(x)][At(x)] = x
  <2>1. PICK s : s = request[First(x)]
    OBVIOUS
  <2>2. Len(s) \in Nat /\ \E i \in 1..Len(s) : s[i] = x
    BY <2>1, <1>1, <1>2 DEF RowsAsking
  <2>3. PICK S : S = {i \in 1..Len(s) : s[i] = x}
    OBVIOUS
  <2>4. S \in SUBSET Nat /\ S # {}
    BY <2>2, <2>3
  <2>5. PICK i \in S : \A j \in S : i <= j
    BY <2>4, LeastNumber
  <2>6. i \in 1..Len(s) /\ s[i] = x
    BY <2>3, <2>5
  <2>7. ASSUME NEW j \in 1..(i - 1)
        PROVE  s[j] # x
    <3>1. j \in 1..Len(s) /\ ~(i <= j)
      BY <2>2, <2>6
    <3> QED BY <3>1, <2>3, <2>5
  <2>8. \E k \in 1..Len(s) : s[k] = x /\ \A j \in 1..(k - 1) : s[j] # x
    BY <2>6, <2>7
  <2>9. At(x) \in 1..Len(s) /\ s[At(x)] = x
    BY <2>1, <2>8
  <2> HIDE DEF At
  <2> QED BY <2>1, <2>2, <2>9
<1> HIDE DEF At
<1>5. \A x \in Pending : x \in Asked
  BY DEF Pending
<1>6. PICK m \in {n \in Nat : \E x \in Pending : First(x) = n} :
        \A k \in {n \in Nat : \E x \in Pending : First(x) = n} : m <= k
  <2> DEFINE S == {n \in Nat : \E x \in Pending : First(x) = n}
  <2>1. S # {} /\ S \in SUBSET Nat
    BY <1>2, <1>5
  <2> HIDE DEF S
  <2>2. \E k \in S : \A j \in S : k <= j
    BY <2>1, LeastNumber
  <2> QED BY <2>2 DEF S
<1>7. PICK a \in {n \in Nat : \E x \in Pending : First(x) = m /\ At(x) = n} :
        \A k \in {n \in Nat : \E x \in Pending : First(x) = m /\ At(x) = n} : a <= k
  <2> DEFINE S == {n \in Nat : \E x \in Pending : First(x) = m /\ At(x) = n}
  <2>1. S # {} /\ S \in SUBSET Nat
    BY <1>4, <1>5, <1>6
  <2> HIDE DEF S
  <2>2. \E k \in S : \A j \in S : k <= j
    BY <2>1, LeastNumber
  <2> QED BY <2>2 DEF S
<1>8. PICK x \in Pending : First(x) = m /\ At(x) = a
  BY <1>7
<1>9. ASSUME NEW y \in Pending \ {x}
      PROVE  AskedBefore(x, y)
  <2>1. First(y) \in Nat /\ At(y) \in Nat /\ m \in Nat /\ a \in Nat
    BY <1>2, <1>4, <1>5, <1>6, <1>7
  <2>2. m <= First(y)
    BY <2>1, <1>6
  <2>3. CASE First(y) = m
    <3>1. a <= At(y)
      BY <2>1, <2>3, <1>7
    <3>2. At(y) # a
      BY <2>3, <1>4, <1>5, <1>8
    <3> QED BY <2>1, <2>3, <3>1, <3>2, <1>3, <1>8
  <2>4. CASE First(y) # m
    BY <2>1, <2>2, <2>4, <1>3, <1>8
  <2> QED BY <2>3, <2>4
<1> QED BY <1>8, <1>9 DEF Output

(* What the request asks for.                                              *)
LEMMA AskedFacts ==
    ASSUME program \in Programs, request \in [Rows -> Seq(Rules)]
    PROVE  /\ Asked \subseteq Rules
           /\ \A name \in Rules : OutputKey(name) \in Keys
           /\ \A name : RowsAsking(name) \subseteq Rows
           /\ \A r \in Rows : \A i \in 1..Len(request[r]) :
                 request[r][i] \in Asked /\ r \in RowsAsking(request[r][i])
<1>1. \A name \in Rules : OutputKey(name) \in Keys
  BY BulkAssumption DEF WellTyped, OutputKey, Keys
<1>2. ASSUME NEW r \in Rows, NEW i \in 1..Len(request[r])
      PROVE  request[r][i] \in Asked /\ r \in RowsAsking(request[r][i])
  <2>1. request[r][i] \in Rules
    OBVIOUS
  <2>2. r \in RowsAsking(request[r][i])
    BY DEF RowsAsking
  <2> QED BY <2>1, <2>2 DEF Asked
<1> QED BY <1>1, <1>2 DEF Asked, RowsAsking

(* Columns that have every output explain gives answer as explain does.    *)
LEMMA AssembledRight ==
    ASSUME program \in Programs, request \in [Rows -> Seq(Rules)], NEW values,
           \A name \in Asked : \A r \in RowsAsking(name) :
               OutcomeFor(r, name) = Ok(values[name][r])
    PROVE  Assemble(values).result = Explained /\ Assemble(values).mode = "fast"
<1>1. \A r \in Rows : \A i \in 1..Len(request[r]) :
         OutcomeFor(r, request[r][i]) = Ok(values[request[r][i]][r])
  BY AskedFacts
<1>2. \A r \in Rows : Len(request[r]) \in Nat
  OBVIOUS
<1>3. {ri \in UNION {{r} \X (1..Len(request[r])) : r \in Rows} :
         ~OutcomeFor(ri[1], request[ri[1]][ri[2]]).ok} = {}
  <2>1. ASSUME NEW r \in Rows, NEW ri \in {r} \X (1..Len(request[r]))
        PROVE  OutcomeFor(ri[1], request[ri[1]][ri[2]]).ok
    <3>1. ri[1] = r /\ ri[2] \in 1..Len(request[r])
      OBVIOUS
    <3>2. OutcomeFor(ri[1], request[ri[1]][ri[2]]) = Ok(values[request[ri[1]][ri[2]]][ri[1]])
      BY <3>1, <1>1
    <3> QED BY <3>2, OkFacts
  <2> QED BY <2>1
<1>4. Explained = Ok([r \in Rows |-> [name \in {request[r][i] : i \in 1..Len(request[r])} |->
                        OutcomeFor(r, name).val]])
  BY <1>3 DEF Explained
<1>5. ASSUME NEW r \in Rows
      PROVE  [name \in {request[r][i] : i \in 1..Len(request[r])} |-> OutcomeFor(r, name).val]
               = [name \in {request[r][i] : i \in 1..Len(request[r])} |-> values[name][r]]
  <2>1. \A name \in {request[r][i] : i \in 1..Len(request[r])} :
           OutcomeFor(r, name).val = values[name][r]
    BY <1>1, OkFacts
  <2> QED BY <2>1
<1>6. [r \in Rows |-> [name \in {request[r][i] : i \in 1..Len(request[r])} |->
                        OutcomeFor(r, name).val]]
        = [r \in Rows |-> [name \in {request[r][i] : i \in 1..Len(request[r])} |->
                        values[name][r]]]
  BY <1>5
<1> QED BY <1>4, <1>6 DEF Assemble

(* While the request stands, so does what it asks and what explain says.   *)
LEMMA RequestStays ==
    ASSUME UNCHANGED input
    PROVE  /\ Asked' = Asked /\ Explained' = Explained
           /\ \A name : RowsAsking(name)' = RowsAsking(name)
           /\ \A r, name : OutcomeFor(r, name)' = OutcomeFor(r, name)
<1>1. program' = program /\ cells' = cells /\ request' = request
  BY DEF input
<1>2. Asked' = Asked
  BY <1>1 DEF Asked, RowsAsking
<1>3. Explained' = Explained
  BY <1>1 DEF Explained, OutcomeFor, OutputKey
<1>4. \A name : RowsAsking(name)' = RowsAsking(name)
  BY <1>1 DEF RowsAsking
<1>5. \A r, name : OutcomeFor(r, name)' = OutcomeFor(r, name)
  BY <1>1 DEF OutcomeFor, OutputKey
<1> QED BY <1>2, <1>3, <1>4, <1>5

LEMMA GoalStays ==
    ASSUME UNCHANGED <<input, evaluated, tasks>>
    PROVE  Goal' = Goal
<1>1. program' = program /\ request' = request /\ evaluated' = evaluated /\ tasks' = tasks
  BY DEF input
<1>2. Output' = Output
  BY <1>1 DEF Output, Pending, AskedBefore, Asked, RowsAsking
<1>3. RowsAsking(Output)' = RowsAsking(Output)
  BY <1>1, <1>2 DEF RowsAsking
<1>4. OutputKey(Output)' = OutputKey(Output)
  BY <1>1, <1>2 DEF OutputKey
<1> QED BY <1>1, <1>3, <1>4 DEF Goal

-----------------------------------------------------------------------------
(* The driver.                                                             *)
LEMMA GoalFacts ==
    ASSUME Inductive, Running, Asked # {}
    PROVE  /\ Goal.key \in Keys /\ Goal.rows \in SUBSET Rows
           /\ Output \in Pending /\ Output \in Asked /\ Output \notin DOMAIN evaluated
           /\ tasks = <<>> => Goal.key = OutputKey(Output) /\ Goal.rows = RowsAsking(Output)
<1>1. /\ program \in Programs /\ request \in [Rows -> Seq(Rules)] /\ tasks \in Seq(TaskType)
      /\ Pending # {}
  BY DEF Inductive, Typed, EvaluatedRight
<1>2. Output \in Pending
  BY <1>1, OutputPending
<1>3. Output \in Asked /\ Output \notin DOMAIN evaluated /\ Output \in Rules
  BY <1>1, <1>2, AskedFacts DEF Pending
<1>4. CASE tasks = <<>>
  <2>1. OutputKey(Output) \in Keys /\ RowsAsking(Output) \in SUBSET Rows
    BY <1>1, <1>3, AskedFacts
  <2> QED BY <2>1, <1>2, <1>3, <1>4 DEF Goal
<1>5. CASE tasks # <<>>
  <2>1. Len(tasks) \in 1..Len(tasks)
    BY <1>1, <1>5
  <2>2. Goal = tasks[Len(tasks)] /\ Goal \in TaskType
    BY <2>1, <1>1, <1>5 DEF Goal
  <2> QED BY <2>2, <1>2, <1>3, <1>5 DEF TaskType
<1> QED BY <1>4, <1>5

(* Leaving the request to explain keeps what has been computed right.      *)
LEMMA DeclineStep ==
    ASSUME Inductive, Decline, UNCHANGED input, ColumnsRight'
    PROVE  Inductive'
<1>1. /\ stack' = <<>> /\ tasks' = <<>> /\ evaluated' = evaluated
      /\ response'.mode = "explain" /\ response' # Unanswered
      /\ program' = program /\ cells' = cells /\ request' = request
  BY DEF Decline, input, Unanswered
<1>2. Typed'
  BY <1>1 DEF Inductive, Typed
<1>3. StackRight'
  BY <1>1, StackEmpty DEF StackRight
<1>4. TasksRight' /\ FastEqualsExplain'
  BY <1>1 DEF TasksRight, FastEqualsExplain
<1>5. EvaluatedRight'
  BY <1>1 DEF Inductive, EvaluatedRight, Running, Asked, RowsAsking, OutcomeFor, OutputKey
<1> QED BY <1>2, <1>3, <1>4, <1>5 DEF Inductive

(* A step that leaves the driver and the answers alone.                    *)
LEMMA StackStep ==
    ASSUME Inductive, UNCHANGED <<input, evaluated, tasks, response>>,
           Running, Asked # {}, ColumnsRight',
           StackSound(program, cells, columns', Goal, stack')
    PROVE  Inductive'
<1>1. /\ program' = program /\ cells' = cells /\ request' = request
      /\ evaluated' = evaluated /\ tasks' = tasks /\ response' = response
  BY DEF input
<1>2. Typed' /\ TasksRight'
  BY <1>1 DEF Inductive, Typed, TasksRight, Running, Asked, RowsAsking
<1>3. Goal' = Goal /\ Running' /\ Asked' # {}
  BY <1>1, RequestStays, GoalStays DEF Running
<1>4. StackRight'
  BY <1>1, <1>3 DEF StackRight
<1>5. EvaluatedRight'
  BY <1>1 DEF Inductive, EvaluatedRight, Running, Asked, RowsAsking, OutcomeFor, OutputKey, Pending
<1>6. FastEqualsExplain'
  BY <1>1, RequestStays DEF Inductive, FastEqualsExplain
<1> QED BY <1>2, <1>4, <1>5, <1>6 DEF Inductive

(* The goal's rows are computed, and right.                                *)
LEMMA CompleteStep ==
    ASSUME Inductive, Running, Asked # {}, UNCHANGED input,
           NEW cols, columns' = cols, ColumnsSound(program, cells, cols),
           Goal.rows \subseteq ComputedIn(cols, Goal.key),
           CompleteGoal(cols)
    PROVE  Inductive'
<1>1. /\ program' = program /\ cells' = cells /\ request' = request
  BY DEF input
<1>2. ColumnsRight'
  BY <1>1 DEF ColumnsRight
<1>3. /\ program \in Programs /\ cells \in [Rows -> Cells] /\ request \in [Rows -> Seq(Rules)]
      /\ tasks \in Seq(TaskType)
  BY DEF Inductive, Typed
<1>4. CASE tasks # <<>>
  <2>1. /\ stack' = <<>> /\ tasks' = Pop(tasks) /\ evaluated' = evaluated /\ response' = response
    BY <1>4 DEF CompleteGoal
  <2>2. Len(tasks) > 0 /\ Len(tasks) \in Nat
    BY <1>3, <1>4
  <2>3. tasks' \in Seq(TaskType)
    BY <2>1, <2>2, <1>3, PopFacts
  <2>4. Typed'
    BY <1>1, <2>3 DEF Inductive, Typed
  <2>5. StackRight' /\ TasksRight'
    BY <1>1, <2>1, StackEmpty DEF StackRight, TasksRight, Running, Asked, RowsAsking
  <2>6. EvaluatedRight'
    BY <1>1, <2>1 DEF Inductive, EvaluatedRight, Running, Asked, RowsAsking, OutcomeFor,
                      OutputKey, Pending
  <2>7. FastEqualsExplain'
    BY <2>1, RequestStays DEF Inductive, FastEqualsExplain
  <2> QED BY <1>2, <2>4, <2>5, <2>6, <2>7 DEF Inductive
<1>5. CASE tasks = <<>> /\ RestrictedTo(cols[Goal.key].errors, Goal.rows) # NoErrors
  <2>1. Decline
    BY <1>5 DEF CompleteGoal
  <2> QED BY <2>1, <1>2, DeclineStep
<1>6. CASE tasks = <<>> /\ RestrictedTo(cols[Goal.key].errors, Goal.rows) = NoErrors
  <2>1. PICK k : k = Goal.key
    OBVIOUS
  <2>2. PICK name : name = Output
    OBVIOUS
  <2>3. /\ k \in Keys /\ k = OutputKey(name) /\ Goal.rows = RowsAsking(name)
        /\ RowsAsking(name) \in SUBSET Rows
        /\ name \in Pending /\ name \in Asked /\ name \notin DOMAIN evaluated
    BY <1>6, <2>1, <2>2, GoalFacts
  <2>4. k.rule = name
    BY <2>3 DEF OutputKey
  <2>5. PICK column : column = cols[k]
    OBVIOUS
  <2>6. PICK now : now = Insert(evaluated, name, column.vals)
    OBVIOUS
  <2>7. /\ evaluated' = now /\ stack' = <<>> /\ tasks' = tasks
        /\ response' = IF Pending = {name} THEN Assemble(now) ELSE response
    BY <1>6, <2>1, <2>2, <2>4, <2>5, <2>6 DEF CompleteGoal
  <2>8. /\ DOMAIN now = DOMAIN evaluated \cup {name}
        /\ now[name] = column.vals
        /\ \A x \in DOMAIN evaluated : now[x] = evaluated[x]
    BY <2>3, <2>6 DEF Insert
  <2>9. ASSUME NEW r \in RowsAsking(name)
        PROVE  OutcomeFor(r, name) = Ok(now[name][r])
    <3>1. k \in DOMAIN cols /\ r \in column.computed
      BY <2>1, <2>3, <2>5 DEF ComputedIn
    <3>2. column \in ColumnType /\ RuleRight(program, cells[r], k, column.vals, column.errors, r)
      BY <3>1, <2>5 DEF ColumnsSound, ColumnRight
    <3>3. r \notin DOMAIN column.errors
      <4>1. column.errors \in ErrorsType
        BY <3>2 DEF ColumnType
      <4>2. PICK errors : errors = RestrictedTo(column.errors, RowsAsking(name))
        OBVIOUS
      <4>3. DOMAIN errors = DOMAIN column.errors \cap RowsAsking(name)
        BY <4>1, <4>2, RestrictedFacts
      <4>4. errors = NoErrors
        BY <4>2, <1>6, <2>1, <2>3, <2>5
      <4> QED BY <4>3, <4>4, NoErrorsFacts
    <3> QED BY <3>2, <3>3, <2>3, <2>8 DEF RuleRight, OutcomeFor
  <2>10. ASSUME NEW x \in DOMAIN now, NEW r \in RowsAsking(x)
         PROVE  OutcomeFor(r, x) = Ok(now[x][r])
    BY <2>8, <2>9, <2>10 DEF Inductive, EvaluatedRight
  <2>11. DOMAIN now \subseteq Asked
    BY <2>3, <2>8 DEF Inductive, EvaluatedRight
  <2>12. Typed'
    BY <1>1, <2>7 DEF Inductive, Typed
  <2>13. StackRight' /\ TasksRight'
    BY <1>6, <2>7, StackEmpty DEF StackRight, TasksRight
  <2>14. Asked' = Asked /\ Pending' = Pending \ {name}
    BY <1>1, <2>7, <2>8 DEF Asked, RowsAsking, Pending
  <2>15. Running' => Pending' # {}
    <3>1. Assemble(now) # Unanswered
      BY DEF Assemble, Unanswered
    <3>2. Running' => Pending # {name}
      BY <2>7, <3>1 DEF Running
    <3> QED BY <2>3, <2>14, <3>2
  <2>16. EvaluatedRight'
    <3> QED BY <2>7, <2>10, <2>11, <2>14, <2>15, RequestStays DEF EvaluatedRight
  <2>17. FastEqualsExplain'
    <3>1. Explained' = Explained
      BY RequestStays
    <3>2. CASE Pending = {name}
      <4>1. Asked \subseteq DOMAIN now
        BY <3>2, <2>8 DEF Pending
      <4>2. \A x \in Asked : \A r \in RowsAsking(x) : OutcomeFor(r, x) = Ok(now[x][r])
        BY <4>1, <2>10
      <4>3. Assemble(now).result = Explained
        BY <4>2, <1>3, AssembledRight
      <4> QED BY <4>3, <3>1, <3>2, <2>7 DEF FastEqualsExplain
    <3>3. CASE Pending # {name}
      BY <3>1, <3>3, <2>7 DEF Inductive, FastEqualsExplain
    <3> QED BY <3>2, <3>3
  <2> QED BY <1>2, <2>12, <2>13, <2>16, <2>17 DEF Inductive
<1> QED BY <1>4, <1>5, <1>6

-----------------------------------------------------------------------------
(* What the invariant says of the innermost frame.                         *)
LEMMA TopFacts ==
    ASSUME Inductive, stack # <<>>
    PROVE  /\ program \in Programs /\ cells \in [Rows -> Cells]
           /\ Running /\ Asked # {} /\ Goal.key \in Keys
           /\ ColumnsSound(program, cells, columns)
           /\ StackSound(program, cells, columns, Goal, stack)
           /\ Len(stack) \in Nat \ {0}
           /\ Top = stack[Len(stack)]
           /\ Top \in FrameType /\ FrameSound(program, cells, Top) /\ BodySound(program, Top)
           /\ Top.key \in Keys /\ Top.expr \in Exprs /\ Top.mask \in SUBSET Rows
<1>1. /\ program \in Programs /\ cells \in [Rows -> Cells]
      /\ Running /\ Asked # {}
      /\ ColumnsSound(program, cells, columns)
      /\ StackSound(program, cells, columns, Goal, stack)
  BY DEF Inductive, Typed, ColumnsRight, StackRight
<1>2. Goal.key \in Keys
  BY <1>1, GoalFacts
<1>3. stack \in Seq(FrameType) /\ Len(stack) \in Nat \ {0} /\ Len(stack) \in 1..Len(stack)
  BY <1>1 DEF StackSound
<1>4. Top = stack[Len(stack)]
  BY DEF Top, Depth
<1>5. Top \in FrameType /\ FrameSound(program, cells, Top) /\ BodySound(program, Top)
  BY <1>1, <1>3, <1>4 DEF StackSound
<1> QED BY <1>1, <1>2, <1>3, <1>4, <1>5, FrameFacts

(* The rows of a column that are not computed yet.                         *)
LEMMA UncomputedFacts ==
    ASSUME NEW k, NEW mask
    PROVE  Uncomputed(k, mask) = mask \ ComputedIn(columns, k)
BY DEF Uncomputed, ComputedIn

(* A rule that is refused is refused in every row.                         *)
LEMMA RefusedStored ==
    ASSUME program \in Programs, cells \in [Rows -> Cells],
           ColumnsSound(program, cells, columns),
           NEW k \in Keys, Refusal(k) # "none", NEW rows \in SUBSET Rows,
           NEW cols, cols = Stored(k, Placeholder, Fail(rows, Refusal(k)), rows)
    PROVE  /\ ColumnsSound(program, cells, cols)
           /\ Grown(columns, cols)
           /\ rows \subseteq ComputedIn(cols, k)
           /\ k \in DOMAIN cols
<1>1. PICK errors : errors = Fail(rows, Refusal(k))
  OBVIOUS
<1>2. PICK col : col = Placeholder
  OBVIOUS
<1>3. RefusalOf(program, k) # "none" /\ Refusal(k) \in ErrorNames /\ Refusal(k) = RefusalOf(program, k)
  BY BodyFacts DEF Refusal
<1>4. /\ errors \in ErrorsType /\ DOMAIN errors = rows
      /\ \A r \in rows : errors[r] = RefusalOf(program, k)
  BY <1>1, <1>3, FailFacts
<1>5. ASSUME NEW r \in rows
      PROVE  RuleRight(program, cells[r], k, col, errors, r)
  <2>1. cells[r] \in Cells
    OBVIOUS
  <2>2. Meaning(program, cells[r], k) = Err(RefusalOf(program, k))
    BY <2>1, <1>3, MeaningRule
  <2> QED BY <2>2, <1>4 DEF RuleRight
<1>6. col \in [Rows -> Int]
  BY <1>2 DEF Placeholder
<1>7. cols = Stored(k, col, errors, rows)
  BY <1>1, <1>2
<1> QED BY <1>4, <1>5, <1>6, <1>7, StoredSound

(* A read whose column has all its rows, delivered to its node.            *)
LEMMA ReadOutSound ==
    ASSUME NEW p \in Programs, NEW cs \in [Rows -> Cells], NEW cols, ColumnsSound(p, cs, cols),
           NEW goal, NEW st, StackSound(p, cs, cols, goal, st), st # <<>>,
           NEW f, f = st[Len(st)], f.expr.op = "derived", f.n = 0,
           f.mask \subseteq ComputedIn(cols, f.expr.key)
    PROVE  StackSound(p, cs, cols, goal, ReadOut(st, cols, f.expr.key))
<1>1. PICK column : column = cols[f.expr.key]
  OBVIOUS
<1>4. st \in Seq(FrameType) /\ Len(st) \in 1..Len(st)
  BY DEF StackSound
<1>5. f \in FrameType /\ FrameSound(p, cs, f)
  BY <1>4 DEF StackSound
<1>2. /\ column \in ColumnType /\ ColumnRight(p, cs, f.expr.key, column)
      /\ f.mask \subseteq column.computed
  <2>1. f.expr.key \in DOMAIN cols
    BY <1>5 DEF FrameSound, ComputedIn
  <2> QED BY <2>1, <1>1 DEF ColumnsSound, ComputedIn
<1>3. PICK g : g = ReadFrame(f, column)
  OBVIOUS
<1>6. /\ g \in FrameType /\ FrameSound(p, cs, g)
      /\ g.key = f.key /\ g.expr = f.expr /\ g.mask = f.mask /\ g.body = f.body
  BY <1>2, <1>3, <1>5, ReadFrameSound
<1>7. StackSound(p, cs, cols, goal, Append(Pop(st), g))
  BY <1>6, StackReplaces
<1>8. ReadOut(st, cols, f.expr.key) = Append(Pop(st), g)
  BY <1>1, <1>3 DEF ReadOut, ReadFrame
<1> QED BY <1>7, <1>8

-----------------------------------------------------------------------------
(* The steps.                                                              *)
LEMMA AnswerNothingStep ==
    ASSUME Inductive, AnswerNothing
    PROVE  Inductive'
<1>1. /\ UNCHANGED <<input, columns, evaluated, driver>> /\ Asked = {} /\ Running
      /\ response' = Assemble(evaluated)
  BY DEF AnswerNothing
<1>2. /\ program' = program /\ cells' = cells /\ request' = request /\ columns' = columns
      /\ evaluated' = evaluated /\ stack' = stack /\ tasks' = tasks
  BY <1>1 DEF input, driver
<1>3. program \in Programs /\ request \in [Rows -> Seq(Rules)]
  BY DEF Inductive, Typed
<1>4. Typed' /\ ColumnsRight'
  BY <1>2 DEF Inductive, Typed, ColumnsRight
<1>5. stack = <<>> /\ tasks = <<>>
  BY <1>1 DEF Inductive, StackRight, TasksRight
<1>6. StackRight' /\ TasksRight'
  BY <1>2, <1>5, StackEmpty DEF StackRight, TasksRight
<1>7. EvaluatedRight'
  BY <1>1, <1>2, RequestStays DEF Inductive, EvaluatedRight
<1>8. Assemble(evaluated).result = Explained
  BY <1>1, <1>3, AssembledRight
<1>9. FastEqualsExplain'
  BY <1>1, <1>8, RequestStays DEF FastEqualsExplain
<1> QED BY <1>4, <1>6, <1>7, <1>9 DEF Inductive

LEMMA DeclineOutputStep ==
    ASSUME Inductive, DeclineOutput
    PROVE  Inductive'
<1>1. Decline /\ UNCHANGED input /\ columns' = columns
  BY DEF DeclineOutput
<1>2. ColumnsRight'
  BY <1>1 DEF Inductive, ColumnsRight, input
<1> QED BY <1>1, <1>2, DeclineStep

LEMMA AttemptFacts ==
    ASSUME Inductive, Attempting
    PROVE  /\ Running /\ Asked # {} /\ stack = <<>>
           /\ program \in Programs /\ cells \in [Rows -> Cells]
           /\ ColumnsSound(program, cells, columns)
           /\ Goal.key \in Keys /\ Goal.rows \in SUBSET Rows
           /\ Uncomputed(Goal.key, Goal.rows) = Goal.rows \ ComputedIn(columns, Goal.key)
<1>1. Running /\ Asked # {} /\ stack = <<>>
  BY DEF Attempting
<1> QED BY <1>1, GoalFacts, UncomputedFacts DEF Inductive, Typed, ColumnsRight

LEMMA AttemptCachedStep ==
    ASSUME Inductive, AttemptCached
    PROVE  Inductive'
<1>1. /\ Attempting /\ Uncomputed(Goal.key, Goal.rows) = {}
      /\ CompleteGoal(columns) /\ UNCHANGED <<input, columns>>
  BY DEF AttemptCached
<1>2. /\ Running /\ Asked # {} /\ ColumnsSound(program, cells, columns)
      /\ Goal.rows \subseteq ComputedIn(columns, Goal.key)
  BY <1>1, AttemptFacts
<1>3. PICK cols : cols = columns
  OBVIOUS
<1>4. /\ columns' = cols /\ ColumnsSound(program, cells, cols) /\ CompleteGoal(cols)
      /\ Goal.rows \subseteq ComputedIn(cols, Goal.key) /\ UNCHANGED input
  BY <1>1, <1>2, <1>3
<1> QED BY <1>2, <1>4, CompleteStep

LEMMA AttemptRefusedStep ==
    ASSUME Inductive, AttemptRefused
    PROVE  Inductive'
<1>1. PICK rows : rows = Uncomputed(Goal.key, Goal.rows)
  OBVIOUS
<1>2. PICK k : k = Goal.key
  OBVIOUS
<1>3. PICK cols : cols = Stored(k, Placeholder, Fail(rows, Refusal(k)), rows)
  OBVIOUS
<1>4. /\ Attempting /\ Refusal(k) # "none" /\ columns' = cols /\ CompleteGoal(cols)
      /\ UNCHANGED input
  BY <1>1, <1>2, <1>3 DEF AttemptRefused
<1>5. /\ Running /\ Asked # {} /\ program \in Programs /\ cells \in [Rows -> Cells]
      /\ ColumnsSound(program, cells, columns) /\ k \in Keys /\ rows \in SUBSET Rows
      /\ rows = Goal.rows \ ComputedIn(columns, k)
  BY <1>1, <1>2, <1>4, AttemptFacts
<1>6. /\ ColumnsSound(program, cells, cols) /\ Grown(columns, cols)
      /\ rows \subseteq ComputedIn(cols, k)
  BY <1>3, <1>4, <1>5, RefusedStored
<1>7. Goal.rows \subseteq ComputedIn(cols, Goal.key)
  BY <1>2, <1>5, <1>6 DEF Grown
<1> QED BY <1>4, <1>5, <1>6, <1>7, CompleteStep

LEMMA AttemptStep ==
    ASSUME Inductive, Attempt
    PROVE  Inductive'
<1>1. PICK rows : rows = Uncomputed(Goal.key, Goal.rows)
  OBVIOUS
<1>2. PICK k : k = Goal.key
  OBVIOUS
<1>3. PICK e : e = Body(program, k.rule)
  OBVIOUS
<1>4. PICK g : g = Node(k, e, rows, TRUE)
  OBVIOUS
<1>5. /\ Attempting /\ Refusal(k) = "none" /\ stack' = <<g>> /\ rows # {}
      /\ UNCHANGED <<input, evaluated, tasks, response>> /\ columns' = columns
  BY <1>1, <1>2, <1>3, <1>4 DEF Attempt
<1>6. /\ Running /\ Asked # {} /\ program \in Programs /\ cells \in [Rows -> Cells]
      /\ ColumnsSound(program, cells, columns) /\ k \in Keys /\ rows \in SUBSET Rows
      /\ rows = Goal.rows \ ComputedIn(columns, k)
  BY <1>1, <1>2, <1>5, AttemptFacts
<1>7. e \in Exprs
  BY <1>3, <1>6, BodyFacts
<1>8. /\ g \in FrameType /\ FrameSound(program, cells, g)
      /\ g.key = k /\ g.expr = e /\ g.mask = rows /\ g.body = TRUE
  <2>1. PICK p, cs, b : p = program /\ cs = cells /\ b = TRUE
    OBVIOUS
  <2>2. rows # {} /\ g = Node(k, e, rows, b) /\ p \in Programs /\ cs \in [Rows -> Cells] /\ b \in BOOLEAN
    BY <2>1, <1>4, <1>5, <1>6
  <2>3. /\ g \in FrameType /\ FrameSound(p, cs, g)
        /\ g.key = k /\ g.expr = e /\ g.mask = rows /\ g.body = b
    BY <2>2, <1>6, <1>7, NodeSound
  <2> QED BY <2>1, <2>3
<1>9. BodySound(program, g)
  BY <1>3, <1>5, <1>8 DEF BodySound, Refusal
<1>10. StackSound(program, cells, columns, Goal, stack')
  BY <1>2, <1>5, <1>6, <1>8, <1>9, StackStarts
<1>11. ColumnsRight'
  BY <1>5, <1>6 DEF ColumnsRight, input
<1> QED BY <1>5, <1>6, <1>10, <1>11, StackStep

LEMMA SkipOperandStep ==
    ASSUME Inductive, SkipOperand
    PROVE  Inductive'
<1>1. /\ stack # <<>> /\ WantsOperand(Top) /\ OperandRows(Top) = {}
      /\ stack' = Append(Pop(stack), Taken(stack[Len(stack)], Placeholder, NoErrors))
      /\ UNCHANGED <<input, evaluated, tasks, response>> /\ columns' = columns
  BY DEF SkipOperand, Deliver
<1>2. PICK p, cs, f, col, errors, g :
        /\ p = program /\ cs = cells /\ f = Top /\ col = Placeholder /\ errors = NoErrors
        /\ g = Taken(f, col, errors)
  OBVIOUS
<1>3. /\ p \in Programs /\ cs \in [Rows -> Cells] /\ Running /\ Asked # {}
      /\ ColumnsSound(p, cs, columns) /\ StackSound(p, cs, columns, Goal, stack)
      /\ f = stack[Len(stack)] /\ f \in FrameType /\ FrameSound(p, cs, f)
  BY <1>1, <1>2, TopFacts
<1>4. OperandRight(p, cs, f, col, errors)
  <2>1. col \in [Rows -> Int]
    BY <1>2 DEF Placeholder
  <2>2. errors \in ErrorsType /\ DOMAIN errors = {}
    BY <1>2, NoErrorsFacts
  <2> QED BY <2>1, <2>2, <1>1, <1>2 DEF OperandRight
<1>5. /\ g \in FrameType /\ FrameSound(p, cs, g)
      /\ g.key = f.key /\ g.expr = f.expr /\ g.mask = f.mask /\ g.body = f.body
  BY <1>1, <1>2, <1>3, <1>4, TakenSound
<1>6. StackSound(p, cs, columns, Goal, Append(Pop(stack), g))
  BY <1>1, <1>3, <1>5, StackReplaces
<1>7. stack' = Append(Pop(stack), g)
  BY <1>1, <1>2, <1>3
<1>8. ColumnsRight' /\ StackSound(program, cells, columns', Goal, stack')
  BY <1>1, <1>2, <1>3, <1>6, <1>7 DEF ColumnsRight, input
<1> QED BY <1>1, <1>3, <1>8, StackStep

LEMMA DescendStep ==
    ASSUME Inductive, Descend
    PROVE  Inductive'
<1>1. PICK p, cs, f, k, e, mask, b, g :
        /\ p = program /\ cs = cells /\ f = Top /\ k = Top.key /\ e = NextOperand(Top)
        /\ mask = OperandRows(Top) /\ b = FALSE /\ g = Node(k, e, mask, b)
  OBVIOUS
<1>2. /\ stack # <<>> /\ WantsOperand(f) /\ mask # {} /\ stack' = Append(stack, g)
      /\ UNCHANGED <<input, evaluated, tasks, response>> /\ columns' = columns
  BY <1>1 DEF Descend
<1>3. /\ p \in Programs /\ cs \in [Rows -> Cells] /\ Running /\ Asked # {}
      /\ ColumnsSound(p, cs, columns) /\ StackSound(p, cs, columns, Goal, stack)
      /\ f = stack[Len(stack)] /\ f \in FrameType /\ FrameSound(p, cs, f) /\ k \in Keys
  BY <1>1, <1>2, TopFacts
<1>4. /\ f.n < Len(f.expr.args) /\ e = ArgAt(f.expr, f.n)
      /\ mask \subseteq f.live /\ mask \in SUBSET Rows
      /\ \A r \in mask : Standing(p, cs[r], f.expr, f.n, f.acc[r])
      /\ \A r \in mask : f.expr.op = "if" /\ f.n = 1 => f.acc[r] = Holds
  BY <1>1, <1>2, <1>3, WantsRows
<1>5. PICK r \in mask : r \in Rows
  BY <1>2, <1>4
<1>6. e \in Exprs
  <2>1. cs[r] \in Cells /\ f.expr \in Exprs /\ f.n \in Nat
    BY <1>3, <1>5, FrameFacts
  <2> QED BY <2>1, <1>3, <1>4, <1>5, RowOperand
<1>7. b \in BOOLEAN /\ ~b
  BY <1>1
<1>8. /\ g \in FrameType /\ FrameSound(p, cs, g)
      /\ g.key = k /\ g.expr = e /\ g.mask = mask /\ g.body = b
  BY <1>1, <1>3, <1>4, <1>6, <1>7, NodeSound
<1>9. BodySound(p, g) /\ Follows(columns, g, f)
  BY <1>1, <1>2, <1>7, <1>8 DEF BodySound, Follows
<1>10. StackSound(p, cs, columns, Goal, Append(stack, g))
  BY <1>2, <1>3, <1>8, <1>9, StackPushes
<1>11. ColumnsRight' /\ StackSound(program, cells, columns', Goal, stack')
  BY <1>1, <1>2, <1>3, <1>10 DEF ColumnsRight, input
<1> QED BY <1>2, <1>3, <1>11, StackStep

LEMMA MeetUnsupportedStep ==
    ASSUME Inductive, MeetUnsupported
    PROVE  Inductive'
<1>1. Decline /\ UNCHANGED input /\ columns' = columns
  BY DEF MeetUnsupported
<1>2. ColumnsRight'
  BY <1>1 DEF Inductive, ColumnsRight, input
<1> QED BY <1>1, <1>2, DeclineStep

(* A read about to be answered.                                            *)
LEMMA ReadingFacts ==
    ASSUME Inductive, Reading
    PROVE  /\ stack # <<>> /\ Top.expr.op = "derived" /\ Top.n = 0
           /\ Read = Top.expr.key /\ Read \in Keys
           /\ ToCompute = Top.mask \ ComputedIn(columns, Read) /\ ToCompute \in SUBSET Rows
<1>1. stack # <<>> /\ Top.expr.op = "derived" /\ Top.n = 0
  BY DEF Reading
<1>2. Top.expr \in Exprs /\ Top.mask \in SUBSET Rows
  BY <1>1, TopFacts
<1>3. Read = Top.expr.key /\ Read \in Keys
  BY <1>1, <1>2, NodeFacts DEF Read
<1> QED BY <1>1, <1>2, <1>3, UncomputedFacts DEF ToCompute

LEMMA ReadCachedStep ==
    ASSUME Inductive, ReadCached
    PROVE  Inductive'
<1>1. /\ Reading /\ ToCompute = {} /\ stack' = ReadOut(stack, columns, Read)
      /\ UNCHANGED <<input, evaluated, tasks, response>> /\ columns' = columns
  BY DEF ReadCached
<1>2. PICK p, cs, f, cols : p = program /\ cs = cells /\ f = Top /\ cols = columns
  OBVIOUS
<1>3. /\ stack # <<>> /\ f.expr.op = "derived" /\ f.n = 0 /\ Read = f.expr.key
      /\ f.mask \subseteq ComputedIn(cols, f.expr.key)
  BY <1>1, <1>2, ReadingFacts
<1>4. /\ p \in Programs /\ cs \in [Rows -> Cells] /\ Running /\ Asked # {}
      /\ ColumnsSound(p, cs, cols) /\ StackSound(p, cs, cols, Goal, stack)
      /\ f = stack[Len(stack)]
  BY <1>2, <1>3, TopFacts
<1>5. StackSound(p, cs, cols, Goal, ReadOut(stack, cols, f.expr.key))
  BY <1>3, <1>4, ReadOutSound
<1>6. ColumnsRight' /\ StackSound(program, cells, columns', Goal, stack')
  BY <1>1, <1>2, <1>3, <1>4, <1>5 DEF ColumnsRight, input
<1> QED BY <1>1, <1>4, <1>6, StackStep

LEMMA ReadDeferredStep ==
    ASSUME Inductive, ReadDeferred
    PROVE  Inductive'
<1>1. PICK k, rows : k = Read /\ rows = ToCompute
  OBVIOUS
<1>2. /\ Reading /\ tasks' = Append(tasks, [key |-> k, rows |-> rows]) /\ stack' = <<>>
      /\ UNCHANGED <<input, evaluated, response>> /\ columns' = columns
  BY <1>1 DEF ReadDeferred
<1>3. program' = program /\ cells' = cells /\ request' = request
  BY <1>2 DEF input
<1>4. k \in Keys /\ rows \in SUBSET Rows /\ Running /\ Asked # {}
  BY <1>1, <1>2, ReadingFacts, TopFacts
<1>5. [key |-> k, rows |-> rows] \in TaskType
  BY <1>4 DEF TaskType
<1>6. tasks' \in Seq(TaskType)
  BY <1>2, <1>5 DEF Inductive, Typed
<1>7. Typed'
  BY <1>3, <1>6 DEF Inductive, Typed
<1>8. ColumnsRight' /\ StackRight'
  BY <1>2, <1>3, StackEmpty DEF Inductive, ColumnsRight, StackRight
<1>9. TasksRight'
  BY <1>2, <1>4, RequestStays DEF TasksRight, Running
<1>10. EvaluatedRight' /\ FastEqualsExplain'
  BY <1>2, RequestStays DEF Inductive, EvaluatedRight, FastEqualsExplain, Running, Pending
<1> QED BY <1>7, <1>8, <1>9, <1>10 DEF Inductive

LEMMA ReadCycleStep ==
    ASSUME Inductive, ReadCycle
    PROVE  Inductive'
<1>1. Decline /\ UNCHANGED input /\ columns' = columns
  BY DEF ReadCycle
<1>2. ColumnsRight'
  BY <1>1 DEF Inductive, ColumnsRight, input
<1> QED BY <1>1, <1>2, DeclineStep

LEMMA ReadRefusedStep ==
    ASSUME Inductive, ReadRefused
    PROVE  Inductive'
<1>1. PICK p, cs, f, k, rows, cols :
        /\ p = program /\ cs = cells /\ f = Top /\ k = Read /\ rows = ToCompute
        /\ cols = Stored(k, Placeholder, Fail(rows, Refusal(k)), rows)
  OBVIOUS
<1>2. /\ Reading /\ Refusal(k) # "none" /\ columns' = cols
      /\ stack' = ReadOut(stack, cols, k)
      /\ UNCHANGED <<input, evaluated, tasks, response>>
  BY <1>1 DEF ReadRefused
<1>3. /\ stack # <<>> /\ f.expr.op = "derived" /\ f.n = 0 /\ k = f.expr.key /\ k \in Keys
      /\ rows = f.mask \ ComputedIn(columns, k) /\ rows \in SUBSET Rows
  BY <1>1, <1>2, ReadingFacts
<1>4. /\ p \in Programs /\ cs \in [Rows -> Cells] /\ Running /\ Asked # {} /\ Goal.key \in Keys
      /\ ColumnsSound(p, cs, columns) /\ StackSound(p, cs, columns, Goal, stack)
      /\ f = stack[Len(stack)]
  BY <1>1, <1>3, TopFacts
<1>5. /\ ColumnsSound(p, cs, cols) /\ Grown(columns, cols)
      /\ rows \subseteq ComputedIn(cols, k) /\ k \in DOMAIN cols
  <2>1. /\ program \in Programs /\ cells \in [Rows -> Cells]
        /\ ColumnsSound(program, cells, columns)
    BY <1>1, <1>4
  <2>2. /\ ColumnsSound(program, cells, cols) /\ Grown(columns, cols)
        /\ rows \subseteq ComputedIn(cols, k) /\ k \in DOMAIN cols
    BY ONLY <2>1, <1>1, <1>2, <1>3, RefusedStored
  <2> QED BY <2>2, <1>1
<1>6. f.mask \subseteq ComputedIn(cols, k)
  BY <1>3, <1>5 DEF Grown
<1>7. StackSound(p, cs, cols, Goal, stack)
  BY <1>4, <1>5, StackStays
<1>8. StackSound(p, cs, cols, Goal, ReadOut(stack, cols, k))
  BY <1>3, <1>4, <1>5, <1>6, <1>7, ReadOutSound
<1>9. ColumnsRight' /\ StackSound(program, cells, columns', Goal, stack')
  BY <1>1, <1>2, <1>5, <1>8 DEF ColumnsRight, input
<1> QED BY <1>2, <1>4, <1>9, StackStep

LEMMA ReadRecursesStep ==
    ASSUME Inductive, ReadRecurses
    PROVE  Inductive'
<1>1. PICK p, cs, f, k, e, rows, b, g :
        /\ p = program /\ cs = cells /\ f = Top /\ k = Read /\ e = Body(program, Read.rule)
        /\ rows = ToCompute /\ b = TRUE /\ g = Node(k, e, rows, b)
  OBVIOUS
<1>2. /\ Reading /\ rows # {} /\ Refusal(k) = "none" /\ stack' = Append(stack, g)
      /\ UNCHANGED <<input, evaluated, tasks, response>> /\ columns' = columns
  BY <1>1 DEF ReadRecurses
<1>3. /\ stack # <<>> /\ f.expr.op = "derived" /\ f.n = 0 /\ k = f.expr.key /\ k \in Keys
      /\ rows = f.mask \ ComputedIn(columns, k) /\ rows \in SUBSET Rows
  BY <1>1, <1>2, ReadingFacts
<1>4. /\ p \in Programs /\ cs \in [Rows -> Cells] /\ Running /\ Asked # {}
      /\ ColumnsSound(p, cs, columns) /\ StackSound(p, cs, columns, Goal, stack)
      /\ f = stack[Len(stack)]
  BY <1>1, <1>3, TopFacts
<1>5. e = Body(p, k.rule) /\ e \in Exprs /\ RefusalOf(p, k) = "none" /\ b \in BOOLEAN /\ b
  BY <1>1, <1>2, <1>3, <1>4, BodyFacts DEF Refusal
<1>6. /\ g \in FrameType /\ FrameSound(p, cs, g)
      /\ g.key = k /\ g.expr = e /\ g.mask = rows /\ g.body = b
  <2>1. /\ p \in Programs /\ cs \in [Rows -> Cells] /\ k \in Keys /\ e \in Exprs
        /\ rows \in SUBSET Rows /\ rows # {} /\ b \in BOOLEAN /\ g = Node(k, e, rows, b)
    BY <1>1, <1>2, <1>3, <1>4, <1>5
  <2> QED BY <2>1, NodeSound
<1>7. BodySound(p, g)
  BY <1>5, <1>6 DEF BodySound
<1>8. Follows(columns, g, f)
  BY <1>3, <1>5, <1>6 DEF Follows
<1>9. StackSound(p, cs, columns, Goal, Append(stack, g))
  BY <1>3, <1>4, <1>6, <1>7, <1>8, StackPushes
<1>10. ColumnsRight' /\ StackSound(program, cells, columns', Goal, stack')
  BY <1>1, <1>2, <1>4, <1>9 DEF ColumnsRight, input
<1> QED BY <1>2, <1>4, <1>10, StackStep

LEMMA ReturnStep ==
    ASSUME Inductive, Return
    PROVE  Inductive'
<1>1. PICK p, cs, t, col, errors, below, f, g :
        /\ p = program /\ cs = cells /\ t = Top /\ col = Column(Top) /\ errors = Errors(Top)
        /\ below = Pop(stack) /\ f = below[Len(below)] /\ g = Taken(f, col, errors)
  OBVIOUS
<1>2. /\ stack # <<>> /\ ~WantsOperand(t) /\ ~(t.expr.op = "derived" /\ t.n = 0)
      /\ t.expr.op # "unsupported" /\ ~t.body
      /\ stack' = Append(Pop(below), g)
      /\ UNCHANGED <<input, evaluated, tasks, response>> /\ columns' = columns
  BY <1>1 DEF Return, Finished, Reading, Deliver
<1>3. /\ p \in Programs /\ cs \in [Rows -> Cells] /\ Running /\ Asked # {}
      /\ ColumnsSound(p, cs, columns) /\ StackSound(p, cs, columns, Goal, stack)
      /\ t = stack[Len(stack)] /\ t \in FrameType /\ FrameSound(p, cs, t)
      /\ Len(stack) \in Nat \ {0}
  BY <1>1, <1>2, TopFacts
<1>4. /\ col \in [Rows -> Int] /\ errors \in ErrorsType /\ DOMAIN errors \subseteq t.mask
      /\ \A r \in t.mask : NodeRight(p, cs[r], t.expr, col, errors, r)
  BY <1>1, <1>2, <1>3, FinishedRight
<1>5. Len(stack) # 1
  BY <1>2, <1>3 DEF StackSound
<1>6. /\ StackSound(p, cs, columns, Goal, below) /\ below # <<>>
      /\ Len(below) = Len(stack) - 1 /\ Len(below) \in 1..(Len(stack) - 1)
      /\ f = stack[Len(stack) - 1]
  <2>1. /\ StackSound(p, cs, columns, Goal, below) /\ Len(below) = Len(stack) - 1
        /\ \A i \in 1..(Len(stack) - 1) : below[i] = stack[i]
    BY <1>1, <1>2, <1>3, StackPops
  <2>2. Len(below) \in 1..(Len(stack) - 1)
    BY <2>1, <1>3, <1>5
  <2> QED BY <2>1, <2>2, <1>1, <1>3, <1>5
<1>7. Follows(columns, t, f)
  <2>0. \A n \in Nat \ {0} : n # 1 => n - 1 \in 1..(n - 1) /\ (n - 1) + 1 = n
    OBVIOUS
  <2>1. Len(stack) - 1 \in 1..(Len(stack) - 1) /\ (Len(stack) - 1) + 1 = Len(stack)
    <3>1. Len(stack) \in Nat \ {0}
      BY <1>3
    <3> QED BY <3>1, <1>5, <2>0
  <2>2. Follows(columns, stack[(Len(stack) - 1) + 1], stack[Len(stack) - 1])
    BY <2>1, <1>3 DEF StackSound
  <2> QED BY <2>1, <2>2, <1>3, <1>6
<1>8. WantsOperand(f) /\ t.expr = NextOperand(f) /\ t.mask = OperandRows(f)
  BY <1>2, <1>7 DEF Follows
<1>9. OperandRight(p, cs, f, col, errors)
  BY <1>4, <1>8 DEF OperandRight
<1>10. f \in FrameType /\ FrameSound(p, cs, f)
  <2>1. below \in Seq(FrameType) /\ Len(below) \in 1..Len(below)
    BY <1>6 DEF StackSound
  <2> QED BY <2>1, <1>1, <1>6 DEF StackSound
<1>11. /\ g \in FrameType /\ FrameSound(p, cs, g)
       /\ g.key = f.key /\ g.expr = f.expr /\ g.mask = f.mask /\ g.body = f.body
  BY <1>1, <1>3, <1>8, <1>9, <1>10, TakenSound
<1>12. StackSound(p, cs, columns, Goal, Append(Pop(below), g))
  BY <1>1, <1>6, <1>11, StackReplaces
<1>13. ColumnsRight' /\ StackSound(program, cells, columns', Goal, stack')
  BY <1>1, <1>2, <1>3, <1>12 DEF ColumnsRight, input
<1> QED BY <1>2, <1>3, <1>13, StackStep

(* The columns after a rule's formula returns.                             *)
LEMMA ReturnStored ==
    ASSUME Inductive, ReturnFromRule, NEW c, c = columns'
    PROVE  /\ ColumnsSound(program, cells, c) /\ Grown(columns, c)
           /\ Top.mask \subseteq ComputedIn(c, Top.key) /\ Top.key \in DOMAIN c
           /\ Len(stack) = 1 => Goal.rows \subseteq ComputedIn(c, Goal.key)
<1>1. PICK p, cs, t, k, raw, col, errors, rows, cols :
        /\ p = program /\ cs = cells /\ t = Top /\ k = Top.key /\ raw = Column(Top)
        /\ col = Rounded(k, raw) /\ errors = Errors(Top) /\ rows = Top.mask
        /\ cols = Stored(k, col, errors, rows)
  OBVIOUS
<1>2. /\ stack # <<>> /\ ~WantsOperand(t) /\ ~(t.expr.op = "derived" /\ t.n = 0)
      /\ t.expr.op # "unsupported" /\ t.body /\ columns' = cols
  BY <1>1 DEF ReturnFromRule, Finished, Reading
<1>3. /\ p \in Programs /\ cs \in [Rows -> Cells] /\ Running /\ Asked # {} /\ Goal.key \in Keys
      /\ ColumnsSound(p, cs, columns) /\ StackSound(p, cs, columns, Goal, stack)
      /\ t = stack[Len(stack)] /\ t \in FrameType /\ FrameSound(p, cs, t) /\ BodySound(p, t)
      /\ Len(stack) \in Nat \ {0} /\ k \in Keys /\ rows \in SUBSET Rows /\ t.mask = rows
      /\ t.key = k
  BY <1>1, <1>2, TopFacts
<1>4. /\ raw \in [Rows -> Int] /\ errors \in ErrorsType /\ DOMAIN errors \subseteq rows
      /\ \A r \in rows : NodeRight(p, cs[r], t.expr, raw, errors, r)
  BY <1>1, <1>2, <1>3, FinishedRight
<1>5. t.expr = Body(p, k.rule) /\ RefusalOf(p, k) = "none"
  BY <1>2, <1>3 DEF BodySound
<1>6. \A r \in Rows : col[r] = RoundedTo(p, k, raw[r])
  BY <1>1 DEF Rounded
<1>7. col \in [Rows -> Int]
  <2>1. \A v \in Int : RoundedTo(p, k, v) \in Int
    BY DEF RoundedTo
  <2> QED BY <2>1, <1>1, <1>4 DEF Rounded
<1>8. ASSUME NEW r \in rows
      PROVE  RuleRight(p, cs[r], k, col, errors, r)
  <2>1. r \in Rows /\ cs[r] \in Cells
    BY <1>3
  <2>2. NodeRight(p, cs[r], Body(p, k.rule), raw, errors, r)
    BY <1>4, <1>5
  <2>3. /\ \A v : Rest(p, cs[r], Body(p, k.rule), <<>>) = Ok(v)
                    => Meaning(p, cs[r], k) = Ok(RoundedTo(p, k, v))
        /\ \A x : Rest(p, cs[r], Body(p, k.rule), <<>>) = Err(x)
                    => Meaning(p, cs[r], k) = Err(x)
    BY <2>1, <1>3, <1>5, MeaningRule
  <2>4. CASE r \in DOMAIN errors
    BY <2>2, <2>3, <2>4 DEF NodeRight, RuleRight
  <2>5. CASE r \notin DOMAIN errors
    <3>1. raw[r] \in ValuesOf(Body(p, k.rule)) /\ Rest(p, cs[r], Body(p, k.rule), <<>>) = Ok(raw[r])
      BY <2>2, <2>5 DEF NodeRight, Decided
    <3>2. RoundedTo(p, k, raw[r]) \in KindValues(k)
      BY <3>1, <1>3, <1>5, RoundedFacts
    <3> QED BY <2>1, <2>3, <2>5, <3>1, <3>2, <1>6 DEF RuleRight
  <2> QED BY <2>4, <2>5
<1>9. /\ ColumnsSound(p, cs, cols) /\ Grown(columns, cols)
      /\ rows \subseteq ComputedIn(cols, k) /\ k \in DOMAIN cols
  BY <1>1, <1>3, <1>4, <1>7, <1>8, StoredSound
<1>10. ASSUME Len(stack) = 1
       PROVE  Goal.rows \subseteq ComputedIn(cols, Goal.key)
  <2>1. /\ k = Goal.key /\ Goal.rows \subseteq rows \cup ComputedIn(columns, k)
    BY <1>2, <1>3, <1>10 DEF StackSound
  <2> QED BY <2>1, <1>3, <1>9 DEF Grown
<1>11. c = cols
  BY <1>2
<1> QED BY <1>1, <1>9, <1>10, <1>11

LEMMA ReturnFromRuleStep ==
    ASSUME Inductive, ReturnFromRule
    PROVE  Inductive'
<1>1. PICK p, cs, t, k, rows, cols :
        /\ p = program /\ cs = cells /\ t = Top /\ k = Top.key /\ rows = Top.mask
        /\ cols = columns'
  OBVIOUS
<1>2. /\ stack # <<>> /\ t.body
      /\ IF Len(stack) = 1 THEN CompleteGoal(cols)
         ELSE /\ stack' = ReadOut(Pop(stack), cols, k)
              /\ UNCHANGED <<evaluated, tasks, response>>
      /\ UNCHANGED input
  BY <1>1 DEF ReturnFromRule, Finished, Depth
<1>3. /\ p \in Programs /\ cs \in [Rows -> Cells] /\ Running /\ Asked # {} /\ Goal.key \in Keys
      /\ ColumnsSound(p, cs, columns) /\ StackSound(p, cs, columns, Goal, stack)
      /\ t = stack[Len(stack)] /\ t.key = k /\ t.mask = rows
      /\ Len(stack) \in Nat \ {0} /\ k \in Keys
  BY <1>1, <1>2, TopFacts
<1>4. /\ ColumnsSound(p, cs, cols) /\ Grown(columns, cols)
      /\ rows \subseteq ComputedIn(cols, k) /\ k \in DOMAIN cols
      /\ Len(stack) = 1 => Goal.rows \subseteq ComputedIn(cols, Goal.key)
  BY <1>1, ReturnStored
<1>5. CASE Len(stack) = 1
  <2>1. CompleteGoal(cols) /\ Goal.rows \subseteq ComputedIn(cols, Goal.key)
    BY <1>2, <1>4, <1>5
  <2> QED BY <2>1, <1>1, <1>2, <1>3, <1>4, CompleteStep
<1>6. CASE Len(stack) # 1
  <2>1. PICK below, f : below = Pop(stack) /\ f = below[Len(below)]
    OBVIOUS
  <2>2. /\ StackSound(p, cs, columns, Goal, below) /\ Len(below) = Len(stack) - 1
        /\ \A i \in 1..(Len(stack) - 1) : below[i] = stack[i]
    BY <2>1, <1>2, <1>3, StackPops
  <2>3. /\ Len(stack) - 1 \in 1..(Len(stack) - 1) /\ (Len(stack) - 1) + 1 = Len(stack)
        /\ below # <<>>
    BY <2>2, <1>3, <1>6
  <2>4. f = stack[Len(stack) - 1]
    BY <2>1, <2>2, <2>3
  <2>5. Follows(columns, stack[(Len(stack) - 1) + 1], stack[Len(stack) - 1])
    BY <2>3, <1>3 DEF StackSound
  <2>6. Follows(columns, t, f)
    BY <2>3, <2>4, <2>5, <1>3
  <2>7. /\ f.expr.op = "derived" /\ f.n = 0 /\ k = f.expr.key
        /\ f.mask \subseteq rows \cup ComputedIn(columns, k)
    BY <2>6, <1>2, <1>3 DEF Follows
  <2>8. f.mask \subseteq ComputedIn(cols, f.expr.key)
    BY <2>7, <1>3, <1>4 DEF Grown
  <2>9. StackSound(p, cs, cols, Goal, below)
    BY <2>2, <1>3, <1>4, StackStays
  <2>10. StackSound(p, cs, cols, Goal, ReadOut(below, cols, f.expr.key))
    BY <2>1, <2>3, <2>7, <2>8, <2>9, <1>3, <1>4, ReadOutSound
  <2>11. ColumnsRight' /\ StackSound(program, cells, columns', Goal, stack')
    BY <2>1, <2>7, <2>10, <1>1, <1>2, <1>4, <1>6 DEF ColumnsRight, input
  <2>12. UNCHANGED <<input, evaluated, tasks, response>>
    BY <1>2, <1>6
  <2> QED BY <2>11, <2>12, <1>3, StackStep
<1> QED BY <1>5, <1>6

-----------------------------------------------------------------------------
(* The strengthening: every stored column, every frame under evaluation    *)
(* and every output evaluated so far agrees row by row with explain.       *)
THEOREM InductiveHolds == Spec => []Inductive
<1>1. Init => Inductive
  <2> SUFFICES ASSUME Init
               PROVE  Inductive
    OBVIOUS
  <2>1. /\ program \in Programs /\ cells \in [Rows -> Cells] /\ request \in Requests
        /\ columns = <<>> /\ evaluated = <<>> /\ stack = <<>> /\ tasks = <<>>
        /\ response = Unanswered
    BY DEF Init
  <2>2. request \in [Rows -> Seq(Rules)]
    BY <2>1, BulkAssumption DEF WellTyped
  <2>3. Typed
    BY <2>1, <2>2 DEF Typed
  <2>4. DOMAIN columns = {} /\ DOMAIN evaluated = {}
    BY <2>1
  <2>5. ColumnsRight
    BY <2>4 DEF ColumnsRight, ColumnsSound
  <2>6. StackRight /\ TasksRight
    BY <2>1, StackEmpty DEF StackRight, TasksRight
  <2>7. EvaluatedRight
    BY <2>4 DEF EvaluatedRight, Pending
  <2>8. FastEqualsExplain
    BY <2>1 DEF FastEqualsExplain, Unanswered
  <2> QED BY <2>3, <2>5, <2>6, <2>7, <2>8 DEF Inductive
<1>2. Inductive /\ [Next]_vars => Inductive'
  <2> SUFFICES ASSUME Inductive, [Next]_vars
               PROVE  Inductive'
    OBVIOUS
  <2>1. CASE UNCHANGED vars
    <3>1. /\ UNCHANGED input /\ columns' = columns /\ evaluated' = evaluated /\ stack' = stack
          /\ tasks' = tasks /\ response' = response
      BY <2>1 DEF vars, driver
    <3>2. program' = program /\ cells' = cells /\ request' = request
      BY <3>1 DEF input
    <3>3. Typed' /\ ColumnsRight'
      BY <3>1, <3>2 DEF Inductive, Typed, ColumnsRight
    <3>4. StackRight' /\ TasksRight'
      BY <3>1, <3>2, RequestStays, GoalStays DEF Inductive, StackRight, TasksRight, Running
    <3>5. EvaluatedRight' /\ FastEqualsExplain'
      BY <3>1, RequestStays DEF Inductive, EvaluatedRight, FastEqualsExplain, Running, Pending
    <3> QED BY <3>3, <3>4, <3>5 DEF Inductive
  <2>2. CASE AnswerNothing
    BY <2>2, AnswerNothingStep
  <2>3. CASE DeclineOutput
    BY <2>3, DeclineOutputStep
  <2>4. CASE AttemptCached
    BY <2>4, AttemptCachedStep
  <2>5. CASE AttemptRefused
    BY <2>5, AttemptRefusedStep
  <2>6. CASE Attempt
    BY <2>6, AttemptStep
  <2>7. CASE SkipOperand
    BY <2>7, SkipOperandStep
  <2>8. CASE Descend
    BY <2>8, DescendStep
  <2>9. CASE MeetUnsupported
    BY <2>9, MeetUnsupportedStep
  <2>10. CASE ReadCached
    BY <2>10, ReadCachedStep
  <2>11. CASE ReadDeferred
    BY <2>11, ReadDeferredStep
  <2>12. CASE ReadCycle
    BY <2>12, ReadCycleStep
  <2>13. CASE ReadRefused
    BY <2>13, ReadRefusedStep
  <2>14. CASE ReadRecurses
    BY <2>14, ReadRecursesStep
  <2>15. CASE Return
    BY <2>15, ReturnStep
  <2>16. CASE ReturnFromRule
    BY <2>16, ReturnFromRuleStep
  <2> QED
    BY <2>1, <2>2, <2>3, <2>4, <2>5, <2>6, <2>7, <2>8, <2>9, <2>10, <2>11, <2>12, <2>13,
       <2>14, <2>15, <2>16 DEF Next
<1> QED BY <1>1, <1>2, PTL DEF Spec

(* A rule's column holds explain's value or first error in every row it    *)
(* has been computed for, in whatever order, by whichever node and in      *)
(* however many tasks the rows were computed.                              *)
THEOREM ColumnsCorrect == Spec => []ColumnSound
<1>1. Inductive => ColumnSound
  BY DEF Inductive, ColumnsRight, ColumnsSound, ColumnRight, RuleRight, ColumnSound
<1> QED BY <1>1, InductiveHolds, PTL

(* A request the columns answer is answered as explain would answer it.    *)
THEOREM FastCorrect == Spec => []FastEqualsExplain
<1>1. Inductive => FastEqualsExplain
  BY DEF Inductive
<1> QED BY <1>1, InductiveHolds, PTL

-----------------------------------------------------------------------------
(* Laziness. Where explain comes to a value for every output asked, over   *)
(* nothing the columns lack, nothing under evaluation is otherwise, and    *)
(* what waits for a column has more steps to go than the column.           *)
(* Explain comes to a value, over constructs the columns support too.      *)
RuleClear(p, cell, k) == Meaning(p, cell, k).ok /\ ~Touches(p, cell, k)
NodeClear(p, cell, e) == Rest(p, cell, e, <<>>).ok /\ ~Reaches(p, cell, e, <<>>)
RuleSteps(p, cell, k) == Steps(p, cell, Body(p, k.rule), <<>>)

RequestClear ==
    \A r \in Rows : \A i \in 1..Len(request[r]) :
        RuleClear(program, cells[r], OutputKey(request[r][i]))

(* The rows of a task are rows of every task it was deferred from, each    *)
(* with fewer steps left.                                                  *)
TasksClear(p, cs, ts) ==
    \A i \in 1..Len(ts) : \A r \in ts[i].rows :
        /\ RuleClear(p, cs[r], ts[i].key)
        /\ \A j \in 1..(i - 1) : /\ r \in ts[j].rows
                                 /\ RuleSteps(p, cs[r], ts[i].key) < RuleSteps(p, cs[r], ts[j].key)

StackClear(p, cs, goal, st) ==
    \A i \in 1..Len(st) : \A r \in st[i].mask :
        /\ r \in goal.rows /\ NodeClear(p, cs[r], st[i].expr)
        /\ Steps(p, cs[r], st[i].expr, <<>>) <= RuleSteps(p, cs[r], goal.key)

WaitingFor(ts, keys) ==
    /\ keys = {ts[i].key : i \in 1..Len(ts)}
    /\ \A i, j \in 1..Len(ts) : ts[i].key = ts[j].key => i = j

Lazy ==
    /\ WaitingFor(tasks, waiting)
    /\ RequestClear => /\ response.mode # "explain"
                       /\ TasksClear(program, cells, tasks)
                       /\ StackClear(program, cells, Goal, stack)

LEMMA BodyClear ==
    ASSUME NEW p \in Programs, NEW cell \in Cells, NEW k \in Keys, RuleClear(p, cell, k)
    PROVE  RefusalOf(p, k) = "none" /\ NodeClear(p, cell, Body(p, k.rule))
<1>1. Meaning(p, cell, k) =
        IF RefusalOf(p, k) # "none" THEN Err(RefusalOf(p, k))
        ELSE LET o == Rest(p, cell, Body(p, k.rule), <<>>)
             IN  IF o.ok THEN Ok(RoundedTo(p, k, o.val)) ELSE o
  BY ReferenceAssumption DEF ExplainsOn
<1>2. RefusalOf(p, k) = "none"
  BY <1>1, OkFacts DEF RuleClear
<1>3. Rest(p, cell, Body(p, k.rule), <<>>).ok
  BY <1>1, <1>2 DEF RuleClear
<1>4. ~Reaches(p, cell, Body(p, k.rule), <<>>)
  BY <1>2, TouchesAssumption DEF TouchesOn, RuleClear
<1> QED BY <1>2, <1>3, <1>4 DEF NodeClear

(* A read that is clear reads a rule that is, with fewer steps to go.      *)
LEMMA ReadClear ==
    ASSUME NEW p \in Programs, NEW cell \in Cells, NEW e \in Exprs, e.op = "derived",
           NodeClear(p, cell, e)
    PROVE  /\ RuleClear(p, cell, e.key)
           /\ RuleSteps(p, cell, e.key) < Steps(p, cell, e, <<>>)
<1>1. RuleClear(p, cell, e.key)
  BY RestRead, EmptyPartial, TouchesAssumption DEF NodeClear, RuleClear, TouchesOn
<1>2. RuleSteps(p, cell, e.key) < Steps(p, cell, e, <<>>)
  BY EmptyPartial, EndAssumption DEF NodeClear, RuleSteps, EndsOn
<1> QED BY <1>1, <1>2

LEMMA StepsFacts ==
    ASSUME NEW p \in Programs, NEW cell \in Cells, NEW e \in Exprs
    PROVE  Steps(p, cell, e, <<>>) \in Nat
BY EmptyPartial, EndAssumption DEF EndsOn

LEMMA RuleStepsFacts ==
    ASSUME NEW p \in Programs, NEW cell \in Cells, NEW k \in Keys
    PROVE  RuleSteps(p, cell, k) \in Nat
BY BodyFacts, StepsFacts DEF RuleSteps

(* So is the operand a row of a clear node takes next.                     *)
LEMMA OperandClear ==
    ASSUME NEW p \in Programs, NEW cell \in Cells, NEW e \in Exprs, NEW n \in Nat, NEW a,
           n < Len(e.args), Standing(p, cell, e, n, a), e.op = "if" /\ n = 1 => a = Holds,
           NodeClear(p, cell, e)
    PROVE  /\ NodeClear(p, cell, ArgAt(e, n))
           /\ Steps(p, cell, ArgAt(e, n), <<>>) < Steps(p, cell, e, <<>>)
<1>1. PICK vals \in Partial(e) :
        Wants(e, vals) /\ OnCourse(p, cell, e, vals) /\ Holding(e, n, a, vals)
  BY DEF Standing
<1>2. Operand(e, vals) = ArgAt(e, n) /\ ArgAt(e, n) \in Exprs
  BY <1>1, NextIsOperand, RowOperand
<1>3. /\ Rest(p, cell, e, vals).ok /\ ~Reaches(p, cell, e, vals)
      /\ Steps(p, cell, e, vals) <= Steps(p, cell, e, <<>>)
  BY <1>1 DEF OnCourse, NodeClear
<1>4. NodeClear(p, cell, ArgAt(e, n))
  BY <1>1, <1>2, <1>3, WantsEnds, WantsReaches DEF NodeClear
<1>5. Steps(p, cell, ArgAt(e, n), <<>>) < Steps(p, cell, e, vals)
  BY <1>1, <1>2, <1>3, WantsEnds
<1>6. /\ Steps(p, cell, ArgAt(e, n), <<>>) \in Nat /\ Steps(p, cell, e, vals) \in Nat
      /\ Steps(p, cell, e, <<>>) \in Nat
  BY <1>2, StepsFacts, EndAssumption DEF EndsOn
<1> QED BY <1>3, <1>4, <1>5, <1>6

-----------------------------------------------------------------------------
(* What stays clear as frames come and go.                                 *)
LEMMA AppendFacts ==
    ASSUME NEW S, NEW s \in Seq(S), NEW g
    PROVE  /\ Len(Append(s, g)) = Len(s) + 1 /\ Append(s, g)[Len(s) + 1] = g
           /\ \A i \in 1..Len(s) : Append(s, g)[i] = s[i]
<1>1. s \in Seq(S \cup {g}) /\ g \in S \cup {g}
  OBVIOUS
<1> QED BY <1>1, AppendProperties

LEMMA ClearPushes ==
    ASSUME NEW p, NEW cs, NEW goal, NEW S, NEW st \in Seq(S), StackClear(p, cs, goal, st),
           NEW g, \A r \in g.mask : /\ r \in goal.rows /\ NodeClear(p, cs[r], g.expr)
                                    /\ Steps(p, cs[r], g.expr, <<>>) <= RuleSteps(p, cs[r], goal.key)
    PROVE  StackClear(p, cs, goal, Append(st, g))
<1>1. PICK u : u = Append(st, g)
  OBVIOUS
<1>2. /\ Len(u) = Len(st) + 1 /\ u[Len(st) + 1] = g /\ Len(st) \in Nat
      /\ \A i \in 1..Len(st) : u[i] = st[i]
  BY <1>1, AppendFacts
<1>3. ASSUME NEW i \in 1..Len(u), NEW r \in u[i].mask
      PROVE  /\ r \in goal.rows /\ NodeClear(p, cs[r], u[i].expr)
             /\ Steps(p, cs[r], u[i].expr, <<>>) <= RuleSteps(p, cs[r], goal.key)
  <2>1. CASE i = Len(st) + 1
    BY <2>1, <1>2, <1>3
  <2>2. CASE i # Len(st) + 1
    <3>1. i \in 1..Len(st) /\ u[i] = st[i]
      BY <2>2, <1>2
    <3> QED BY <3>1, <1>3 DEF StackClear
  <2> QED BY <2>1, <2>2
<1> QED BY <1>1, <1>3 DEF StackClear

LEMMA ClearPops ==
    ASSUME NEW p, NEW cs, NEW goal, NEW S, NEW st \in Seq(S), StackClear(p, cs, goal, st), st # <<>>
    PROVE  StackClear(p, cs, goal, Pop(st))
<1>1. PICK t : t = Pop(st)
  OBVIOUS
<1>2. Len(st) \in Nat /\ Len(st) > 0
  OBVIOUS
<1>3. Len(t) = Len(st) - 1 /\ \A i \in 1..(Len(st) - 1) : i \in 1..Len(st) /\ t[i] = st[i]
  BY <1>1, <1>2, PopFacts
<1> QED BY <1>1, <1>3 DEF StackClear

LEMMA ClearReplaces ==
    ASSUME NEW p, NEW cs, NEW goal, NEW S, NEW st \in Seq(S), StackClear(p, cs, goal, st), st # <<>>,
           NEW f, f = st[Len(st)], NEW g, g.expr = f.expr, g.mask = f.mask
    PROVE  StackClear(p, cs, goal, Append(Pop(st), g))
<1>1. PICK t : t = Pop(st)
  OBVIOUS
<1>2. Len(st) \in Nat /\ Len(st) > 0 /\ Len(st) \in 1..Len(st)
  OBVIOUS
<1>3. t \in Seq(S) /\ StackClear(p, cs, goal, t)
  BY <1>1, <1>2, PopFacts, ClearPops
<1>4. \A r \in g.mask : /\ r \in goal.rows /\ NodeClear(p, cs[r], g.expr)
                        /\ Steps(p, cs[r], g.expr, <<>>) <= RuleSteps(p, cs[r], goal.key)
  BY <1>2 DEF StackClear
<1>5. StackClear(p, cs, goal, Append(t, g))
  BY <1>3, <1>4, ClearPushes
<1> QED BY <1>1, <1>5

LEMMA RequestClearStays ==
    ASSUME UNCHANGED input
    PROVE  RequestClear' <=> RequestClear
<1>1. program' = program /\ cells' = cells /\ request' = request
  BY DEF input
<1> QED BY <1>1 DEF RequestClear, OutputKey

(* A rule of every request the driver works on is clear if the request is. *)
LEMMA GoalClear ==
    ASSUME Inductive, Lazy, Running, Asked # {}, RequestClear, NEW r \in Goal.rows
    PROVE  /\ RuleClear(program, cells[r], Goal.key)
           /\ r \in Rows /\ cells[r] \in Cells
<1>1. /\ request \in [Rows -> Seq(Rules)] /\ cells \in [Rows -> Cells] /\ tasks \in Seq(TaskType)
      /\ program \in Programs /\ Goal.rows \in SUBSET Rows
  BY GoalFacts DEF Inductive, Typed
<1>2. CASE tasks = <<>>
  <2>1. Goal.key = OutputKey(Output) /\ r \in RowsAsking(Output)
    BY <1>2, GoalFacts
  <2>2. PICK i \in 1..Len(request[r]) : request[r][i] = Output
    BY <2>1 DEF RowsAsking
  <2> QED BY <2>1, <2>2, <1>1 DEF RequestClear
<1>3. CASE tasks # <<>>
  <2>1. Len(tasks) \in 1..Len(tasks)
    BY <1>1, <1>3
  <2>2. Goal = tasks[Len(tasks)]
    BY <1>3 DEF Goal
  <2> QED BY <2>1, <2>2, <1>1 DEF Lazy, TasksClear
<1> QED BY <1>2, <1>3

-----------------------------------------------------------------------------
(* The steps keep this.                                                    *)
LEMMA StillRunning ==
    Running => response.mode # "explain"
BY DEF Running, Unanswered

LEMMA LazyStackStep ==
    ASSUME Lazy, Running, UNCHANGED <<input, evaluated, tasks, waiting, response>>,
           RequestClear => StackClear(program, cells, Goal, stack')
    PROVE  Lazy'
<1>1. /\ program' = program /\ cells' = cells /\ tasks' = tasks /\ waiting' = waiting
      /\ response' = response /\ Goal' = Goal /\ (RequestClear' <=> RequestClear)
  BY GoalStays, RequestClearStays DEF input
<1>2. WaitingFor(tasks', waiting')
  BY <1>1 DEF Lazy
<1>3. ASSUME RequestClear'
      PROVE  /\ response'.mode # "explain" /\ TasksClear(program', cells', tasks')
             /\ StackClear(program', cells', Goal', stack')
  BY <1>1, <1>3 DEF Lazy
<1> QED BY <1>2, <1>3 DEF Lazy

LEMMA NothingClear ==
    /\ \A p, cs : TasksClear(p, cs, <<>>)
    /\ \A p, cs, goal : StackClear(p, cs, goal, <<>>)
    /\ WaitingFor(<<>>, {})
BY DEF TasksClear, StackClear, WaitingFor

LEMMA LazyDeclineStep ==
    ASSUME Decline, UNCHANGED input, ~RequestClear
    PROVE  Lazy'
<1>1. stack' = <<>> /\ tasks' = <<>> /\ waiting' = {}
  BY DEF Decline
<1>2. ~RequestClear'
  BY RequestClearStays
<1> QED BY <1>1, <1>2, NothingClear DEF Lazy

(* An output that is refused, or fails in a row that asks for it, is not   *)
(* clear.                                                                  *)
LEMMA NotClear ==
    ASSUME NEW name, NEW r \in RowsAsking(name), ~Meaning(program, cells[r], OutputKey(name)).ok
    PROVE  ~RequestClear
<1>1. PICK i \in 1..Len(request[r]) : request[r][i] = name
  BY DEF RowsAsking
<1>2. r \in Rows
  BY DEF RowsAsking
<1> QED BY <1>1, <1>2 DEF RequestClear, RuleClear

LEMMA RefusedNotClear ==
    ASSUME Inductive, NEW name \in Asked, Status(program, name) # "ok"
    PROVE  ~RequestClear
<1>1. PICK r : r \in RowsAsking(name)
  BY DEF Asked
<1>2. /\ program \in Programs /\ cells[r] \in Cells /\ name \in Rules /\ OutputKey(name) \in Keys
  BY <1>1, AskedFacts DEF Inductive, Typed
<1>3. RefusalOf(program, OutputKey(name)) # "none"
  BY <1>2, BulkAssumption DEF WellTyped, RefusalOf, OutputKey, Statuses
<1>4. Meaning(program, cells[r], OutputKey(name)) = Err(RefusalOf(program, OutputKey(name)))
  BY <1>2, <1>3, MeaningRule
<1>5. ~Meaning(program, cells[r], OutputKey(name)).ok
  BY <1>4, OkFacts
<1> QED BY <1>1, <1>5, NotClear

LEMMA LazyCompleteStep ==
    ASSUME Inductive, Lazy, Running, Asked # {}, UNCHANGED input,
           NEW cols, ColumnsSound(program, cells, cols),
           Goal.rows \subseteq ComputedIn(cols, Goal.key), CompleteGoal(cols)
    PROVE  Lazy'
<1>1. /\ program' = program /\ cells' = cells /\ (RequestClear' <=> RequestClear)
      /\ tasks \in Seq(TaskType)
  BY RequestClearStays DEF input, Inductive, Typed
<1>2. CASE tasks # <<>>
  <2>1. /\ stack' = <<>> /\ tasks' = Pop(tasks) /\ response' = response
        /\ waiting' = waiting \ {Goal.key} /\ Goal = tasks[Len(tasks)]
    BY <1>2 DEF CompleteGoal, StillWaiting, Goal
  <2>2. Len(tasks) \in Nat /\ Len(tasks) > 0
    BY <1>1, <1>2
  <2>3. PICK ts : ts = Pop(tasks)
    OBVIOUS
  <2>4. /\ Len(ts) = Len(tasks) - 1
        /\ \A i \in 1..(Len(tasks) - 1) : i \in 1..Len(tasks) /\ ts[i] = tasks[i]
    BY <1>1, <2>2, <2>3, PopFacts
  <2>5. WaitingFor(ts, waiting \ {Goal.key})
    <3>1. /\ waiting = {tasks[i].key : i \in 1..Len(tasks)}
          /\ \A i, j \in 1..Len(tasks) : tasks[i].key = tasks[j].key => i = j
      BY DEF Lazy, WaitingFor
    <3>2. ASSUME NEW k \in waiting, k # Goal.key
          PROVE  \E i \in 1..Len(ts) : k = ts[i].key
      <4>1. PICK i \in 1..Len(tasks) : k = tasks[i].key
        BY <3>1
      <4>2. i # Len(tasks)
        BY <4>1, <3>2, <2>1
      <4>3. i \in 1..(Len(tasks) - 1) /\ i \in 1..Len(ts)
        BY <4>2, <2>2, <2>4
      <4> QED BY <4>1, <4>3, <2>4
    <3>3. ASSUME NEW i \in 1..Len(ts)
          PROVE  ts[i].key \in waiting /\ ts[i].key # Goal.key
      <4>1. i \in 1..Len(tasks) /\ ts[i] = tasks[i] /\ i # Len(tasks) /\ Len(tasks) \in 1..Len(tasks)
        BY <2>2, <2>4
      <4> QED BY <4>1, <3>1, <2>1
    <3>4. \A i, j \in 1..Len(ts) : ts[i].key = ts[j].key => i = j
      BY <3>1, <2>4
    <3> QED BY <3>2, <3>3, <3>4 DEF WaitingFor
  <2>6. RequestClear => TasksClear(program, cells, ts)
    <3> SUFFICES ASSUME RequestClear, NEW i \in 1..Len(ts), NEW r \in ts[i].rows
                 PROVE  /\ RuleClear(program, cells[r], ts[i].key)
                        /\ \A j \in 1..(i - 1) :
                              /\ r \in ts[j].rows
                              /\ RuleSteps(program, cells[r], ts[i].key)
                                   < RuleSteps(program, cells[r], ts[j].key)
      BY DEF TasksClear
    <3>1. i \in 1..Len(tasks) /\ ts[i] = tasks[i]
      BY <2>4
    <3>2. \A j \in 1..(i - 1) : ts[j] = tasks[j]
      BY <2>2, <2>4
    <3> QED BY <3>1, <3>2 DEF Lazy, TasksClear
  <2> QED BY <1>1, <2>1, <2>3, <2>5, <2>6, NothingClear DEF Lazy
<1>3. CASE tasks = <<>> /\ RestrictedTo(cols[Goal.key].errors, Goal.rows) # NoErrors
  <2>1. Decline
    BY <1>3 DEF CompleteGoal
  <2>2. PICK name : name = Output
    OBVIOUS
  <2>3. Goal.key = OutputKey(name) /\ Goal.rows = RowsAsking(name) /\ name \in Asked
    BY <1>3, <2>2, GoalFacts
  <2>4. PICK column : column = cols[Goal.key]
    OBVIOUS
  <2>5. PICK r \in RowsAsking(name) : r \in DOMAIN column.errors
    <3>1. PICK errors : errors = RestrictedTo(column.errors, RowsAsking(name))
      OBVIOUS
    <3>2. errors # NoErrors
      BY <1>3, <2>3, <2>4, <3>1
    <3>3. RowsAsking(name) # {}
      BY <2>3 DEF Asked
    <3>4. Goal.key \in DOMAIN cols
      BY <2>3, <3>3 DEF ComputedIn
    <3>5. column.errors \in ErrorsType
      BY <2>4, <3>4 DEF ColumnsSound, ColumnType
    <3>6. SUFFICES ASSUME DOMAIN column.errors \cap RowsAsking(name) = {}
                   PROVE  errors = NoErrors
      BY <3>2
    <3>7. errors = [x \in {} |-> column.errors[x]]
      BY <3>1, <3>6 DEF RestrictedTo
    <3> QED BY <3>7 DEF NoErrors
  <2>6. Goal.key \in DOMAIN cols /\ r \in column.computed
    BY <2>3, <2>4, <2>5 DEF ComputedIn
  <2>7. Meaning(program, cells[r], OutputKey(name)) = Err(column.errors[r])
    BY <2>3, <2>4, <2>5, <2>6 DEF ColumnsSound, ColumnRight, RuleRight
  <2>8. ~Meaning(program, cells[r], OutputKey(name)).ok
    BY <2>7, OkFacts
  <2> QED BY <2>1, <2>5, <2>8, NotClear, LazyDeclineStep
<1>4. CASE tasks = <<>> /\ RestrictedTo(cols[Goal.key].errors, Goal.rows) = NoErrors
  <2>1. PICK values : \/ response' = response
                      \/ response' = Assemble(values)
    BY <1>4 DEF CompleteGoal
  <2>2. response'.mode # "explain"
    BY <2>1, StillRunning DEF Assemble
  <2>3. tasks' = <<>> /\ stack' = <<>> /\ waiting' = waiting
    BY <1>4 DEF CompleteGoal
  <2>4. WaitingFor(tasks', waiting')
    BY <1>4, <2>3 DEF Lazy
  <2> QED BY <2>2, <2>3, <2>4, NothingClear DEF Lazy
<1> QED BY <1>2, <1>3, <1>4

-----------------------------------------------------------------------------
LEMMA TakenKeeps ==
    ASSUME NEW f \in FrameType, NEW col, NEW errors, NEW g, g = Taken(f, col, errors)
    PROVE  g.expr = f.expr /\ g.mask = f.mask
BY DEF Taken, FrameType

LEMMA ReadKeeps ==
    ASSUME NEW f \in FrameType, NEW column, NEW g, g = ReadFrame(f, column)
    PROVE  g.expr = f.expr /\ g.mask = f.mask
BY DEF ReadFrame, FrameType

(* A frame takes a column.                                                 *)
LEMMA ClearReads ==
    ASSUME NEW p, NEW cs, NEW goal, NEW st \in Seq(FrameType), StackClear(p, cs, goal, st),
           st # <<>>, NEW cols, NEW k
    PROVE  StackClear(p, cs, goal, ReadOut(st, cols, k))
<1>1. PICK f, column, g : f = st[Len(st)] /\ column = cols[k] /\ g = ReadFrame(f, column)
  OBVIOUS
<1>2. f \in FrameType
  <2>1. Len(st) \in 1..Len(st)
    OBVIOUS
  <2> QED BY <2>1, <1>1
<1>3. g.expr = f.expr /\ g.mask = f.mask
  BY <1>1, <1>2, ReadKeeps
<1>4. StackClear(p, cs, goal, Append(Pop(st), g))
  BY <1>1, <1>3, ClearReplaces
<1>5. ReadOut(st, cols, k) = Append(Pop(st), g)
  BY <1>1 DEF ReadOut, ReadFrame
<1> QED BY <1>4, <1>5

LEMMA ClearTakes ==
    ASSUME NEW p, NEW cs, NEW goal, NEW st \in Seq(FrameType), StackClear(p, cs, goal, st),
           st # <<>>, NEW col, NEW errors
    PROVE  StackClear(p, cs, goal, Append(Pop(st), Taken(st[Len(st)], col, errors)))
<1>1. PICK f, g : f = st[Len(st)] /\ g = Taken(f, col, errors)
  OBVIOUS
<1>2. f \in FrameType
  <2>1. Len(st) \in 1..Len(st)
    OBVIOUS
  <2> QED BY <2>1, <1>1
<1>3. g.expr = f.expr /\ g.mask = f.mask
  BY <1>1, <1>2, TakenKeeps
<1>4. StackClear(p, cs, goal, Append(Pop(st), g))
  BY <1>1, <1>3, ClearReplaces
<1> QED BY <1>1, <1>4

(* What is clear under evaluation, and for how long.                       *)
LEMMA TopClear ==
    ASSUME Inductive, Lazy, stack # <<>>, RequestClear
    PROVE  /\ StackClear(program, cells, Goal, stack)
           /\ stack \in Seq(FrameType) /\ Top.mask \subseteq Goal.rows /\ Goal.rows \subseteq Rows
           /\ \A r \in Top.mask :
                 /\ r \in Goal.rows /\ cells[r] \in Cells
                 /\ NodeClear(program, cells[r], Top.expr)
                 /\ Steps(program, cells[r], Top.expr, <<>>) \in Nat
                 /\ RuleSteps(program, cells[r], Goal.key) \in Nat
                 /\ Steps(program, cells[r], Top.expr, <<>>) <= RuleSteps(program, cells[r], Goal.key)
<1>1. /\ stack \in Seq(FrameType) /\ Top = stack[Len(stack)] /\ Len(stack) \in 1..Len(stack)
      /\ program \in Programs /\ Top.expr \in Exprs /\ Goal.key \in Keys
      /\ cells \in [Rows -> Cells] /\ Top.mask \in SUBSET Rows
      /\ Running /\ Asked # {}
  BY TopFacts DEF StackSound
<1>2. Goal.rows \subseteq Rows
  BY <1>1, GoalFacts
<1>3. StackClear(program, cells, Goal, stack)
  BY DEF Lazy
<1>4. \A r \in Top.mask :
         /\ r \in Goal.rows /\ NodeClear(program, cells[r], Top.expr)
         /\ Steps(program, cells[r], Top.expr, <<>>) <= RuleSteps(program, cells[r], Goal.key)
  BY <1>1, <1>3 DEF StackClear
<1>5. \A r \in Top.mask :
         /\ cells[r] \in Cells /\ Steps(program, cells[r], Top.expr, <<>>) \in Nat
         /\ RuleSteps(program, cells[r], Goal.key) \in Nat
  BY <1>1, StepsFacts, RuleStepsFacts
<1> QED BY <1>1, <1>2, <1>3, <1>4, <1>5

-----------------------------------------------------------------------------
LEMMA LazyAnswerNothing ==
    ASSUME Inductive, Lazy, AnswerNothing
    PROVE  Lazy'
<1>1. /\ UNCHANGED <<input, driver>> /\ Asked = {} /\ response'.mode = "fast"
  BY DEF AnswerNothing, Assemble
<1>2. stack' = <<>> /\ tasks' = tasks /\ tasks = <<>> /\ waiting' = waiting
  BY <1>1 DEF driver, Inductive, StackRight, TasksRight
<1>3. response'.mode # "explain"
  BY <1>1
<1>4. WaitingFor(tasks', waiting')
  BY <1>2 DEF Lazy
<1> QED BY <1>2, <1>3, <1>4, NothingClear DEF Lazy

LEMMA LazyDeclineOutput ==
    ASSUME Inductive, Lazy, DeclineOutput
    PROVE  Lazy'
<1>1. /\ Running /\ Asked # {} /\ tasks = <<>> /\ Decline /\ UNCHANGED input
      /\ \/ \E name \in Asked : ~Resolved(name)
         \/ Status(program, Output) = "missing_version"
  BY DEF DeclineOutput
<1>2. CASE \E name \in Asked : ~Resolved(name)
  <2>1. PICK name \in Asked : ~Resolved(name)
    BY <1>2
  <2>2. Status(program, name) # "ok"
    BY <2>1 DEF Resolved
  <2>3. ~RequestClear
    BY <2>1, <2>2, RefusedNotClear
  <2> QED BY <2>3, <1>1, LazyDeclineStep
<1>3. CASE Status(program, Output) = "missing_version"
  <2>1. PICK name : name = Output
    OBVIOUS
  <2>2. name \in Asked
    BY <2>1, <1>1, GoalFacts
  <2>3. Status(program, name) # "ok"
    BY <2>1, <1>3
  <2>4. ~RequestClear
    BY <2>2, <2>3, RefusedNotClear
  <2> QED BY <2>4, <1>1, LazyDeclineStep
<1> QED BY <1>1, <1>2, <1>3

LEMMA LazyAttemptCached ==
    ASSUME Inductive, Lazy, AttemptCached
    PROVE  Lazy'
<1>1. /\ Attempting /\ Uncomputed(Goal.key, Goal.rows) = {}
      /\ CompleteGoal(columns) /\ UNCHANGED <<input, columns>>
  BY DEF AttemptCached
<1>2. /\ Running /\ Asked # {} /\ ColumnsSound(program, cells, columns)
      /\ Goal.rows \subseteq ComputedIn(columns, Goal.key)
  BY <1>1, AttemptFacts
<1>3. PICK cols : cols = columns
  OBVIOUS
<1>4. /\ ColumnsSound(program, cells, cols) /\ CompleteGoal(cols)
      /\ Goal.rows \subseteq ComputedIn(cols, Goal.key) /\ UNCHANGED input
  BY <1>1, <1>2, <1>3
<1> QED BY <1>2, <1>4, LazyCompleteStep

LEMMA LazyAttemptRefused ==
    ASSUME Inductive, Lazy, AttemptRefused
    PROVE  Lazy'
<1>1. PICK rows : rows = Uncomputed(Goal.key, Goal.rows)
  OBVIOUS
<1>2. PICK k : k = Goal.key
  OBVIOUS
<1>3. PICK cols : cols = Stored(k, Placeholder, Fail(rows, Refusal(k)), rows)
  OBVIOUS
<1>4. Attempting /\ Refusal(k) # "none" /\ CompleteGoal(cols) /\ UNCHANGED input
  BY <1>1, <1>2, <1>3 DEF AttemptRefused
<1>5. /\ Running /\ Asked # {} /\ program \in Programs /\ cells \in [Rows -> Cells]
      /\ ColumnsSound(program, cells, columns) /\ k \in Keys /\ rows \in SUBSET Rows
      /\ rows = Goal.rows \ ComputedIn(columns, k)
  BY <1>1, <1>2, <1>4, AttemptFacts
<1>6. /\ ColumnsSound(program, cells, cols) /\ Grown(columns, cols)
      /\ rows \subseteq ComputedIn(cols, k)
  BY <1>3, <1>4, <1>5, RefusedStored
<1>7. Goal.rows \subseteq ComputedIn(cols, Goal.key)
  BY <1>2, <1>5, <1>6 DEF Grown
<1> QED BY <1>4, <1>5, <1>6, <1>7, LazyCompleteStep

LEMMA NodeKeeps ==
    ASSUME NEW k, NEW e, NEW mask, NEW b, NEW g, g = Node(k, e, mask, b)
    PROVE  g.expr = e /\ g.mask = mask
BY DEF Node

LEMMA LazyAttempt ==
    ASSUME Inductive, Lazy, Attempt
    PROVE  Lazy'
<1>1. PICK rows, k, e, b, g :
        /\ rows = Uncomputed(Goal.key, Goal.rows) /\ k = Goal.key /\ e = Body(program, k.rule)
        /\ b = TRUE /\ g = Node(k, e, rows, b)
  OBVIOUS
<1>2. /\ Attempting /\ stack' = <<g>>
      /\ UNCHANGED <<input, evaluated, tasks, waiting, response>>
  BY <1>1 DEF Attempt
<1>3. /\ Running /\ Asked # {} /\ program \in Programs /\ k \in Keys
      /\ rows = Goal.rows \ ComputedIn(columns, k)
  BY <1>1, <1>2, AttemptFacts
<1>4. g.expr = e /\ g.mask = rows
  <2>1. g = Node(k, e, rows, b)
    BY <1>1
  <2> QED BY <2>1, NodeKeeps
<1>5. ASSUME RequestClear
      PROVE  StackClear(program, cells, Goal, stack')
  <2>1. ASSUME NEW r \in rows
        PROVE  /\ r \in Goal.rows /\ NodeClear(program, cells[r], e)
               /\ Steps(program, cells[r], e, <<>>) <= RuleSteps(program, cells[r], Goal.key)
    <3>1. r \in Goal.rows
      BY <1>3
    <3>2. RuleClear(program, cells[r], k) /\ cells[r] \in Cells
      BY <3>1, <1>1, <1>3, <1>5, GoalClear
    <3>3. NodeClear(program, cells[r], e) /\ e \in Exprs
      BY <3>2, <1>1, <1>3, BodyClear, BodyFacts
    <3>4. Steps(program, cells[r], e, <<>>) = RuleSteps(program, cells[r], k)
      BY <1>1 DEF RuleSteps
    <3>5. Steps(program, cells[r], e, <<>>) \in Nat
      BY <3>2, <3>3, <1>3, StepsFacts
    <3>6. \A x, y \in Nat : x = y => x <= y
      OBVIOUS
    <3> QED BY <3>1, <3>3, <3>4, <3>5, <3>6, <1>1
  <2>2. Len(stack') = 1 /\ stack'[1] = g
    BY <1>2
  <2> QED BY <2>1, <2>2, <1>4 DEF StackClear
<1> QED BY <1>2, <1>3, <1>5, LazyStackStep

-----------------------------------------------------------------------------
LEMMA LazySkipOperand ==
    ASSUME Inductive, Lazy, SkipOperand
    PROVE  Lazy'
<1>1. /\ stack # <<>>
      /\ stack' = Append(Pop(stack), Taken(stack[Len(stack)], Placeholder, NoErrors))
      /\ UNCHANGED <<input, evaluated, tasks, waiting, response>>
  BY DEF SkipOperand, Deliver
<1>2. RequestClear => StackClear(program, cells, Goal, stack')
  <2>1. PICK col, errors : col = Placeholder /\ errors = NoErrors
    OBVIOUS
  <2>2. stack' = Append(Pop(stack), Taken(stack[Len(stack)], col, errors))
    BY <2>1, <1>1
  <2> QED BY <2>2, <1>1, TopClear, ClearTakes
<1> QED BY <1>1, <1>2, TopFacts, LazyStackStep

LEMMA LazyDescend ==
    ASSUME Inductive, Lazy, Descend
    PROVE  Lazy'
<1>1. PICK p, cs, f, k, e, mask, b, g :
        /\ p = program /\ cs = cells /\ f = Top /\ k = Top.key /\ e = NextOperand(Top)
        /\ mask = OperandRows(Top) /\ b = FALSE /\ g = Node(k, e, mask, b)
  OBVIOUS
<1>2. /\ stack # <<>> /\ WantsOperand(f) /\ stack' = Append(stack, g)
      /\ UNCHANGED <<input, evaluated, tasks, waiting, response>>
  BY <1>1 DEF Descend
<1>3. /\ p \in Programs /\ cs \in [Rows -> Cells] /\ Running /\ f \in FrameType
      /\ FrameSound(p, cs, f)
  BY <1>1, <1>2, TopFacts
<1>4. /\ f.n < Len(f.expr.args) /\ e = ArgAt(f.expr, f.n) /\ mask \subseteq f.mask
      /\ \A r \in mask : Standing(p, cs[r], f.expr, f.n, f.acc[r])
      /\ \A r \in mask : f.expr.op = "if" /\ f.n = 1 => f.acc[r] = Holds
  BY <1>1, <1>2, <1>3, WantsRows
<1>5. g.expr = e /\ g.mask = mask
  BY <1>1, NodeKeeps
<1>6. ASSUME RequestClear
      PROVE  StackClear(program, cells, Goal, stack')
  <2>1. /\ StackClear(p, cs, Goal, stack) /\ stack \in Seq(FrameType)
        /\ f.mask \subseteq Goal.rows
        /\ \A r \in f.mask :
             /\ r \in Goal.rows /\ cs[r] \in Cells
             /\ NodeClear(p, cs[r], f.expr)
             /\ Steps(p, cs[r], f.expr, <<>>) \in Nat
             /\ RuleSteps(p, cs[r], Goal.key) \in Nat
             /\ Steps(p, cs[r], f.expr, <<>>) <= RuleSteps(p, cs[r], Goal.key)
    BY <1>1, <1>2, <1>6, TopClear
  <2>2. ASSUME NEW r \in mask
        PROVE  /\ r \in Goal.rows /\ NodeClear(p, cs[r], e)
               /\ Steps(p, cs[r], e, <<>>) <= RuleSteps(p, cs[r], Goal.key)
    <3>1. r \in f.mask /\ f.expr \in Exprs /\ f.n \in Nat
      BY <1>3, <1>4, FrameFacts
    <3>2. NodeClear(p, cs[r], e) /\ Steps(p, cs[r], e, <<>>) < Steps(p, cs[r], f.expr, <<>>)
      BY <3>1, <2>1, <1>3, <1>4, OperandClear
    <3>3. e \in Exprs
      BY <3>1, <2>1, <1>3, <1>4, RowOperand
    <3>4. Steps(p, cs[r], e, <<>>) \in Nat
      BY <3>1, <3>3, <2>1, <1>3, StepsFacts
    <3>5. \A x, y, z \in Nat : x < y /\ y <= z => x <= z
      OBVIOUS
    <3> QED BY <3>1, <3>2, <3>4, <3>5, <2>1
  <2>3. StackClear(p, cs, Goal, Append(stack, g))
    BY <2>1, <2>2, <1>5, ClearPushes
  <2> QED BY <2>3, <1>1, <1>2
<1> QED BY <1>2, <1>3, <1>6, LazyStackStep

(* A clear node is not a construct the columns lack.                       *)
LEMMA LazyMeetUnsupported ==
    ASSUME Inductive, Lazy, MeetUnsupported
    PROVE  Lazy'
<1>1. stack # <<>> /\ Top.expr.op = "unsupported" /\ Decline /\ UNCHANGED input
  BY DEF MeetUnsupported
<1>2. Top.mask # {} /\ Top.expr \in Exprs /\ program \in Programs
  BY <1>1, TopFacts DEF FrameSound
<1>3. PICK r : r \in Top.mask
  BY <1>2
<1>4. ~RequestClear
  <2> SUFFICES ASSUME RequestClear
               PROVE  FALSE
    OBVIOUS
  <2>1. cells[r] \in Cells /\ NodeClear(program, cells[r], Top.expr)
    BY <1>1, <1>3, TopClear
  <2>2. Reaches(program, cells[r], Top.expr, <<>>)
    BY <2>1, <1>1, <1>2, EmptyPartial, TouchesAssumption DEF TouchesOn
  <2> QED BY <2>1, <2>2 DEF NodeClear
<1> QED BY <1>1, <1>4, LazyDeclineStep

LEMMA LazyReadCached ==
    ASSUME Inductive, Lazy, ReadCached
    PROVE  Lazy'
<1>1. /\ stack # <<>> /\ stack' = ReadOut(stack, columns, Read)
      /\ UNCHANGED <<input, evaluated, tasks, waiting, response>>
  BY DEF ReadCached, Reading
<1>2. RequestClear => StackClear(program, cells, Goal, stack')
  BY <1>1, TopClear, ClearReads
<1> QED BY <1>1, <1>2, TopFacts, LazyStackStep

LEMMA LazyReadRefused ==
    ASSUME Inductive, Lazy, ReadRefused
    PROVE  Lazy'
<1>1. PICK cols : cols = columns'
  OBVIOUS
<1>2. /\ stack # <<>> /\ stack' = ReadOut(stack, cols, Read)
      /\ UNCHANGED <<input, evaluated, tasks, waiting, response>>
  BY <1>1 DEF ReadRefused, Reading
<1>3. RequestClear => StackClear(program, cells, Goal, stack')
  BY <1>2, TopClear, ClearReads
<1> QED BY <1>2, <1>3, TopFacts, LazyStackStep

(* A clear read needs a column with fewer steps to go than any waiting.    *)
LEMMA GoalNested ==
    ASSUME Inductive, Lazy, Running, Asked # {}, RequestClear, NEW r \in Goal.rows,
           NEW j \in 1..Len(tasks)
    PROVE  /\ r \in tasks[j].rows
           /\ RuleSteps(program, cells[r], Goal.key) <= RuleSteps(program, cells[r], tasks[j].key)
           /\ RuleSteps(program, cells[r], tasks[j].key) \in Nat
<1>1. /\ program \in Programs /\ cells \in [Rows -> Cells] /\ tasks \in Seq(TaskType)
      /\ Goal.rows \in SUBSET Rows /\ Goal.key \in Keys
  BY GoalFacts DEF Inductive, Typed
<1>2. Len(tasks) \in Nat /\ Len(tasks) \in 1..Len(tasks) /\ tasks # <<>>
  BY <1>1
<1>3. Goal = tasks[Len(tasks)]
  BY <1>2 DEF Goal
<1>4. cells[r] \in Cells /\ tasks[j].key \in Keys
  <2>1. tasks[j] \in TaskType
    BY <1>1
  <2> QED BY <2>1, <1>1 DEF TaskType
<1>5. /\ RuleSteps(program, cells[r], tasks[j].key) \in Nat
      /\ RuleSteps(program, cells[r], Goal.key) \in Nat
  BY <1>1, <1>4, RuleStepsFacts
<1>6. CASE j = Len(tasks)
  BY <1>3, <1>5, <1>6
<1>7. CASE j # Len(tasks)
  <2>1. j \in 1..(Len(tasks) - 1)
    BY <1>2, <1>7
  <2>2. /\ r \in tasks[j].rows
        /\ RuleSteps(program, cells[r], Goal.key) < RuleSteps(program, cells[r], tasks[j].key)
    BY <2>1, <1>2, <1>3 DEF Lazy, TasksClear
  <2> QED BY <2>2, <1>5
<1> QED BY <1>6, <1>7

LEMMA ReadNested ==
    ASSUME Inductive, Lazy, Reading, RequestClear, NEW r \in Top.mask
    PROVE  /\ r \in Goal.rows
           /\ RuleClear(program, cells[r], Read)
           /\ RuleSteps(program, cells[r], Read) \in Nat
           /\ RuleSteps(program, cells[r], Read) < RuleSteps(program, cells[r], Goal.key)
           /\ \A j \in 1..Len(tasks) :
                 /\ r \in tasks[j].rows
                 /\ RuleSteps(program, cells[r], Read) < RuleSteps(program, cells[r], tasks[j].key)
<1>1. /\ stack # <<>> /\ Top.expr.op = "derived" /\ Read = Top.expr.key /\ Read \in Keys
      /\ program \in Programs /\ Top.expr \in Exprs /\ Running /\ Asked # {}
  BY ReadingFacts, TopFacts
<1>2. /\ r \in Goal.rows /\ cells[r] \in Cells /\ NodeClear(program, cells[r], Top.expr)
      /\ Steps(program, cells[r], Top.expr, <<>>) \in Nat
      /\ RuleSteps(program, cells[r], Goal.key) \in Nat
      /\ Steps(program, cells[r], Top.expr, <<>>) <= RuleSteps(program, cells[r], Goal.key)
  BY <1>1, TopClear
<1>3. /\ RuleClear(program, cells[r], Read)
      /\ RuleSteps(program, cells[r], Read) < Steps(program, cells[r], Top.expr, <<>>)
  BY <1>1, <1>2, ReadClear
<1>4. RuleSteps(program, cells[r], Read) \in Nat
  BY <1>1, <1>2, RuleStepsFacts
<1>5. \A x, y, z \in Nat : x < y /\ y <= z => x < z
  OBVIOUS
<1>6. RuleSteps(program, cells[r], Read) < RuleSteps(program, cells[r], Goal.key)
  BY <1>2, <1>3, <1>4, <1>5
<1>7. ASSUME NEW j \in 1..Len(tasks)
      PROVE  /\ r \in tasks[j].rows
             /\ RuleSteps(program, cells[r], Read) < RuleSteps(program, cells[r], tasks[j].key)
  <2>1. /\ r \in tasks[j].rows
        /\ RuleSteps(program, cells[r], Goal.key) <= RuleSteps(program, cells[r], tasks[j].key)
        /\ RuleSteps(program, cells[r], tasks[j].key) \in Nat
    BY <1>1, <1>2, GoalNested
  <2> QED BY <2>1, <1>2, <1>4, <1>5, <1>6
<1> QED BY <1>2, <1>3, <1>4, <1>6, <1>7

LEMMA LazyReadDeferred ==
    ASSUME Inductive, Lazy, ReadDeferred
    PROVE  Lazy'
<1>1. PICK k, rows, t, ts :
        k = Read /\ rows = ToCompute /\ t = [key |-> k, rows |-> rows] /\ ts = Append(tasks, t)
  OBVIOUS
<1>2. /\ Reading /\ k \notin waiting /\ tasks' = ts /\ waiting' = waiting \cup {k}
      /\ stack' = <<>> /\ UNCHANGED <<input, response>>
  BY <1>1 DEF ReadDeferred
<1>3. /\ program' = program /\ cells' = cells /\ (RequestClear' <=> RequestClear)
      /\ response'.mode # "explain"
  <2>1. Running
    BY <1>2, ReadingFacts, TopFacts
  <2> QED BY <2>1, <1>2, RequestClearStays, StillRunning DEF input
<1>4. /\ Len(tasks) \in Nat /\ Len(ts) = Len(tasks) + 1 /\ ts[Len(tasks) + 1] = t
      /\ \A i \in 1..Len(tasks) : ts[i] = tasks[i]
  <2>1. tasks \in Seq(TaskType)
    BY DEF Inductive, Typed
  <2> QED BY <2>1, <1>1, AppendFacts
<1>5. /\ \A i \in 1..Len(ts) : i # Len(tasks) + 1 => i \in 1..Len(tasks)
      /\ Len(tasks) + 1 \in 1..Len(ts) /\ \A i \in 1..Len(tasks) : i \in 1..Len(ts)
  BY <1>4
<1>6. t.key = k /\ t.rows = rows
  BY <1>1
<1>7. WaitingFor(tasks, waiting)
  BY DEF Lazy
<1>8. WaitingFor(ts, waiting \cup {k})
  <2>1. waiting \cup {k} = {ts[i].key : i \in 1..Len(ts)}
    <3>1. waiting = {tasks[i].key : i \in 1..Len(tasks)}
      BY <1>7 DEF WaitingFor
    <3>2. \A x \in waiting : \E i \in 1..Len(ts) : x = ts[i].key
      BY <3>1, <1>4, <1>5
    <3>3. \A i \in 1..Len(ts) : ts[i].key \in waiting \cup {k}
      BY <3>1, <1>4, <1>5, <1>6
    <3>4. \E i \in 1..Len(ts) : k = ts[i].key
      BY <1>4, <1>5, <1>6
    <3> QED BY <3>2, <3>3, <3>4
  <2>2. \A i \in 1..Len(tasks) : tasks[i].key # k
    BY <1>2, <1>7 DEF WaitingFor
  <2>3. ASSUME NEW i \in 1..Len(ts), NEW j \in 1..Len(ts), ts[i].key = ts[j].key
        PROVE  i = j
    <3>1. CASE i = Len(tasks) + 1 \/ j = Len(tasks) + 1
      BY <2>2, <2>3, <3>1, <1>4, <1>5, <1>6
    <3>2. CASE i # Len(tasks) + 1 /\ j # Len(tasks) + 1
      BY <2>3, <3>2, <1>4, <1>5, <1>7 DEF WaitingFor
    <3> QED BY <3>1, <3>2
  <2> QED BY <2>1, <2>3 DEF WaitingFor
<1>9. ASSUME RequestClear
      PROVE  TasksClear(program, cells, ts)
  <2> SUFFICES ASSUME NEW i \in 1..Len(ts), NEW r \in ts[i].rows
               PROVE  /\ RuleClear(program, cells[r], ts[i].key)
                      /\ \A j \in 1..(i - 1) :
                            /\ r \in ts[j].rows
                            /\ RuleSteps(program, cells[r], ts[i].key)
                                 < RuleSteps(program, cells[r], ts[j].key)
    BY DEF TasksClear
  <2>1. CASE i = Len(tasks) + 1
    <3>1. ts[i].key = Read /\ r \in Top.mask
      BY <2>1, <1>1, <1>2, <1>4, <1>6, ReadingFacts
    <3>2. /\ RuleClear(program, cells[r], Read)
          /\ \A j \in 1..Len(tasks) :
                /\ r \in tasks[j].rows
                /\ RuleSteps(program, cells[r], Read) < RuleSteps(program, cells[r], tasks[j].key)
      BY <3>1, <1>2, <1>9, ReadNested
    <3>3. \A j \in 1..(i - 1) : j \in 1..Len(tasks)
      BY <2>1, <1>4
    <3> QED BY <3>1, <3>2, <3>3, <1>4
  <2>2. CASE i # Len(tasks) + 1
    <3>1. i \in 1..Len(tasks) /\ ts[i] = tasks[i]
      BY <2>2, <1>4, <1>5
    <3>2. \A j \in 1..(i - 1) : ts[j] = tasks[j]
      BY <3>1, <1>4
    <3> QED BY <3>1, <3>2, <1>9 DEF Lazy, TasksClear
  <2> QED BY <2>1, <2>2
<1> QED BY <1>2, <1>3, <1>8, <1>9, NothingClear DEF Lazy

(* A clear read is not of a column that waits for it.                      *)
LEMMA LazyReadCycle ==
    ASSUME Inductive, Lazy, ReadCycle
    PROVE  Lazy'
<1>1. Reading /\ ToCompute # {} /\ Read \in waiting /\ Decline /\ UNCHANGED input
  BY DEF ReadCycle
<1>2. PICK i \in 1..Len(tasks) : tasks[i].key = Read
  BY <1>1 DEF Lazy, WaitingFor
<1>3. PICK r \in ToCompute : r \in Top.mask
  BY <1>1, ReadingFacts
<1>4. ~RequestClear
  <2> SUFFICES ASSUME RequestClear
               PROVE  FALSE
    OBVIOUS
  <2>1. /\ RuleSteps(program, cells[r], Read) < RuleSteps(program, cells[r], Read)
        /\ RuleSteps(program, cells[r], Read) \in Nat
    BY <1>1, <1>2, <1>3, ReadNested
  <2> QED BY <2>1
<1> QED BY <1>1, <1>4, LazyDeclineStep

LEMMA LazyReadRecurses ==
    ASSUME Inductive, Lazy, ReadRecurses
    PROVE  Lazy'
<1>1. PICK k, e, rows, b, g :
        /\ k = Read /\ e = Body(program, Read.rule) /\ rows = ToCompute
        /\ b = TRUE /\ g = Node(k, e, rows, b)
  OBVIOUS
<1>2. /\ Reading /\ stack' = Append(stack, g)
      /\ UNCHANGED <<input, evaluated, tasks, waiting, response>>
  BY <1>1 DEF ReadRecurses
<1>3. /\ stack # <<>> /\ k \in Keys /\ rows \subseteq Top.mask /\ program \in Programs /\ Running
  BY <1>1, <1>2, ReadingFacts, TopFacts
<1>4. g.expr = e /\ g.mask = rows
  <2>1. g = Node(k, e, rows, b)
    BY <1>1
  <2> QED BY <2>1, NodeKeeps
<1>5. ASSUME RequestClear
      PROVE  StackClear(program, cells, Goal, stack')
  <2>1. StackClear(program, cells, Goal, stack) /\ stack \in Seq(FrameType)
    BY <1>3, <1>5, TopClear
  <2>2. ASSUME NEW r \in rows
        PROVE  /\ r \in Goal.rows /\ NodeClear(program, cells[r], e)
               /\ Steps(program, cells[r], e, <<>>) <= RuleSteps(program, cells[r], Goal.key)
    <3>1. r \in Top.mask /\ cells[r] \in Cells
      BY <1>3, <1>5, TopClear
    <3>2. /\ r \in Goal.rows /\ RuleClear(program, cells[r], k)
          /\ RuleSteps(program, cells[r], k) \in Nat
          /\ RuleSteps(program, cells[r], k) < RuleSteps(program, cells[r], Goal.key)
      BY <3>1, <1>1, <1>2, <1>5, ReadNested
    <3>3. NodeClear(program, cells[r], e)
      BY <3>1, <3>2, <1>1, <1>3, BodyClear
    <3>4. Steps(program, cells[r], e, <<>>) = RuleSteps(program, cells[r], k)
      BY <1>1 DEF RuleSteps
    <3>5. RuleSteps(program, cells[r], Goal.key) \in Nat
      BY <3>1, <1>3, <1>5, TopClear
    <3>6. \A x, y \in Nat : x < y => x <= y
      OBVIOUS
    <3> QED BY <3>2, <3>3, <3>4, <3>5, <3>6
  <2>3. StackClear(program, cells, Goal, Append(stack, g))
    BY <2>1, <2>2, <1>4, ClearPushes
  <2> QED BY <2>3, <1>2
<1> QED BY <1>2, <1>3, <1>5, LazyStackStep

LEMMA LazyReturn ==
    ASSUME Inductive, Lazy, Return
    PROVE  Lazy'
<1>1. PICK t, col, errors, below :
        t = Top /\ col = Column(Top) /\ errors = Errors(Top) /\ below = Pop(stack)
  OBVIOUS
<1>2. /\ stack # <<>> /\ ~t.body
      /\ stack' = Append(Pop(below), Taken(below[Len(below)], col, errors))
      /\ UNCHANGED <<input, evaluated, tasks, waiting, response>>
  BY <1>1 DEF Return, Finished, Deliver
<1>3. /\ Running /\ Len(stack) \in Nat \ {0} /\ Len(stack) # 1 /\ stack \in Seq(FrameType)
  BY <1>1, <1>2, TopFacts DEF StackSound
<1>4. below \in Seq(FrameType) /\ below # <<>>
  <2>1. below \in Seq(FrameType) /\ Len(below) = Len(stack) - 1
    BY <1>1, <1>3, PopFacts
  <2> QED BY <2>1, <1>3
<1>5. RequestClear => StackClear(program, cells, Goal, stack')
  <2> SUFFICES ASSUME RequestClear
               PROVE  StackClear(program, cells, Goal, stack')
    OBVIOUS
  <2>1. StackClear(program, cells, Goal, below)
    BY <1>1, <1>2, <1>3, TopClear, ClearPops
  <2> QED BY <2>1, <1>2, <1>4, ClearTakes
<1> QED BY <1>2, <1>3, <1>5, LazyStackStep

LEMMA LazyReturnFromRule ==
    ASSUME Inductive, Lazy, ReturnFromRule
    PROVE  Lazy'
<1>1. PICK cols, k : cols = columns' /\ k = Top.key
  OBVIOUS
<1>2. /\ stack # <<>> /\ UNCHANGED input
      /\ IF Len(stack) = 1 THEN CompleteGoal(cols)
         ELSE /\ stack' = ReadOut(Pop(stack), cols, k)
              /\ UNCHANGED <<evaluated, tasks, waiting, response>>
  BY <1>1 DEF ReturnFromRule, Finished, Depth
<1>3. /\ Running /\ Asked # {} /\ Len(stack) \in Nat \ {0} /\ stack \in Seq(FrameType)
  BY <1>2, TopFacts DEF StackSound
<1>4. CASE Len(stack) = 1
  <2>1. ColumnsSound(program, cells, cols) /\ Goal.rows \subseteq ComputedIn(cols, Goal.key)
    BY <1>1, <1>4, ReturnStored
  <2>2. CompleteGoal(cols)
    BY <1>2, <1>4
  <2> QED BY <2>1, <2>2, <1>2, <1>3, LazyCompleteStep
<1>5. CASE Len(stack) # 1
  <2>1. PICK below : below = Pop(stack)
    OBVIOUS
  <2>2. below \in Seq(FrameType) /\ below # <<>>
    <3>1. below \in Seq(FrameType) /\ Len(below) = Len(stack) - 1
      BY <2>1, <1>3, PopFacts
    <3> QED BY <3>1, <1>3, <1>5
  <2>3. RequestClear => StackClear(program, cells, Goal, stack')
    <3> SUFFICES ASSUME RequestClear
                 PROVE  StackClear(program, cells, Goal, stack')
      OBVIOUS
    <3>1. StackClear(program, cells, Goal, below)
      BY <2>1, <1>2, <1>3, TopClear, ClearPops
    <3> QED BY <3>1, <2>1, <2>2, <1>2, <1>5, ClearReads
  <2>4. UNCHANGED <<input, evaluated, tasks, waiting, response>>
    BY <1>2, <1>5
  <2> QED BY <2>3, <2>4, <1>3, LazyStackStep
<1> QED BY <1>4, <1>5

-----------------------------------------------------------------------------
(* While explain would come to a value for every output asked, over        *)
(* constructs the columns have, nothing the columns are asked for along    *)
(* the way is otherwise, and the tasks a column waits for get ever nearer  *)
(* to their end, so that none of them waits for itself.                    *)
THEOREM LazyHolds == Spec => []Lazy
<1>1. Init => Lazy
  <2> SUFFICES ASSUME Init
               PROVE  Lazy
    OBVIOUS
  <2>1. stack = <<>> /\ tasks = <<>> /\ waiting = {} /\ response = Unanswered
    BY DEF Init
  <2>2. response.mode # "explain"
    BY <2>1 DEF Unanswered
  <2> QED BY <2>1, <2>2, NothingClear DEF Lazy
<1>2. Inductive /\ Lazy /\ [Next]_vars => Lazy'
  <2> SUFFICES ASSUME Inductive, Lazy, [Next]_vars
               PROVE  Lazy'
    OBVIOUS
  <2>1. CASE UNCHANGED vars
    <3>1. /\ UNCHANGED input /\ evaluated' = evaluated /\ stack' = stack
          /\ tasks' = tasks /\ waiting' = waiting /\ response' = response
      BY <2>1 DEF vars, driver
    <3>2. program' = program /\ cells' = cells
      BY <3>1 DEF input
    <3> QED BY <3>1, <3>2, GoalStays, RequestClearStays DEF Lazy
  <2>2. CASE AnswerNothing
    BY <2>2, LazyAnswerNothing
  <2>3. CASE DeclineOutput
    BY <2>3, LazyDeclineOutput
  <2>4. CASE AttemptCached
    BY <2>4, LazyAttemptCached
  <2>5. CASE AttemptRefused
    BY <2>5, LazyAttemptRefused
  <2>6. CASE Attempt
    BY <2>6, LazyAttempt
  <2>7. CASE SkipOperand
    BY <2>7, LazySkipOperand
  <2>8. CASE Descend
    BY <2>8, LazyDescend
  <2>9. CASE MeetUnsupported
    BY <2>9, LazyMeetUnsupported
  <2>10. CASE ReadCached
    BY <2>10, LazyReadCached
  <2>11. CASE ReadDeferred
    BY <2>11, LazyReadDeferred
  <2>12. CASE ReadCycle
    BY <2>12, LazyReadCycle
  <2>13. CASE ReadRefused
    BY <2>13, LazyReadRefused
  <2>14. CASE ReadRecurses
    BY <2>14, LazyReadRecurses
  <2>15. CASE Return
    BY <2>15, LazyReturn
  <2>16. CASE ReturnFromRule
    BY <2>16, LazyReturnFromRule
  <2> QED
    BY <2>1, <2>2, <2>3, <2>4, <2>5, <2>6, <2>7, <2>8, <2>9, <2>10, <2>11, <2>12, <2>13,
       <2>14, <2>15, <2>16 DEF Next
<1> QED BY <1>1, <1>2, InductiveHolds, PTL DEF Spec

(* The columns leave a request to explain only for a row that asks for an  *)
(* output that fails there or reaches a construct the columns lack: never  *)
(* for another row, for a branch no row takes, or for a read they deferred *)
(* to a task of their own.                                                 *)
THEOREM DeclinesCorrect == Spec => []DeclineJustified
<1>1. Lazy => DeclineJustified
  BY DEF Lazy, RequestClear, RuleClear, DeclineJustified, OutcomeFor
<1> QED BY <1>1, LazyHolds, PTL
=============================================================================
