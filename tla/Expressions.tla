----------------------------- MODULE Expressions -----------------------------
(***************************************************************************)
(* Formulas and the order in which the explain interpreter evaluates their *)
(* operands (src/src/engine.rs, `scalar_node` and `judgment_node`).        *)
(*                                                                         *)
(* A formula is a record [op, args, key, val]: `args` its operands, `key`  *)
(* the rule a "derived" node reads, `val` the value of a "literal" node.   *)
(* A node under evaluation has a sequence `vals` of the operand values it  *)
(* has so far, in evaluation order. Three operators say everything the     *)
(* interpreter loop needs: whether the node needs another operand, which,  *)
(* and the node's outcome once it needs no more.                           *)
(*                                                                         *)
(* Decimals are the naturals 0..MaxDecimal (a result past it overflows, as *)
(* the checked arithmetic does), judgments are Holds and NotHolds.         *)
(***************************************************************************)
EXTENDS Integers, Sequences

CONSTANTS MaxDecimal,   \* the largest decimal; past it arithmetic overflows
          Exprs         \* every formula node of the programs considered

ASSUME MaxDecimalAssumption == MaxDecimal \in Nat \ {0}   \* Holds is a value

Values == 0..MaxDecimal

Holds == 1
NotHolds == 0
Truth(b) == IF b THEN Holds ELSE NotHolds

(* Result<ScalarValue, EvalError>: a value or the error that ends the      *)
(* evaluation.                                                             *)
Ok(v) == [ok |-> TRUE, val |-> v]
Err(e) == [ok |-> FALSE, err |-> e]

Checked(n) == IF n \in Values THEN Ok(n) ELSE Err("overflow")

Total(vals) ==
    LET sum[i \in 0..Len(vals)] == IF i = 0 THEN 0 ELSE sum[i-1] + vals[i]
    IN  sum[Len(vals)]

IsLargest(m, vals) == /\ \E i \in 1..Len(vals) : vals[i] = m
                      /\ \A i \in 1..Len(vals) : vals[i] <= m

(* The node has an operand left to evaluate. A sum stops at the operand    *)
(* that overflows it, a division at a zero divisor, a conjunction at the   *)
(* first operand that does not hold, a disjunction at the first that does. *)
Wants(e, vals) ==
    \/ e.op \in {"max", "compare", "not", "no_match"} /\ Len(vals) < Len(e.args)
    \/ e.op = "add" /\ Len(vals) < Len(e.args) /\ Total(vals) \in Values
    \/ e.op = "div" /\ (Len(vals) = 0 \/ (Len(vals) = 1 /\ vals[1] # 0))
    \/ e.op = "if" /\ Len(vals) \in {0, 1}
    \/ e.op = "and" /\ Len(vals) < Len(e.args)
                    /\ \A i \in 1..Len(vals) : vals[i] = Holds
    \/ e.op = "or" /\ Len(vals) < Len(e.args)
                   /\ \A i \in 1..Len(vals) : vals[i] = NotHolds

(* The position in `args` of the operand evaluated next: in order, except  *)
(* that a division evaluates its divisor first and a conditional only the  *)
(* branch its condition selects.                                           *)
Position(e, vals) ==
    CASE e.op = "div" -> IF Len(vals) = 0 THEN 2 ELSE 1
      [] e.op = "if"  -> IF Len(vals) = 0 THEN 1
                         ELSE IF vals[1] = Holds THEN 2 ELSE 3
      [] OTHER        -> Len(vals) + 1

Operand(e, vals) == e.args[Position(e, vals)]

(* The node's outcome once it wants no more operands.                      *)
Finish(e, vals) ==
    CASE e.op = "literal"  -> Ok(e.val)
      [] e.op = "missing"  -> Err("missing_input")
      [] e.op = "derived"  -> Ok(vals[1])
      [] e.op = "add"      -> Checked(Total(vals))
      [] e.op = "div"      -> IF vals[1] = 0 THEN Err("division_by_zero")
                              ELSE Checked(vals[2] \div vals[1])
      [] e.op = "max"      -> IF \E m \in Values : IsLargest(m, vals)
                              THEN Ok(CHOOSE m \in Values : IsLargest(m, vals))
                              ELSE Err("type_mismatch")
      [] e.op = "if"       -> Ok(vals[2])
      [] e.op = "no_match" -> Err("no_matching_arm")
      [] e.op = "compare"  -> Ok(Truth(vals[1] >= vals[2]))
      [] e.op = "and"      -> Ok(Truth(\A i \in 1..Len(vals) : vals[i] = Holds))
      [] e.op = "or"       -> Ok(Truth(\E i \in 1..Len(vals) : vals[i] = Holds))
      [] e.op = "not"      -> Ok(Truth(vals[1] = NotHolds))

(* The operands the value just delivered, the last of `vals`, rules out:   *)
(* the branch not selected, or what a short circuit leaves unevaluated.    *)
Skipped(e, vals) ==
    CASE e.op = "if" /\ Len(vals) = 1 ->
             {e.args[IF vals[1] = Holds THEN 3 ELSE 2]}
      [] e.op \in {"and", "or"} /\ ~Wants(e, vals) ->
             {e.args[i] : i \in (Len(vals) + 1)..Len(e.args)}
      [] OTHER -> {}

(* The operand values a node can have been given.                          *)
Arity(e) == IF e.op = "derived" THEN 1 ELSE Len(e.args)
Partial(e) == UNION {[1..n -> Values] : n \in 0..Arity(e)}

(* What the formula types guarantee of every node.                         *)
Leaves == {"literal", "missing", "derived"}
Ops == Leaves \cup {"add", "max", "div", "if", "no_match", "compare", "and", "or", "not"}

WellFormed(e) ==
    /\ e.op \in Ops
    /\ e.args \in Seq(Exprs)
    /\ e.op = "literal" => e.val \in Values
    /\ e.op \in Leaves => e.args = <<>>
    /\ e.op \in {"no_match", "not"} => Len(e.args) = 1
    /\ e.op \in {"div", "compare"} => Len(e.args) = 2
    /\ e.op = "if" => Len(e.args) = 3

(* The rules a formula reads anywhere in it, whichever branches run        *)
(* (`collect_scalar_trace_references`).                                    *)
References[e \in Exprs] ==
    IF e.op = "derived" THEN {e.key.rule}
    ELSE UNION {References[e.args[i]] : i \in 1..Len(e.args)}

(* How many nested levels evaluating a formula can reach.                  *)
Height[e \in Exprs] ==
    IF e.args = <<>> THEN 1
    ELSE 1 + (CHOOSE h \in {Height[e.args[i]] : i \in 1..Len(e.args)} :
                \A i \in 1..Len(e.args) : Height[e.args[i]] <= h)
=============================================================================
