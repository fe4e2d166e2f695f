----------------------------- MODULE DenseMeaning -----------------------------
(***************************************************************************)
(* What an expression means for one row, of one period as the explain      *)
(* interpreter has it or of a lifetime: operands in order, the first       *)
(* failure ends the row, members tested one by one. It is the reference    *)
(* for the columns of DenseExecution and Lifetime, and stands for the      *)
(* executor of one period where a lifetime is executed over several.       *)
(***************************************************************************)
EXTENDS DenseExecution

Good(v) == [value |-> v, error |-> None]
Bad(e) == [value |-> 0, error |-> e]
Failed(m) == m.error # None

(* A fold stopped by its first failure; a step made only on a value.       *)
Until(step(_, _), start, seq) ==
    FoldLeft(LAMBDA acc, x : IF Failed(acc) THEN acc ELSE step(acc, x), start, seq)
Then(m, f(_)) == IF Failed(m) THEN m ELSE f(m.value)

ChainTo(relation) ==
    LET up[i \in 0..Len(program.relations)] ==
            IF i = 0 THEN <<>> ELSE Append(up[program.relations[i].parent], i)
    IN  up[relation]

(* Which expressions reduce over periods, directly or through the rules    *)
(* they read (`rules_reducing_over_periods`).                              *)

RECURSIVE Reduces(_)
Reduces(e) ==
    \/ e.op = "over"
    \/ e.op = "rule" /\ Reduces(program.rules[e.name].body)
    \/ \E i \in 1..Len(e.args) : Reduces(e.args[i])

(* A world is a bound batch, or [periods, counting, law, start] where      *)
(* `periods` are bound batches and `counting` says whether the count of a  *)
(* top-N sum is being evaluated. `row` is a root row, or a related row of  *)
(* a bound batch.                                                          *)
Lifelong(w) == "periods" \in DOMAIN w
Agree(seq, error) == IF \A v \in Range(seq) : v = seq[1] THEN Good(seq[Len(seq)]) ELSE Bad(error)
Added(t, v) == IF t + v > Cap THEN Bad("overflow") ELSE Good(t + v)
InOrderDown(values) == SortSeq(values, LAMBDA a, b : a > b)

RECURSIVE Meaning(_, _, _, _)
Meaning(w, axis, e, row) ==
    LET of(ax, x, r) == Meaning(w, ax, x, r)
        first(x) == of(axis, x, row)
        begun(rule, x) == IF rule.from <= w.law THEN x ELSE Bad("not_commenced")
        \* one after the other in each period
        each(x) == Until(LAMBDA acc, p : Then(Meaning(p, "root", x, row), LAMBDA v : Good(Append(acc.value, v))),
                         Good(<<>>), w.periods)
        \* over the members of a row
        kept(predicate, seq) ==
            Until(LAMBDA acc, r :
                    Then(IF predicate = None THEN Good(1) ELSE of("related", predicate, r), LAMBDA t :
                      Good(IF t = 1 THEN Append(acc.value, r) ELSE acc.value)),
                  Good(<<>>), seq)
        found == Until(LAMBDA acc, i : kept(program.relations[i].filter, acc.value),
                       Good(InOrder({r \in DOMAIN w.owner : w.owner[r] = row})), ChainTo(e.relation))
        folded(start, step(_, _)) ==
            Then(found, LAMBDA ms :
              Until(LAMBDA acc, r :
                      LET t == IF e.predicate = None THEN Good(1) ELSE of("related", e.predicate, r)
                      IN  IF Failed(t) THEN t
                          ELSE IF t.value = 0 THEN acc
                          ELSE Then(of("related", e.value, r), LAMBDA v : step(acc.value, v)),
                    start, ms))
        top(values) ==
            Then(IF Reduces(e.n) THEN Meaning([w EXCEPT !.counting = TRUE], axis, e.n, row)
                 ELSE Then(each(e.n), LAMBDA ns : Agree(ns, "count_varies")), LAMBDA n :
              IF n \notin 1..Len(values) THEN Bad("count_out_of_range")
              ELSE Until(LAMBDA acc, v : Added(acc.value, v), Good(0), SubSeq(InOrderDown(values), 1, n)))
    IN  CASE e.op = "literal" -> Good(e.value)
          [] e.op \in Folds \cup {"start"} /\ Lifelong(w) -> Bad("ambiguous_leaf")
          [] e.op = "start" -> Good(w.start)
          [] e.op = "input" /\ Lifelong(w) -> Then(each(e), LAMBDA vs : Agree(vs, "varying"))
          [] e.op = "input" /\ ~Lifelong(w) ->
               LET column == IF axis = "root" THEN w.root[e.name] ELSE w.related[e.name]
               IN  IF column = None THEN Bad(e.name) ELSE Good(column[row])
          [] e.op = "parameter" ->
               LET v == ParameterAt(e.name, w.law)
               IN  IF Lifelong(w) /\ w.counting THEN Then(each(e), LAMBDA vs : Agree(vs, "count_varies"))
                   ELSE IF v = None THEN Bad("no_version") ELSE Good(v)
          [] e.op = "over" /\ ~Lifelong(w) -> Bad("over_periods")
          [] e.op = "over" /\ Lifelong(w) ->
               Then(each(e.value), LAMBDA vs :
                 CASE e.kind = "count" -> Good(Len(SelectSeq(vs, LAMBDA v : v # 0)))
                   [] e.kind = "sum" -> Until(LAMBDA acc, v : Added(acc.value, v), Good(0), vs)
                   [] e.kind = "max" -> Good(InOrderDown(vs)[1])
                   [] e.kind = "top" -> top(vs))
          [] e.op = "rule" -> begun(program.rules[e.name], of("root", program.rules[e.name].body, row))
          [] e.op = "inline" -> first(program.bodies[e.name].body)
          [] e.op = "commenced" -> begun(e, first(e.args[1]))
          [] e.op = "root" -> of("root", e.args[1], w.owner[row])
          [] e.op = "add" ->
               Until(LAMBDA acc, x : Then(first(x), LAMBDA v : Added(acc.value, v)), Good(0), e.args)
          [] e.op = "div" /\ ~Lifelong(w) ->
               Then(first(e.args[2]), LAMBDA d :
                 IF d = 0 THEN Bad("div_zero") ELSE Then(first(e.args[1]), LAMBDA v : Good(v \div d)))
          [] e.op = "div" /\ Lifelong(w) ->
               Then(first(e.args[1]), LAMBDA v :
                 Then(first(e.args[2]), LAMBDA d : IF d = 0 THEN Bad("div_zero") ELSE Good(v \div d)))
          [] e.op = "less" ->
               Then(first(e.args[1]), LAMBDA v :
                 Then(first(e.args[2]), LAMBDA u : Good(IF v < u THEN 1 ELSE 0)))
          [] e.op = "not" -> Then(first(e.args[1]), LAMBDA v : Good(1 - v))
          [] e.op \in {"and", "or"} ->
               Until(LAMBDA acc, x : IF acc.value # Starts(e) THEN acc ELSE first(x), Good(Starts(e)), e.args)
          [] e.op = "if" -> Then(first(e.args[1]), LAMBDA v : first(e.args[IF v = 1 THEN 2 ELSE 3]))
          [] e.op = "nomatch" -> Then(first(e.args[1]), LAMBDA v : Bad("no_match"))
          [] e.op = "count" ->
               Then(found, LAMBDA ms : Then(kept(e.predicate, ms), LAMBDA s : Good(Len(s))))
          [] e.op = "single" ->
               Then(found, LAMBDA ms : Then(kept(e.predicate, ms), LAMBDA s :
                 IF Len(s) = 1 THEN of("related", e.value, s[1])
                 ELSE Bad(IF s = <<>> THEN "no_member" ELSE "ambiguous")))
          [] e.op = "sum" -> folded(Good(0), Added)
          [] e.op = "max" ->
               Then(folded(Good(-1), LAMBDA t, v : Good(IF v > t THEN v ELSE t)), LAMBDA t :
                 IF t = -1 THEN Bad("empty") ELSE Good(t))
=============================================================================
