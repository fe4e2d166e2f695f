-------------------------------- MODULE Bulk --------------------------------
(***************************************************************************)
(* The fast mode's columnar evaluator (src/src/bulk.rs, `try_execute`,     *)
(* with src/src/lazy.rs). One request's queries are the rows of a batch.   *)
(* A formula node is evaluated once for all the rows that reach it, its    *)
(* mask; a failing row leaves the masks with its first error while the     *)
(* others go on. A rule's column is cached for the rows computed so far    *)
(* and completed when other rows ask for it. A column read too deep in the *)
(* stack is deferred to a driver, as in the explain interpreter. Whatever  *)
(* fast cannot answer for every row is left to explain as a whole.         *)
(*                                                                         *)
(* Formulas are those of Expressions, and two leaves more: "input", which  *)
(* reads the row's own cell, and "unsupported", a construct that only      *)
(* explain evaluates. A column has a value for every row; off its mask the *)
(* value means nothing, and is often the placeholder.                      *)
(***************************************************************************)
EXTENDS Expressions, FiniteSets

CONSTANTS Rows,             \* 1..n, the queries of the request
          Rules, Programs,  \* rule names, and the programs of them
          Status(_, _),     \* of a program's rule: "ok" or why it is refused
          KindOf(_, _),     \* of a program's rule: the kind of its formula
          Body(_, _),       \* of a program's rule: its formula
          Rounds(_, _),     \* of a program's rule: it declares output rounding
          Cells,            \* what a row's cell can hold: a value or Absent
          Requests,         \* of each row, the sequence of outputs requested
          Levels,           \* thresholds `with_suspend_depth` may be given
          Meaning(_, _, _), \* reference: explain's outcome for a row with the
                            \* given cell, under a program, of a rule's key
          Rest(_, _, _, _), \* reference: its outcome for a formula node whose
                            \* first operands have the given values
          Touches(_, _, _),    \* reference: that evaluation of a rule reaches a
                               \* construct only explain supports
          Reaches(_, _, _, _), \* reference: so does that of a formula node from
                               \* its given operands on
          Steps(_, _, _, _)    \* reference: the steps it takes from there on,
                               \* where it comes to a value

Absent == -1
Kinds == {"scalar", "judgment"}
Keys == [kind : Kinds, rule : Rules]
Statuses == {"ok", "unknown_derived", "unknown_unit", "missing_version"}

(* A node whose outcome is a judgment, or that has none here.              *)
Judges(e) == \/ e.op \in {"compare", "and", "or", "not", "unsupported"}
             \/ e.op = "derived" /\ e.key.kind = "judgment"

(* The formula types: a judgment where the program has a judgment.         *)
WellTyped ==
    /\ IsFiniteSet(Rows) /\ Rows = 1..Cardinality(Rows)
    /\ Cells \subseteq Values \cup {Absent}
    /\ Levels \subseteq Nat
    /\ Requests \subseteq [Rows -> Seq(Rules)]
    /\ \A p \in Programs, r \in Rules :
           /\ Status(p, r) \in Statuses /\ KindOf(p, r) \in Kinds /\ Body(p, r) \in Exprs
           /\ KindOf(p, r) = "judgment" => Judges(Body(p, r))
    /\ \A e \in Exprs :
           /\ IF e.op \in {"input", "unsupported"} THEN e.args = <<>>
              ELSE WellFormed(e) /\ e.op # "missing"
           /\ e.op = "derived" => e.key \in Keys
           /\ e.op \in {"and", "or"} => \A i \in 1..Len(e.args) : Judges(e.args[i])
ASSUME BulkAssumption == WellTyped

(* The checks before a rule's formula (`derived_formula`, `compute_*`).    *)
RefusalOf(p, k) ==
    IF Status(p, k.rule) # "ok" THEN Status(p, k.rule)
    ELSE IF KindOf(p, k.rule) # k.kind
         THEN IF k.kind = "scalar" THEN "expected_scalar" ELSE "expected_judgment"
         ELSE "none"

(* `apply_output_rounding`, here toward zero to a multiple of two.         *)
RoundedTo(p, k, v) ==
    IF k.kind = "scalar" /\ Rounds(p, k.rule) THEN v - (v % 2) ELSE v

(* The reference is explain's unbounded recursion over the row's own cell, *)
(* as in Deferral; of a construct only explain supports it says nothing.   *)
ExplainsOn(ps, cs) ==
    \A p \in ps, cell \in cs :
        /\ \A k \in Keys :
              Meaning(p, cell, k) =
                IF RefusalOf(p, k) # "none" THEN Err(RefusalOf(p, k))
                ELSE LET o == Rest(p, cell, Body(p, k.rule), <<>>)
                     IN  IF o.ok THEN Ok(RoundedTo(p, k, o.val)) ELSE o
        /\ \A e \in Exprs : \A vals \in Partial(e) :
              CASE e.op = "unsupported" -> TRUE
                [] e.op = "derived" -> Rest(p, cell, e, <<>>) = Meaning(p, cell, e.key)
                [] e.op = "input" -> Rest(p, cell, e, <<>>) =
                       IF cell = Absent THEN Err("missing_input") ELSE Ok(cell)
                [] OTHER -> Rest(p, cell, e, vals) =
                       IF Wants(e, vals)
                       THEN LET o == Rest(p, cell, Operand(e, vals), <<>>)
                            IN  IF o.ok THEN Rest(p, cell, e, Append(vals, o.val)) ELSE o
                       ELSE Finish(e, vals)
ASSUME ReferenceAssumption == ExplainsOn(Programs, Cells)

(* It reaches such a construct there, in an operand it evaluates, or in    *)
(* the formula of a rule it reads.                                         *)
TouchesOn(ps, cs) ==
    \A p \in ps, cell \in cs :
        /\ \A k \in Keys :
              Touches(p, cell, k) <=> /\ RefusalOf(p, k) = "none"
                                      /\ Reaches(p, cell, Body(p, k.rule), <<>>)
        /\ \A e \in Exprs : \A vals \in Partial(e) :
              CASE e.op = "unsupported" -> Reaches(p, cell, e, vals)
                [] e.op = "derived" -> Reaches(p, cell, e, <<>>) <=> Touches(p, cell, e.key)
                [] OTHER -> Reaches(p, cell, e, vals) <=>
                       /\ Wants(e, vals)
                       /\ LET o == Rest(p, cell, Operand(e, vals), <<>>)
                          IN  \/ Reaches(p, cell, Operand(e, vals), <<>>)
                              \/ o.ok /\ Reaches(p, cell, e, Append(vals, o.val))
ASSUME TouchesAssumption == TouchesOn(Programs, Cells)

(* Recursion that comes to a value takes finitely many steps, those of the *)
(* operands and rules it asks for among them.                              *)
EndsOn(ps, cs) ==
    \A p \in ps, cell \in cs, e \in Exprs : \A vals \in Partial(e) :
        /\ Steps(p, cell, e, vals) \in Nat
        /\ Rest(p, cell, e, vals).ok =>
             /\ e.op = "derived" /\ vals = <<>> =>
                    Steps(p, cell, Body(p, e.key.rule), <<>>) < Steps(p, cell, e, <<>>)
             /\ Wants(e, vals) =>
                    /\ Steps(p, cell, Operand(e, vals), <<>>) < Steps(p, cell, e, vals)
                    /\ \A v \in Values : Rest(p, cell, Operand(e, vals), <<>>) = Ok(v) =>
                          Steps(p, cell, e, Append(vals, v)) < Steps(p, cell, e, vals)
ASSUME EndAssumption == EndsOn(Programs, Cells)

VARIABLES program, cells, request, suspend_depth,   \* fixed for the request
          columns,     \* scalar_cache and judgment_cache: key -> column
          evaluated,   \* outputs evaluated so far: rule -> its column's values
          stack,       \* nodes under evaluation, outermost first
          tasks,       \* columns deferred to the driver: [key, rows]
          waiting,     \* the keys of `tasks`
          response     \* the answer, once there is one

input == <<program, cells, request, suspend_depth>>
driver == <<stack, tasks, waiting>>
vars == <<input, columns, evaluated, driver, response>>

Depth == Len(stack)
Top == stack[Depth]
Pop(s) == SubSeq(s, 1, Len(s) - 1)
Insert(f, k, v) == [x \in DOMAIN f \cup {k} |-> IF x = k THEN v ELSE f[x]]

(* Row errors are a function from the failed rows to their errors. A row's *)
(* first error is kept.                                                    *)
NoErrors == <<>>
Fail(rows, error) == [r \in rows |-> error]
Absorb(errors, later) ==
    [r \in DOMAIN errors \cup DOMAIN later |->
        IF r \in DOMAIN errors THEN errors[r] ELSE later[r]]
RestrictedTo(errors, mask) == [r \in DOMAIN errors \cap mask |-> errors[r]]

Placeholder == [r \in Rows |-> 0]

-----------------------------------------------------------------------------
(* The request                                                             *)

Resolved(name) == Status(program, name) # "unknown_derived"
OutputKey(name) == [kind |-> KindOf(program, name), rule |-> name]
RowsAsking(name) == {r \in Rows : \E i \in 1..Len(request[r]) : request[r][i] = name}
Asked == {name \in Rules : RowsAsking(name) # {}}

(* Outputs are evaluated in the order the request first names them.        *)
AskedBefore(x, y) ==
    LET First(name) == CHOOSE r \in RowsAsking(name) : \A s \in RowsAsking(name) : r <= s
        At(name) == CHOOSE i \in 1..Len(request[First(name)]) :
                        /\ request[First(name)][i] = name
                        /\ \A j \in 1..(i - 1) : request[First(name)][j] # name
    IN  First(x) < First(y) \/ (First(x) = First(y) /\ At(x) < At(y))

Pending == Asked \ DOMAIN evaluated
Output == CHOOSE x \in Pending : \A y \in Pending \ {x} : AskedBefore(x, y)

(* Explain answers the queries in order, and the outputs of each in order; *)
(* the first error is the request's answer.                                *)
OutcomeFor(r, name) == Meaning(program, cells[r], OutputKey(name))

Explained ==
    LET asked == UNION {{r} \X (1..Len(request[r])) : r \in Rows}
        fails == {ri \in asked : ~OutcomeFor(ri[1], request[ri[1]][ri[2]]).ok}
        first == CHOOSE x \in fails : \A y \in fails :
                    x[1] < y[1] \/ (x[1] = y[1] /\ x[2] <= y[2])
    IN  IF fails # {} THEN OutcomeFor(first[1], request[first[1]][first[2]])
        ELSE Ok([r \in Rows |-> [name \in {request[r][i] : i \in 1..Len(request[r])} |->
                    OutcomeFor(r, name).val]])

Unanswered == [mode |-> "none"]

(* Bulk leaves the whole request to explain.                               *)
Decline ==
    /\ response' = [mode |-> "explain", result |-> Explained]
    /\ stack' = <<>> /\ tasks' = <<>> /\ waiting' = {}
    /\ UNCHANGED evaluated

Assemble(values) ==
    [mode |-> "fast",
     result |-> Ok([r \in Rows |-> [name \in {request[r][i] : i \in 1..Len(request[r])} |->
                    values[name][r]]])]

Init ==
    /\ program \in Programs
    /\ cells \in [Rows -> Cells]
    /\ request \in Requests
    /\ suspend_depth \in {IF levels = 0 THEN 1 ELSE levels : levels \in Levels}
    /\ columns = <<>> /\ evaluated = <<>>
    /\ stack = <<>> /\ tasks = <<>> /\ waiting = {}
    /\ response = Unanswered

-----------------------------------------------------------------------------
(* Columns of rules                                                        *)

UncomputedIfAbsent(k, mask) ==      \* mutant: a cached column serves every row
    IF k \in DOMAIN columns THEN {} ELSE mask
Uncomputed(k, mask) ==
    IF k \in DOMAIN columns THEN mask \ columns[k].computed ELSE mask

Refusal(k) == RefusalOf(program, k)
Rounded(k, col) == [r \in Rows |-> RoundedTo(program, k, col[r])]

(* The values computed for `rows` join the column's earlier ones.          *)
StoredOver(k, col, errors, rows) ==     \* mutant: earlier rows are overwritten
    Insert(columns, k, [vals |-> col, errors |-> errors,
        computed |-> rows \cup (IF k \in DOMAIN columns THEN columns[k].computed ELSE {})])
StoredOnce(k, col, errors, rows) ==     \* mutant: later rows are never computed
    IF k \in DOMAIN columns THEN columns
    ELSE Insert(columns, k, [vals |-> col, errors |-> errors, computed |-> rows])
Stored(k, col, errors, rows) ==
    LET column ==
          IF k \in DOMAIN columns
          THEN LET old == columns[k]
               IN  [vals |-> [r \in Rows |-> IF r \in rows \ DOMAIN errors
                                             THEN col[r] ELSE old.vals[r]],
                    errors |-> Absorb(old.errors, errors),
                    computed |-> old.computed \cup rows]
          ELSE [vals |-> col, errors |-> errors, computed |-> rows]
    IN  Insert(columns, k, column)

-----------------------------------------------------------------------------
(* Nodes. `n` operands have been evaluated, `live` rows go on, `acc` holds *)
(* the column so far and `errors` the rows that failed.                    *)
Node(k, e, mask, body) ==
    [key |-> k, expr |-> e, mask |-> mask, live |-> mask, n |-> 0,
     acc |-> [r \in Rows |-> IF e.op = "and" THEN Holds ELSE NotHolds],
     errors |-> NoErrors, body |-> body]

(* A short circuit stops once every row is decided; the other nodes call   *)
(* for every operand, if only for no row.                                  *)
WantsOperand(f) ==
    /\ f.n < Len(f.expr.args)
    /\ f.expr.op \in {"and", "or"} => f.live # {}

NextOperand(f) == f.expr.args[IF f.expr.op = "div" THEN 2 - f.n ELSE f.n + 1]

EveryRow(f) == f.mask              \* mutant: operands are evaluated for all rows
OperandRows(f) ==
    IF f.expr.op = "if" /\ f.n = 1 THEN {r \in f.live : f.acc[r] = Holds} ELSE f.live

(* The column an operand brings the node to, over the rows still live.     *)
Combined(f, col, live) ==
    CASE f.expr.op = "add" ->
             [r \in Rows |-> IF r \in live THEN f.acc[r] + col[r] ELSE f.acc[r]]
      [] f.expr.op = "div" ->
             [r \in Rows |-> IF f.n = 0 THEN col[r]
                             ELSE IF r \in live THEN col[r] \div f.acc[r] ELSE 0]
      [] f.expr.op = "max" ->
             [r \in Rows |-> IF f.n = 0 \/ (r \in live /\ col[r] > f.acc[r])
                             THEN col[r] ELSE f.acc[r]]
      [] f.expr.op = "compare" ->
             [r \in Rows |-> IF f.n = 0 THEN col[r]
                             ELSE Truth(r \in live /\ f.acc[r] >= col[r])]
      [] f.expr.op = "if" ->
             [r \in Rows |-> IF f.n < 2 \/ r \in f.live THEN col[r] ELSE f.acc[r]]
      [] f.expr.op = "and" ->
             [r \in Rows |-> IF r \in live /\ col[r] = NotHolds THEN NotHolds ELSE f.acc[r]]
      [] f.expr.op = "or" ->
             [r \in Rows |-> IF r \in live /\ col[r] = Holds THEN Holds ELSE f.acc[r]]
      [] f.expr.op = "not" -> [r \in Rows |-> Truth(col[r] = NotHolds)]
      [] OTHER -> col

(* The rows that fail at this very node, after a sound operand.            *)
FailsHere(f, acc, live) ==
    CASE f.expr.op = "add" -> Fail({r \in live : acc[r] \notin Values}, "overflow")
      [] f.expr.op = "div" /\ f.n = 0 ->
             Fail({r \in live : acc[r] = 0}, "division_by_zero")
      [] f.expr.op = "no_match" -> Fail(live, "no_matching_arm")
      [] OTHER -> NoErrors

(* The rows the next operand is evaluated for, or chosen from: a short     *)
(* circuit drops the rows it has decided, a conditional the selected rows. *)
StillLive(f, acc, live) ==
    CASE f.expr.op = "and" -> {r \in live : acc[r] = Holds}
      [] f.expr.op = "or"  -> {r \in live : acc[r] = NotHolds}
      [] f.expr.op = "if" /\ f.n > 0 -> f.live \ OperandRows(f)
      [] OTHER -> live

(* The node takes an operand's column.                                     *)
Taken(f, col, errors) ==
    LET alive == OperandRows(f) \ DOMAIN errors
        acc == Combined(f, col, alive)
        own == FailsHere(f, acc, alive)
        bad == DOMAIN own
    IN  [f EXCEPT !.n = @ + 1,
                  !.acc = [r \in Rows |-> IF r \in bad THEN f.acc[r] ELSE acc[r]],
                  !.live = StillLive(f, acc, alive \ bad),
                  !.errors = Absorb(Absorb(@, errors), own)]

Deliver(below, col, errors) ==
    stack' = Append(Pop(below), Taken(below[Len(below)], col, errors))

-----------------------------------------------------------------------------
(* The driver: the newest task, else the output whose turn it is.          *)
Running == response = Unanswered
Goal == IF tasks = <<>>
        THEN [key |-> OutputKey(Output), rows |-> RowsAsking(Output)]
        ELSE tasks[Len(tasks)]

StillWaiting(done) == waiting \ {done.key}

(* The goal's rows are in `cols`. An output with a failing row declines.   *)
CompleteGoal(cols) ==
    IF tasks # <<>>
    THEN /\ stack' = <<>>
         /\ tasks' = Pop(tasks)
         /\ waiting' = StillWaiting(Goal)
         /\ UNCHANGED <<evaluated, response>>
    ELSE LET column == cols[Goal.key]
             now == Insert(evaluated, Goal.key.rule, column.vals)
         IN  IF RestrictedTo(column.errors, Goal.rows) # NoErrors
             THEN Decline
             ELSE /\ evaluated' = now
                  /\ response' = IF Pending = {Output}
                                 THEN Assemble(now) ELSE response
                  /\ stack' = <<>>
                  /\ UNCHANGED <<tasks, waiting>>

(* A request for no output at all has nothing to evaluate.                 *)
AnswerNothing ==
    /\ Running /\ Asked = {}
    /\ response' = Assemble(evaluated)
    /\ UNCHANGED <<input, columns, evaluated, driver>>

(* Every output is resolved before any is evaluated, and an output without *)
(* a formula for the period fails before its rule is looked at.            *)
DeclineOutput ==
    /\ Running /\ Asked # {} /\ stack = <<>> /\ tasks = <<>>
    /\ \/ \E name \in Asked : ~Resolved(name)
       \/ Status(program, Output) = "missing_version"
    /\ Decline
    /\ UNCHANGED <<input, columns>>

Attempting ==
    /\ Running /\ Asked # {} /\ stack = <<>>
    /\ \A name \in Asked : Resolved(name)
    /\ tasks = <<>> => Status(program, Output) # "missing_version"

AttemptCached ==
    /\ Attempting
    /\ Uncomputed(Goal.key, Goal.rows) = {}
    /\ CompleteGoal(columns)
    /\ UNCHANGED <<input, columns>>

AttemptRefused ==
    /\ Attempting
    /\ LET rows == Uncomputed(Goal.key, Goal.rows)
           cols == Stored(Goal.key, Placeholder, Fail(rows, Refusal(Goal.key)), rows)
       IN  /\ rows # {} /\ Refusal(Goal.key) # "none"
           /\ columns' = cols
           /\ CompleteGoal(cols)
    /\ UNCHANGED input

Attempt ==
    /\ Attempting
    /\ LET rows == Uncomputed(Goal.key, Goal.rows)
       IN  /\ rows # {} /\ Refusal(Goal.key) = "none"
           /\ stack' = <<Node(Goal.key, Body(program, Goal.key.rule), rows, TRUE)>>
    /\ UNCHANGED <<input, columns, evaluated, tasks, waiting, response>>

-----------------------------------------------------------------------------
(* The innermost node                                                      *)

(* An operand no row needs is not looked at, whatever it is.               *)
SkipOperand ==
    /\ stack # <<>> /\ WantsOperand(Top) /\ OperandRows(Top) = {}
    /\ Deliver(stack, Placeholder, NoErrors)
    /\ UNCHANGED <<input, columns, evaluated, tasks, waiting, response>>

Descend ==
    /\ stack # <<>> /\ WantsOperand(Top) /\ OperandRows(Top) # {}
    /\ stack' = Append(stack, Node(Top.key, NextOperand(Top), OperandRows(Top), FALSE))
    /\ UNCHANGED <<input, columns, evaluated, tasks, waiting, response>>

MeetUnsupported ==
    /\ stack # <<>> /\ Top.expr.op = "unsupported"
    /\ Decline
    /\ UNCHANGED <<input, columns>>

Reading == stack # <<>> /\ Top.expr.op = "derived" /\ Top.n = 0
Read == Top.expr.key
ToCompute == Uncomputed(Read, Top.mask)

(* The read delivers the rule's column to its own node.                    *)
ReadOut(below, cols, k) ==
    LET f == below[Len(below)]
    IN  Append(Pop(below),
               [f EXCEPT !.n = 1, !.acc = cols[k].vals,
                         !.errors = RestrictedTo(cols[k].errors, f.mask)])

ReadCached ==
    /\ Reading /\ ToCompute = {}
    /\ stack' = ReadOut(stack, columns, Read)
    /\ UNCHANGED <<input, columns, evaluated, tasks, waiting, response>>

Defers == Depth >= suspend_depth

ReadDeferred ==
    /\ Reading /\ ToCompute # {} /\ Defers /\ Read \notin waiting
    /\ tasks' = Append(tasks, [key |-> Read, rows |-> ToCompute])
    /\ waiting' = waiting \cup {Read}
    /\ stack' = <<>>
    /\ UNCHANGED <<input, columns, evaluated, response>>

ReadCycle ==
    /\ Reading /\ ToCompute # {} /\ Defers /\ Read \in waiting
    /\ Decline
    /\ UNCHANGED <<input, columns>>

ReadRefused ==
    /\ Reading /\ ToCompute # {} /\ ~Defers /\ Refusal(Read) # "none"
    /\ columns' = Stored(Read, Placeholder, Fail(ToCompute, Refusal(Read)), ToCompute)
    /\ stack' = ReadOut(stack, columns', Read)
    /\ UNCHANGED <<input, evaluated, tasks, waiting, response>>

ReadRecurses ==
    /\ Reading /\ ToCompute # {} /\ ~Defers /\ Refusal(Read) = "none"
    /\ stack' = Append(stack, Node(Read, Body(program, Read.rule), ToCompute, TRUE))
    /\ UNCHANGED <<input, columns, evaluated, tasks, waiting, response>>

(* The innermost node's column and failed rows, once it needs no more.     *)
Finished == stack # <<>> /\ ~WantsOperand(Top) /\ ~Reading /\ Top.expr.op # "unsupported"

Column(f) ==
    CASE f.expr.op = "literal" -> [r \in Rows |-> f.expr.val]
      [] f.expr.op = "input" ->
             [r \in Rows |-> IF r \in f.mask /\ cells[r] # Absent THEN cells[r] ELSE 0]
      [] OTHER -> f.acc

Errors(f) ==
    CASE f.expr.op = "input" -> Fail({r \in f.mask : cells[r] = Absent}, "missing_input")
      [] f.expr.op = "max" /\ f.n = 0 -> Fail(f.mask, "type_mismatch")
      [] OTHER -> f.errors

Return ==
    /\ Finished /\ ~Top.body
    /\ Deliver(Pop(stack), Column(Top), Errors(Top))
    /\ UNCHANGED <<input, columns, evaluated, tasks, waiting, response>>

ReturnFromRule ==
    /\ Finished /\ Top.body
    /\ columns' = Stored(Top.key, Rounded(Top.key, Column(Top)), Errors(Top), Top.mask)
    /\ IF Depth = 1 THEN CompleteGoal(columns')
       ELSE /\ stack' = ReadOut(Pop(stack), columns', Top.key)
            /\ UNCHANGED <<evaluated, tasks, waiting, response>>
    /\ UNCHANGED input

Next == \/ AnswerNothing \/ DeclineOutput \/ AttemptCached \/ AttemptRefused \/ Attempt
        \/ SkipOperand \/ Descend \/ MeetUnsupported
        \/ ReadCached \/ ReadDeferred \/ ReadCycle \/ ReadRefused \/ ReadRecurses
        \/ Return \/ ReturnFromRule

Spec == Init /\ [][Next]_vars /\ WF_vars(Next)

-----------------------------------------------------------------------------
(* A rule's column holds, for every row computed, the value or the first   *)
(* error explain gives that row, whichever node first asked for the row    *)
(* and however the computation was cut into tasks.                         *)
ColumnSound ==
    \A k \in DOMAIN columns : \A r \in columns[k].computed :
        Meaning(program, cells[r], k) =
            IF r \in DOMAIN columns[k].errors
            THEN Err(columns[k].errors[r]) ELSE Ok(columns[k].vals[r])

(* A request answered by the columns is answered as explain would          *)
(* (docs/execution-semantics.md: fast returns exactly what explain does).  *)
FastEqualsExplain == response.mode = "fast" => response.result = Explained

(* Laziness: the request is left to explain only for a row that asks for   *)
(* an output whose own evaluation fails or reaches a construct bulk lacks; *)
(* what other rows, or branches no row takes, would reach does not matter. *)
DeclineJustified ==
    response.mode = "explain" =>
        \E r \in Rows : \E i \in 1..Len(request[r]) :
            LET name == request[r][i]
            IN  \/ ~Resolved(name)
                \/ ~OutcomeFor(r, name).ok
                \/ Touches(program, cells[r], OutputKey(name))

(* Every request is answered, by fast or by explain.                       *)
Responds == <>(~Running)
=============================================================================
