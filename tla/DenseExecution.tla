---------------------------- MODULE DenseExecution ----------------------------
(***************************************************************************)
(* How a compiled program runs over a batch (src/src/dense.rs,             *)
(* `DenseExecutor`). Each expression is evaluated for a set of rows at     *)
(* once and gives a column of values and the errors of the rows that       *)
(* failed; a row that fails is taken out of what is evaluated after it.    *)
(* Expressions run on the root rows or on the related rows, each of which  *)
(* belongs to one root row. Columns of rules, of shared bodies and the     *)
(* members of relations are kept, for the rows asked for so far, and what  *)
(* is asked next is computed for the rows that are missing.                *)
(*                                                                         *)
(* The recursion is a stack of frames. A rule reached too deep with rows   *)
(* to compute is deferred: the stack is dropped, the rule computed for     *)
(* those rows from an empty stack, and the output started again.           *)
(*                                                                         *)
(* The two surfaces, one period and an entity's lifetime, share how        *)
(* operands, rules and deferral work; Lifetime adds what only the second   *)
(* does.                                                                   *)
(*                                                                         *)
(* Values are small integers, judgments 1 and 0, dates numbers. Column     *)
(* types, rounding and calendar functions are abstracted to "add", "div"   *)
(* and "less", which fail for single rows before, after and between their  *)
(* operands. The relations of a program read one key.                      *)
(***************************************************************************)
EXTENDS DenseBinding

CONSTANT Cap          \* the largest sum that does not overflow

VARIABLES surface,    \* "period" or "lifetime"
          threshold,  \* the depth at which a rule is deferred
          current,    \* the bound batch: [rows, start, law, owner, root, related]
          left,       \* outputs still to evaluate
          tasks,      \* deferred rules with their rows, the last first
          stack,      \* frames of the recursion
          ret,        \* what the last frame returned, until it is taken
          columns,    \* of each rule: its column for the rows computed so far
          shared,     \* the same of each body read more than once
          members,    \* of each relation: the members among some candidates
          evaluated,  \* the outputs evaluated
          verdict     \* "binding", None while executing, or the answer

request == <<surface, threshold>>
caches == <<columns, shared, members>>
execution == <<current, left, tasks, stack, ret, caches, evaluated, verdict>>

Rows == 1..current.rows
Related == DOMAIN current.owner

AxisRows(axis) == IF axis = "root" THEN Rows ELSE Related
NoErrors == [r \in {} |-> None]
FailAll(mask, error) == [r \in mask |-> error]
On(errors, mask) == [r \in mask \cap DOMAIN errors |-> errors[r]]
Fill(axis, v) == [r \in AxisRows(axis) |-> v]
Answer(column, errors) == [column |-> column, errors |-> errors]

(* Rows of a rule, a body or an operand that must be computed. A rule      *)
(* never computed is computed even for no rows.                            *)
Pending(cached, mask) == IF cached = None THEN mask ELSE mask \ cached.computed
Computes(cached, mask) == cached = None \/ Pending(cached, mask) # {}

Merged(cached, rows, answer) ==
    IF cached = None
    THEN [column |-> answer.column, errors |-> answer.errors, computed |-> rows]
    ELSE [column |-> [r \in DOMAIN answer.column |->
                        IF r \in rows \ DOMAIN answer.errors THEN answer.column[r]
                        ELSE cached.column[r]],
          errors |-> cached.errors @@ answer.errors,
          computed |-> cached.computed \cup rows]

-----------------------------------------------------------------------------
(* Expressions.                                                            *)

Folds == {"count", "sum", "max", "single"}
Starts(e) == IF e.op = "and" THEN 1 ELSE 0

(* A rule applies from its first version on. The law is that of the       *)
(* period, or the one a calculation plan fixes.                            *)
Commenced(rule) == rule.from <= current.law

(* Evaluate an expression for some rows. One whose rule had not commenced  *)
(* fails for all of them, and is evaluated for none.                       *)
Frame(axis, e, mask) ==
    LET late == e.op = "commenced" /\ ~Commenced(e)
    IN  [kind |-> "expr", axis |-> axis, expr |-> e, mask |-> mask,
         live |-> IF late THEN {} ELSE mask,
         errors |-> IF late THEN FailAll(mask, "not_commenced") ELSE NoErrors,
         acc |-> Fill(axis, Starts(e)), n |-> 0, rows |-> {}, failed |-> NoErrors,
         seen |-> <<>>]

Top == stack[Len(stack)]
Below == SubSeq(stack, 1, Len(stack) - 1)
Working == verdict = None /\ ret = None
At(op) == Working /\ stack # <<>> /\ Top.kind = "expr" /\ Top.expr.op = op
Returned(kind) == verdict = None /\ ret # None /\ stack # <<>> /\ Top.kind = kind
Depth == Cardinality({i \in 1..Len(stack) : stack[i].kind = "expr" /\ stack[i].axis = "root"})

Return(answer) == ret' = answer /\ stack' = Below
Quiet == UNCHANGED <<current, left, tasks, evaluated, verdict>>

Literal ==
    /\ At("literal")
    /\ Return(Answer(Fill(Top.axis, Top.expr.value), NoErrors))
    /\ UNCHANGED caches /\ Quiet

(* A column the batch lacks is missing on the rows that read it.           *)
Input ==
    /\ At("input") /\ surface = "period"
    /\ LET column == IF Top.axis = "root" THEN current.root[Top.expr.name]
                     ELSE current.related[Top.expr.name]
       IN  Return(IF column = None
                  THEN Answer(Fill(Top.axis, 0), FailAll(Top.mask, Top.expr.name))
                  ELSE Answer(column, NoErrors))
    /\ UNCHANGED caches /\ Quiet

(* The version of a parameter in force on a day, or None.                  *)
ParameterAt(name, day) ==
    LET versions == program.parameters[name]
        begun == {d \in DOMAIN versions : d <= day}
    IN  IF begun = {} THEN None ELSE versions[CHOOSE d \in begun : \A c \in begun : d >= c]

Parameter ==
    /\ At("parameter") /\ surface = "period"
    /\ LET v == ParameterAt(Top.expr.name, current.law)
       IN  Return(IF v = None THEN Answer(Fill(Top.axis, 0), FailAll(Top.mask, "no_version"))
                  ELSE Answer(Fill(Top.axis, v), NoErrors))
    /\ UNCHANGED caches /\ Quiet

(* The period's own dates; a reduction over periods has none to reduce.    *)
PeriodLeaf ==
    /\ surface = "period"
    /\ \/ At("start") /\ Return(Answer(Fill(Top.axis, current.start), NoErrors))
       \/ At("over") /\ Return(Answer(Fill(Top.axis, 0), FailAll(Top.mask, "over_periods")))
    /\ UNCHANGED caches /\ Quiet

Composite == {"add", "div", "less", "not", "and", "or", "if", "nomatch", "commenced", "root"}

Decided(f) ==
    \/ f.n = Len(f.expr.args)
    \/ f.expr.op \in {"and", "or"} /\ f.live = {}

(* The divisor comes before the dividend, but not over a lifetime. A match *)
(* that found no arm takes its column from its first arm, evaluated for no *)
(* rows, before it reads its subject and fails for every row that reached  *)
(* it.                                                                     *)
NextOperand(f) ==
    IF f.expr.op = "nomatch" \/ (f.expr.op = "div" /\ surface = "period")
    THEN f.expr.args[2 - f.n] ELSE f.expr.args[f.n + 1]

OperandRows(f) ==
    CASE f.expr.op = "if" /\ f.n = 1 -> f.rows
      [] f.expr.op = "if" /\ f.n = 2 -> f.live \ f.rows
      [] f.expr.op = "nomatch" /\ f.n = 0 -> {}
      [] f.expr.op = "root" -> {current.owner[r] : r \in f.live}
      [] OTHER -> f.live

Descend ==
    /\ \E op \in Composite : At(op)
    /\ ~Decided(Top)
    /\ stack' = Append(stack, Frame(IF Top.expr.op = "root" THEN "root" ELSE Top.axis,
                                    NextOperand(Top), OperandRows(Top)))
    /\ UNCHANGED <<ret, caches>> /\ Quiet

Where(rows, column, other) == [r \in DOMAIN other |-> IF r \in rows THEN column[r] ELSE other[r]]

(* What an operand's answer makes of the frame. `rows` fail with `error`   *)
(* once the operand is combined.                                           *)
Taken(f, answer) ==
    LET c == answer.column
        live == f.live \ DOMAIN answer.errors
        passed(acc, rows, error) ==
            [f EXCEPT !.n = @ + 1, !.acc = acc, !.live = live \ rows,
                      !.errors = @ @@ answer.errors @@ FailAll(rows, error)]
        op == f.expr.op
    IN  CASE op = "add" ->
               LET over == {r \in live : f.acc[r] + c[r] > Cap}
               IN  passed(Where(live \ over, [r \in live |-> f.acc[r] + c[r]], f.acc), over, "overflow")
          [] op = "div" /\ f.n = 1 /\ surface = "lifetime" ->
               LET zero == {r \in live : c[r] = 0}
               IN  passed(Where(live \ zero, [r \in live \ zero |-> f.acc[r] \div c[r]], c), zero, "div_zero")
          [] op = "div" /\ f.n = 0 /\ surface = "period" -> passed(c, {r \in live : c[r] = 0}, "div_zero")
          [] op = "div" /\ f.n = 1 ->
               passed(Where(live, [r \in live |-> c[r] \div f.acc[r]], c), {}, None)
          [] op = "less" /\ f.n = 1 ->
               passed([r \in DOMAIN c |-> IF f.acc[r] < c[r] THEN 1 ELSE 0], {}, None)
          [] op = "not" -> passed([r \in DOMAIN c |-> 1 - c[r]], {}, None)
          [] op \in {"and", "or"} ->
               LET decisive == 1 - Starts(f.expr)
                   done == {r \in live : c[r] = decisive}
               IN  [passed(Where(done, c, f.acc), {}, None) EXCEPT !.live = live \ done]
          [] op = "if" /\ f.n = 0 ->
               [passed(f.acc, {}, None) EXCEPT !.rows = {r \in live : c[r] = 1}]
          [] op = "if" /\ f.n = 2 -> passed(Where(f.rows, f.acc, c), {}, None)
          [] op = "nomatch" /\ f.n = 0 -> [f EXCEPT !.n = 1, !.acc = c]
          [] op = "nomatch" /\ f.n = 1 ->
               passed(f.acc, live, "no_match")
          [] op = "root" ->
               [passed([r \in Related |-> c[current.owner[r]]], {}, None) EXCEPT
                   !.live = {r \in f.live : current.owner[r] \notin DOMAIN answer.errors},
                   !.errors = f.errors @@ [r \in {s \in f.mask :
                                                  current.owner[s] \in DOMAIN answer.errors} |->
                                           answer.errors[current.owner[r]]]]
          [] OTHER -> passed(c, {}, None)

Take ==
    /\ Returned("expr") /\ Top.expr.op \in Composite
    /\ stack' = Append(Below, Taken(Top, ret))
    /\ ret' = None
    /\ UNCHANGED caches /\ Quiet

Finish ==
    /\ \E op \in Composite : At(op)
    /\ Decided(Top)
    /\ Return(Answer(Top.acc, Top.errors))
    /\ UNCHANGED caches /\ Quiet

-----------------------------------------------------------------------------
(* Bodies inlined at several sites. A body read once is evaluated in       *)
(* place; one read twice keeps its column.                                 *)
Body(f) == program.bodies[f.expr.name]
Keeps(f) == Body(f).references >= 2

ReadBody ==
    /\ At("inline")
    /\ Keeps(Top) => Computes(shared[Top.expr.name], Top.mask)
    /\ stack' = Append(stack, Frame(Top.axis, Body(Top).body,
                                    IF Keeps(Top) THEN Pending(shared[Top.expr.name], Top.mask)
                                    ELSE Top.mask))
    /\ UNCHANGED <<ret, caches>> /\ Quiet

ReadKeptBody ==
    /\ At("inline")
    /\ Keeps(Top) /\ ~Computes(shared[Top.expr.name], Top.mask)
    /\ LET kept == shared[Top.expr.name]
       IN  Return(Answer(kept.column, On(kept.errors, Top.mask)))
    /\ UNCHANGED caches /\ Quiet

FinishBody ==
    /\ Returned("expr") /\ Top.expr.op = "inline"
    /\ LET b == Top.expr.name
           kept == Merged(shared[b], Pending(shared[b], Top.mask), ret)
       IN  IF Keeps(Top)
           THEN /\ shared' = [shared EXCEPT ![b] = kept]
                /\ Return(Answer(kept.column, On(kept.errors, Top.mask)))
           ELSE Return(ret) /\ UNCHANGED shared
    /\ UNCHANGED <<columns, members>> /\ Quiet

-----------------------------------------------------------------------------
(* Rules.                                                                  *)

(* Compute a rule for its missing rows; one that had not commenced fails   *)
(* for them.                                                               *)
RuleFrame(r, mask) == [kind |-> "rule", rule |-> r, mask |-> mask, rows |-> Pending(columns[r], mask)]
Opened(r, mask) ==
    LET rows == Pending(columns[r], mask)
    IN  <<RuleFrame(r, mask),
          Frame("root", program.rules[r].body, IF Commenced(program.rules[r]) THEN rows ELSE {})>>

ReadKeptRule ==
    /\ At("rule") /\ ~Computes(columns[Top.expr.name], Top.mask)
    /\ LET kept == columns[Top.expr.name]
       IN  Return(Answer(kept.column, On(kept.errors, Top.mask)))
    /\ UNCHANGED caches /\ Quiet

TooDeep == Depth >= threshold

ReadRule ==
    /\ At("rule") /\ Computes(columns[Top.expr.name], Top.mask) /\ ~TooDeep
    /\ stack' = stack \o Opened(Top.expr.name, Top.mask)
    /\ UNCHANGED <<ret, caches>> /\ Quiet

(* Deferred with the rows that are missing; all work in progress is        *)
(* dropped, what is kept in caches stays.                                  *)
NoRows(r, mask) == {}   \* mutant: deferred without its rows
DeferredRows(r, mask) == Pending(columns[r], mask)

DeferRule ==
    /\ At("rule") /\ Computes(columns[Top.expr.name], Top.mask) /\ TooDeep
    /\ LET r == Top.expr.name
       IN  IF \E i \in 1..Len(tasks) : tasks[i].rule = r
           THEN verdict' = "cycle" /\ UNCHANGED <<tasks, stack>>
           ELSE /\ tasks' = Append(tasks, [rule |-> r, rows |-> DeferredRows(r, Top.mask)])
                /\ stack' = <<>>
                /\ UNCHANGED verdict
    /\ UNCHANGED <<current, left, ret, caches, evaluated>>

TakeRule ==
    /\ Returned("expr") /\ Top.expr.op = "rule"
    /\ Return(ret)
    /\ UNCHANGED caches /\ Quiet

FinishRule ==
    /\ Returned("rule")
    /\ LET r == Top.rule
           late == IF Commenced(program.rules[r]) THEN NoErrors ELSE FailAll(Top.rows, "not_commenced")
           kept == Merged(columns[r], Top.rows, Answer(ret.column, late @@ ret.errors))
       IN  /\ columns' = [columns EXCEPT ![r] = kept]
           /\ Return(Answer(kept.column, On(kept.errors, Top.mask)))
    /\ UNCHANGED <<shared, members>> /\ Quiet

-----------------------------------------------------------------------------
(* Members of a relation among the related rows of some root rows. A       *)
(* derived relation keeps the members of its parent its filter holds for;  *)
(* a root row for one of whose members the filter fails has no members.    *)

Candidates(mask) == {r \in Related : current.owner[r] \in mask}

(* The first failure of each root row, in the order of its related rows.   *)
Lifted(errors) ==
    LET first(row) == CHOOSE r \in DOMAIN errors :
                         current.owner[r] = row
                         /\ \A s \in DOMAIN errors : current.owner[s] = row => r <= s
    IN  [row \in {current.owner[r] : r \in DOMAIN errors} |-> errors[first(row)]]

Spared(rows, errors) == {r \in rows : current.owner[r] \notin DOMAIN errors}

ForAnyCandidates(i, rows) == members[i] # None   \* mutant: the candidates are not compared
Resolved(i, rows) == members[i] # None /\ members[i].candidates = rows

LinksTo(relation, rows) ==
    LET up[i \in 0..Len(program.relations)] ==
            IF i = 0 THEN <<>>
            ELSE IF Resolved(i, rows) THEN <<>>
            ELSE Append(up[program.relations[i].parent], i)
    IN  up[relation]

MembersFrame(relation, rows) ==
    LET from[i \in 0..Len(program.relations)] ==
            IF i = 0 THEN [members |-> rows, errors |-> NoErrors]
            ELSE IF Resolved(i, rows) THEN members[i]
            ELSE from[program.relations[i].parent]
    IN  [kind |-> "members", candidates |-> rows, links |-> LinksTo(relation, rows),
         found |-> from[relation].members, errors |-> from[relation].errors]

Link == program.relations[Top.links[1]]
Narrowed == IF Link.parent = 0 THEN Top.found ELSE Spared(Top.found, Top.errors)

(* A link is settled: its members are kept for these candidates.           *)
SettleLink(found, errors) ==
    /\ members' = [members EXCEPT ![Top.links[1]] =
                     [candidates |-> Top.candidates, members |-> found, errors |-> errors]]
    /\ stack' = Append(Below, [Top EXCEPT !.links = Tail(@), !.found = found, !.errors = errors])
    /\ ret' = None
    /\ UNCHANGED <<columns, shared>> /\ Quiet

AtLink == Working /\ stack # <<>> /\ Top.kind = "members" /\ Top.links # <<>>

PassLink ==
    /\ AtLink /\ (Link.filter = None \/ Narrowed = {})
    /\ SettleLink(Narrowed, Top.errors)

FilterLink ==
    /\ AtLink /\ Link.filter # None /\ Narrowed # {}
    /\ stack' = Append(stack, Frame("related", Link.filter, Narrowed))
    /\ UNCHANGED <<ret, caches>> /\ Quiet

KeepFiltered ==
    /\ Returned("members")
    /\ LET errors == Top.errors @@ Lifted(ret.errors)
           held == {r \in Narrowed \ DOMAIN ret.errors : ret.column[r] = 1}
       IN  SettleLink(Spared(held, errors), errors)

MembersKnown ==
    /\ Working /\ stack # <<>> /\ Top.kind = "members" /\ Top.links = <<>>
    /\ Return([found |-> Top.found, errors |-> Top.errors])
    /\ UNCHANGED caches /\ Quiet

-----------------------------------------------------------------------------
(* Aggregations: the members first, the predicate for the members, the     *)
(* value for the members kept.                                             *)

AtFold(n) == Working /\ stack # <<>> /\ Top.kind = "expr" /\ Top.expr.op \in Folds /\ Top.n = n
FoldReturned(n) == Returned("expr") /\ Top.expr.op \in Folds /\ Top.n = n
Advance(f) == stack' = Append(Below, [f EXCEPT !.n = @ + 1])

ResolveMembers ==
    /\ AtFold(0)
    /\ stack' = Append(stack, MembersFrame(Top.expr.relation, Candidates(Top.mask)))
    /\ UNCHANGED <<ret, caches>> /\ Quiet

TakeMembers ==
    /\ FoldReturned(0)
    /\ Advance([Top EXCEPT !.rows = ret.found, !.errors = ret.errors])
    /\ ret' = None
    /\ UNCHANGED caches /\ Quiet

TestMembers ==
    /\ AtFold(1)
    /\ IF Top.expr.predicate = None THEN Advance(Top)
       ELSE stack' = Append(stack, Frame("related", Top.expr.predicate, Top.rows))
    /\ UNCHANGED <<ret, caches>> /\ Quiet

TakeTests ==
    /\ FoldReturned(1)
    /\ Advance([Top EXCEPT !.rows = {r \in @ \ DOMAIN ret.errors : ret.column[r] = 1},
                           !.failed = ret.errors])
    /\ ret' = None
    /\ UNCHANGED caches /\ Quiet

(* What is known of each root row before the value is computed.            *)
MembersOf(f, row) == {r \in f.rows : current.owner[r] = row}
Tested(f) == f.errors @@ Lifted(f.failed)

Singled(f) ==
    LET wrong(row) == Cardinality(MembersOf(f, row)) # 1
    IN  Tested(f) @@ [row \in {m \in f.mask \ DOMAIN Tested(f) : wrong(m)} |->
                        IF MembersOf(f, row) = {} THEN "no_member" ELSE "ambiguous"]

(* The members whose value an aggregation computes.                        *)
Valued(f) == IF f.expr.op = "single"
             THEN {r \in f.rows : current.owner[r] \in f.mask \ DOMAIN Singled(f)}
             ELSE f.rows

ReadValues ==
    /\ AtFold(2)
    /\ IF Top.expr.op = "count"
       THEN Return(Answer([row \in Rows |-> Cardinality(MembersOf(Top, row))], Tested(Top)))
       ELSE /\ stack' = Append(stack, Frame("related", Top.expr.value, Valued(Top)))
            /\ UNCHANGED ret
    /\ UNCHANGED caches /\ Quiet

InOrder(rows) == SetToSortSeq(rows, LAMBDA a, b : a < b)

(* The sum of a row's members in order stops at its first failure, of the  *)
(* predicate, of the value or of the sum.                                  *)

Total(f, values, failed, row) ==
    FoldLeft(LAMBDA t, r :
                IF t.error # None THEN t
                ELSE IF r \in DOMAIN failed THEN [t EXCEPT !.error = failed[r]]
                ELSE IF t.value + values[r] > Cap THEN [t EXCEPT !.error = "overflow"]
                ELSE [t EXCEPT !.value = @ + values[r]],
             [value |-> 0, error |-> None],
             InOrder({r \in f.rows \cup DOMAIN failed : current.owner[r] = row}))

Summed(f, answer) ==
    LET failed == f.failed @@ answer.errors
        totals == [row \in Rows \ DOMAIN f.errors |-> Total(f, answer.column, failed, row)]
        stopped == {row \in DOMAIN totals : totals[row].error # None}
    IN  Answer([row \in Rows |-> IF row \in DOMAIN totals THEN totals[row].value ELSE 0],
               f.errors @@ [row \in stopped |-> totals[row].error])

Extreme(f, answer) ==
    LET errors == f.errors @@ Lifted(f.failed @@ answer.errors)
        values(row) == {answer.column[r] : r \in MembersOf(f, row) \ DOMAIN answer.errors}
        empty == {row \in f.mask \ DOMAIN errors : values(row) = {}}
    IN  Answer([row \in Rows |-> IF values(row) = {} THEN 0
                                 ELSE CHOOSE v \in values(row) : \A w \in values(row) : v >= w],
               errors @@ FailAll(empty, "empty"))

Single(f, answer) ==
    LET rows == Valued(f) \ DOMAIN answer.errors
        read(row) == {r \in rows : current.owner[r] = row}
    IN  Answer([row \in Rows |-> IF read(row) = {} THEN 0
                                 ELSE answer.column[CHOOSE r \in read(row) : TRUE]],
               Singled(f) @@ Lifted(answer.errors))

TakeValues ==
    /\ FoldReturned(2)
    /\ Return(CASE Top.expr.op = "sum" -> Summed(Top, ret)
                [] Top.expr.op = "max" -> Extreme(Top, ret)
                [] Top.expr.op = "single" -> Single(Top, ret))
    /\ UNCHANGED caches /\ Quiet

-----------------------------------------------------------------------------
(* The driver: the last deferred rule, or the next output, from an empty   *)
(* stack. A task or an output already computed is done.                    *)
Goal == IF tasks = <<>> THEN [rule |-> left[1], rows |-> Rows] ELSE tasks[Len(tasks)]

Start ==
    /\ Working /\ stack = <<>> /\ left # <<>>
    /\ Computes(columns[Goal.rule], Goal.rows)
    /\ stack' = Opened(Goal.rule, Goal.rows)
    /\ UNCHANGED <<ret, caches>> /\ Quiet

(* The driver takes the answer from the column just kept.                  *)
Kept(r, rows) == Answer(columns[r].column, On(columns[r].errors, rows))
Reached == verdict = None /\ stack = <<>> /\ left # <<>> /\ ~Computes(columns[Goal.rule], Goal.rows)

FinishTask ==
    /\ Reached /\ tasks # <<>>
    /\ tasks' = SubSeq(tasks, 1, Len(tasks) - 1)
    /\ ret' = None
    /\ UNCHANGED <<current, left, stack, caches, evaluated, verdict>>

FinishOutput ==
    /\ Reached /\ tasks = <<>>
    /\ evaluated' = Append(evaluated, Kept(left[1], Rows))
    /\ left' = Tail(left)
    /\ ret' = None
    /\ UNCHANGED <<current, tasks, stack, caches, verdict>>

(* The error reported is that of the first row that failed in any output,  *)
(* and of the first output that row failed in.                             *)
FirstOutputsError(failing, row) ==
    LET i == CHOOSE j \in failing : \A k \in failing : j <= k
    IN  evaluated[i].errors[row]

FirstRowError ==
    LET rows == UNION {DOMAIN evaluated[i].errors : i \in 1..Len(evaluated)}
        row == CHOOSE r \in rows : \A s \in rows : r <= s
    IN  IF rows = {} THEN "answered"
        ELSE FirstOutputsError({i \in 1..Len(evaluated) : row \in DOMAIN evaluated[i].errors}, row)

Respond ==
    /\ Working /\ left = <<>>
    /\ verdict' = FirstRowError
    /\ UNCHANGED <<current, left, tasks, stack, ret, caches, evaluated>>

(* A bound batch as it is executed: the related rows are numbered after    *)
(* the root rows.                                                          *)
Key == program.relations[1].key
LawAt(start) == IF program.law = None THEN start ELSE program.law

BoundBatch ==
    LET numbered(seq) == [r \in batch.rows + 1..batch.rows + Len(seq) |-> seq[r - batch.rows]]
        related == IF program.relations = <<>> THEN {} ELSE taken[Key]
        read == UNION {Range(r.inputs) : r \in Range(program.relations)}
    IN  [rows |-> batch.rows, start |-> batch.start, law |-> LawAt(batch.start),
         owner |-> IF program.relations = <<>> THEN NoErrors ELSE numbered(owners[Key]),
         root |-> [n \in Range(program.inputs) |->
                     IF n \in Range(rooted) THEN batch.columns[n] ELSE None],
         related |-> [n \in read |->
                        IF n \in related THEN numbered(batch.keys[Key].columns[n]) ELSE None]]

(* The request names rules of the program; its batch is bound and the      *)
(* outputs are evaluated in order.                                         *)
Known == Range(program.outputs) \subseteq DOMAIN program.rules

Begin ==
    /\ surface = "period" /\ verdict = "binding" /\ phase = "bound"
    /\ current' = BoundBatch
    /\ verdict' = None
    /\ UNCHANGED <<left, tasks, stack, ret, caches, evaluated>>

Idle ==
    /\ current = [rows |-> 0, start |-> 0, law |-> 0, owner |-> NoErrors,
                  root |-> NoErrors, related |-> NoErrors]
    /\ left = program.outputs
    /\ tasks = <<>> /\ stack = <<>> /\ ret = None /\ evaluated = <<>>
    /\ columns = [r \in DOMAIN program.rules |-> None]
    /\ shared = [b \in 1..Len(program.bodies) |-> None]
    /\ members = [i \in 1..Len(program.relations) |-> None]
    /\ verdict = "binding"
=============================================================================
