------------------------------- MODULE Lifetime -------------------------------
(***************************************************************************)
(* Execution of a program over an entity's lifetime (src/src/dense.rs,     *)
(* `execute_lifetime_with`, `LifetimeExecutor`): one batch for each        *)
(* observed period, the same rows in each. A reduction over periods        *)
(* evaluates its operand in every period and reduces each row's values.    *)
(* What is outside a reduction belongs to no period: a parameter is that   *)
(* of the last period, an input must be the same in all of them.           *)
(*                                                                         *)
(* A top-N sum counts how many periods it adds. Its count must not depend  *)
(* on the period either. One that reduces over periods itself is evaluated *)
(* in a context of its own, with its own caches, where parameters are read *)
(* in every period and must agree.                                         *)
(*                                                                         *)
(* The executor of one period answers as DenseMeaning says: it runs its    *)
(* own driver, so nothing it defers reaches this one.                      *)
(***************************************************************************)
EXTENDS DenseMeaning

VARIABLES periods,   \* [batches, spans] as the caller supplied them; a span is
                     \* [start, end, kind]
          observed,  \* the batches bound, one for each period in order
          outer      \* None, or what the count's context keeps aside

life == <<periods, observed, outer>>
Still == UNCHANGED <<given, binding, request, life>>

-----------------------------------------------------------------------------
(* The request: periods and batches pair up, periods ascend, and every     *)
(* batch is bound before the outputs are looked at.                        *)

Fail(error) ==
    /\ phase' = error
    /\ UNCHANGED <<given, next, order, built, request, execution, life>>

(* `execute_with` looks at the outputs first.                              *)
Resolve ==
    /\ phase = "requested" /\ surface = "period"
    /\ IF ~Known THEN Fail("unknown_output")
       ELSE phase' = "root" /\ UNCHANGED <<given, next, order, built, request, execution, life>>

Ascending == \A i \in 1..Len(periods.spans) - 1 : periods.spans[i].start < periods.spans[i + 1].start

(* A plan with the law fixed at a day takes only the past of that day:     *)
(* periods of one kind that do not overlap, and batches of root columns    *)
(* the program reads (`CalculationLifetimePlan::execute`).                 *)
Overlaps(i) == i > 1 /\ periods.spans[i].start <= periods.spans[i - 1].end
Historic(i) ==
    LET span == periods.spans[i]
    IN  span.start <= span.end /\ span.end < program.law /\ ~Overlaps(i)
        /\ (i > 1 => span.kind = periods.spans[1].kind)
Columnar(b) == DOMAIN b.keys = {} /\ DOMAIN b.columns \subseteq Range(program.inputs)

CheckHistory ==
    /\ phase = "requested" /\ surface = "lifetime" /\ program.law # None
    /\ IF \E i \in 1..Len(periods.spans) : ~Historic(i) THEN Fail("history")
       ELSE IF \E i \in 1..Len(periods.batches) : ~Columnar(periods.batches[i]) THEN Fail("history")
       ELSE phase' = "historic" /\ UNCHANGED <<given, next, order, built, request, execution, life>>

PairUp ==
    /\ surface = "lifetime"
    /\ phase = IF program.law = None THEN "requested" ELSE "historic"
    /\ IF periods.spans = <<>> THEN Fail("no_periods")
       ELSE IF Len(periods.spans) # Len(periods.batches) THEN Fail("periods_and_batches")
       ELSE IF ~Ascending THEN Fail("not_ascending")
       ELSE /\ phase' = "root"
            /\ batch' = periods.batches[1]
            /\ UNCHANGED <<program, next, order, built, request, execution, life>>

Remaining == Len(periods.batches) - Len(observed) - 1

(* A batch is bound: the next is bound, if it has as many rows.            *)
Observe ==
    /\ phase = "bound" /\ surface = "lifetime" /\ verdict = "binding" /\ current.rows = 0
    /\ IF observed # <<>> /\ batch.rows # observed[1].rows THEN Fail("row_counts")
       ELSE /\ observed' = Append(observed, [BoundBatch EXCEPT
                             !.start = periods.spans[Len(observed) + 1].start,
                             !.law = LawAt(periods.spans[Len(observed) + 1].start)])
            /\ IF Remaining = 0 THEN phase' = "observed" /\ UNCHANGED <<batch, next, order, built>>
               ELSE batch' = periods.batches[Len(observed) + 2] /\ Rebind
            /\ UNCHANGED <<program, request, execution, periods, outer>>

-----------------------------------------------------------------------------
(* Every output must reduce over periods, itself or through a rule.        *)
Misasked ==
    {i \in 1..Len(program.outputs) :
       \/ program.outputs[i] \notin DOMAIN program.rules
       \/ ~Reduces(program.rules[program.outputs[i]].body)}
FirstMisasked == CHOOSE i \in Misasked : \A j \in Misasked : i <= j

BeginLifetime ==
    /\ phase = "observed" /\ verdict = "binding"
    /\ IF Misasked # {}
       THEN Fail(IF program.outputs[FirstMisasked] \in DOMAIN program.rules
                 THEN "no_reduction" ELSE "unknown_output")
       ELSE /\ verdict' = None
            /\ current' = observed[Len(observed)]
            /\ UNCHANGED <<given, binding, request, life, left, tasks, stack, ret, caches, evaluated>>

-----------------------------------------------------------------------------
(* The periods.                                                            *)

Reference == Len(observed)
InContext == outer # None
AtLife(op) == At(op) /\ surface = "lifetime"

(* What is evaluated in every period: an input, a parameter of a count,    *)
(* the operand of a reduction, then a count that reduces no further.       *)
Driven(f) ==
    CASE f.expr.op = "over" /\ f.n = 0 -> f.expr.value
      [] f.expr.op = "over" /\ f.n = 1 -> f.expr.n
      [] OTHER -> f.expr
Drives(f) ==
    \/ f.expr.op = "input"
    \/ f.expr.op = "parameter" /\ InContext
    \/ f.expr.op = "over" /\ f.n = 0
    \/ f.expr.op = "over" /\ f.n = 1 /\ ~Reduces(f.expr.n)
Drivable == {"input", "parameter", "over"}

(* One period after the other, for the rows that have not failed.          *)
Drive ==
    /\ \E op \in Drivable : AtLife(op)
    /\ Drives(Top) /\ Len(Top.seen) < Reference
    /\ LET p == observed[Len(Top.seen) + 1]
           m == [r \in Top.live |-> Meaning(p, "root", Driven(Top), r)]
           failed == {r \in Top.live : Failed(m[r])}
       IN  stack' = Append(Below,
             [Top EXCEPT !.seen = Append(@, [r \in Rows |-> IF r \in Top.live \ failed THEN m[r].value ELSE 0]),
                         !.live = @ \ failed,
                         !.errors = [r \in failed |-> m[r].error] @@ @])
    /\ UNCHANGED <<ret, caches>> /\ Quiet /\ Still

DrivenAt(op) == AtLife(op) /\ Len(Top.seen) = Reference

Varies(seen, p, r) == \E q \in 1..Reference : seen[q][r] # seen[p][r]

(* An input outside a reduction: the value all periods have.               *)
EndsVary(seen, r) == seen[1][r] # seen[Reference][r]   \* mutant: only the ends are compared
PeriodsVary(seen, r) == Varies(seen, 1, r)

InvariantInput ==
    /\ DrivenAt("input")
    /\ LET varying == {r \in Top.live : PeriodsVary(Top.seen, r)}
       IN  Return(Answer(Top.seen[1], Top.errors @@ FailAll(varying, "varying")))
    /\ UNCHANGED caches /\ Quiet /\ Still

(* What a count reads must be the same in every period.                    *)
Uneven == {r \in Top.live : Varies(Top.seen, Reference, r)}

(* A parameter: of the last period, or, within a count, of every period.   *)
LookUp ==
    /\ AtLife("parameter") /\ ~InContext
    /\ LET v == ParameterAt(Top.expr.name, current.law)
       IN  Return(IF v = None THEN Answer(Fill("root", 0), FailAll(Top.mask, "no_version"))
                  ELSE Answer(Fill("root", v), NoErrors))
    /\ UNCHANGED caches /\ Quiet /\ Still

InvariantLookUp ==
    /\ DrivenAt("parameter")
    /\ Return(Answer(Top.seen[Reference], Top.errors @@ FailAll(Uneven, "count_varies")))
    /\ UNCHANGED caches /\ Quiet /\ Still

(* A period's own dates and the members of a relation have no meaning      *)
(* outside a reduction.                                                    *)
AmbiguousLeaf ==
    /\ \E op \in Folds \cup {"start"} : AtLife(op)
    /\ Return(Answer(Fill("root", 0), FailAll(Top.mask, "ambiguous_leaf")))
    /\ UNCHANGED caches /\ Quiet /\ Still

-----------------------------------------------------------------------------
(* Reductions.                                                             *)

ValuesOf(seen, r) == [p \in 1..Reference |-> seen[p][r]]
TotalOf(values) ==
    FoldLeft(LAMBDA t, v : IF t = None \/ t + v > Cap THEN None ELSE t + v, 0, values)
Largest(values) == CHOOSE v \in Range(values) : \A w \in Range(values) : v >= w
Descending(values) == SortSeq(values, LAMBDA a, b : a > b)

TopN(values, n) == TotalOf(SubSeq(Descending(values), 1, n))

(* One value of each row, None where a sum overflows.                      *)
Reduced(kind, seen, rows, counts) ==
    [r \in rows |->
       LET values == ValuesOf(seen, r)
       IN  CASE kind = "count" -> Cardinality({p \in 1..Reference : values[p] # 0})
             [] kind = "sum" -> TotalOf(values)
             [] kind = "max" -> Largest(values)
             [] kind = "top" -> TopN(values, counts[r])]

Reduction(f, seen, rows, errors, counts) ==
    LET result == Reduced(f.expr.kind, seen, rows, counts)
        over == {r \in rows : result[r] = None}
    IN  Answer([r \in Rows |-> IF r \in rows \ over THEN result[r] ELSE 0],
               errors @@ FailAll(over, "overflow"))

ReduceOverPeriods ==
    /\ DrivenAt("over") /\ Top.n = 0 /\ Top.expr.kind # "top"
    /\ Return(Reduction(Top, Top.seen, Top.live, Top.errors, NoErrors))
    /\ UNCHANGED caches /\ Quiet /\ Still

(* The values of a top-N sum are known; its count comes next.              *)
AwaitCount ==
    /\ DrivenAt("over") /\ Top.n = 0 /\ Top.expr.kind = "top"
    /\ stack' = Append(Below, [Top EXCEPT !.n = 1, !.acc = Top.seen, !.seen = <<>>])
    /\ UNCHANGED <<ret, caches>> /\ Quiet /\ Still

(* The sum of as many of a row's largest values as its count says, if it   *)
(* says at least one and no more than there are periods.                   *)
InRange(counts, r) == counts[r] >= 1 /\ counts[r] <= Reference

SumTop(f, counts, rows, errors) ==
    LET good == {r \in rows : InRange(counts, r)}
    IN  Reduction(f, f.acc, good, errors @@ FailAll(rows \ good, "count_out_of_range"), counts)

(* A count that has a value in each period: the last period's, which the   *)
(* others must have too.                                                   *)
CountInPeriods ==
    /\ DrivenAt("over") /\ Top.n = 1
    /\ Return(SumTop(Top, Top.seen[Reference], Top.live \ Uneven,
                     Top.errors @@ FailAll(Uneven, "count_varies")))
    /\ UNCHANGED caches /\ Quiet /\ Still

(* A count that reduces over periods is evaluated once, with caches and    *)
(* deferred rules of its own; within such a count, as it stands.           *)
Fresh(cache) == [r \in DOMAIN cache |-> None]

EnterCount ==
    /\ AtLife("over") /\ Top.n = 1 /\ Reduces(Top.expr.n) /\ ~InContext
    /\ outer' = [stack |-> stack, tasks |-> tasks, columns |-> columns]
    /\ stack' = <<>> /\ tasks' = <<>>
    /\ columns' = Fresh(columns)
    /\ UNCHANGED <<given, binding, request, periods, observed,
                   current, left, ret, shared, members, evaluated, verdict>>

Counting == outer.stack[Len(outer.stack)]

StartCount ==
    /\ Working /\ InContext /\ stack = <<>> /\ tasks = <<>>
    /\ stack' = <<Frame("root", Counting.expr.n, Counting.live)>>
    /\ UNCHANGED <<ret, caches>> /\ Quiet /\ Still

CountWithin ==
    /\ AtLife("over") /\ Top.n = 1 /\ Reduces(Top.expr.n) /\ InContext
    /\ stack' = Append(stack, Frame("root", Top.expr.n, Top.live))
    /\ UNCHANGED <<ret, caches>> /\ Quiet /\ Still

(* The context is left: the caches kept aside come back.                   *)
Leaked(kept) == columns   \* mutant: columns of the count outlive it
Restored(kept) == kept.columns

LeaveCount ==
    /\ verdict = None /\ InContext /\ stack = <<>> /\ tasks = <<>> /\ ret # None
    /\ stack' = outer.stack /\ tasks' = outer.tasks
    /\ columns' = Restored(outer)
    /\ outer' = None
    /\ UNCHANGED <<given, binding, request, periods, observed,
                   current, left, ret, shared, members, evaluated, verdict>>

TakeCount ==
    /\ Returned("expr") /\ Top.expr.op = "over" /\ Top.n = 1
    /\ Return(SumTop(Top, ret.column, Top.live \ DOMAIN ret.errors, Top.errors @@ ret.errors))
    /\ UNCHANGED caches /\ Quiet /\ Still

-----------------------------------------------------------------------------
(* The whole system: a batch is bound and executed, or several and a       *)
(* lifetime is. A task of a count is the count's driver's.                 *)

Binds == UNCHANGED <<request, execution, life>>

StartGoal == (InContext => tasks # <<>>) /\ Start /\ Still
FinishGoal == ~InContext /\ FinishOutput /\ Still

Next ==
    \/ Resolve \/ CheckHistory \/ PairUp
    \/ (CheckRoot /\ Binds) \/ (RefuseRoot /\ Binds) \/ (RefuseSchema /\ Binds)
    \/ (CheckSchema /\ Binds) \/ (FinishSchemas /\ Binds) \/ (ConfirmKey /\ Binds)
    \/ (BindColumns /\ Binds) \/ (BindKey /\ Binds) \/ (FinishKeys /\ Binds)
    \/ (BindRelation /\ Binds) \/ (FinishRelations /\ Binds)
    \/ Observe \/ BeginLifetime \/ (Begin /\ Still)
    \/ (Literal /\ Still) \/ (Input /\ Still) \/ (Parameter /\ Still) \/ (PeriodLeaf /\ Still)
    \/ (Descend /\ Still) \/ (Take /\ Still) \/ (Finish /\ Still)
    \/ (ReadBody /\ Still) \/ (ReadKeptBody /\ Still) \/ (FinishBody /\ Still)
    \/ (ReadKeptRule /\ Still) \/ (ReadRule /\ Still) \/ (DeferRule /\ Still)
    \/ (TakeRule /\ Still) \/ (FinishRule /\ Still)
    \/ (PassLink /\ Still) \/ (FilterLink /\ Still) \/ (KeepFiltered /\ Still) \/ (MembersKnown /\ Still)
    \/ (ResolveMembers /\ Still) \/ (TakeMembers /\ Still) \/ (TestMembers /\ Still)
    \/ (TakeTests /\ Still) \/ (ReadValues /\ Still) \/ (TakeValues /\ Still)
    \/ Drive \/ InvariantInput \/ LookUp \/ InvariantLookUp \/ AmbiguousLeaf
    \/ ReduceOverPeriods \/ AwaitCount
    \/ CountInPeriods \/ EnterCount \/ StartCount \/ CountWithin \/ LeaveCount \/ TakeCount
    \/ StartGoal \/ (FinishTask /\ Still) \/ FinishGoal \/ (Respond /\ Still)

vars == <<given, binding, request, execution, life>>

Init == Unbound /\ Idle /\ observed = <<>> /\ outer = None
=============================================================================
