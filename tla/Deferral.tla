------------------------------ MODULE Deferral ------------------------------
(***************************************************************************)
(* The explain interpreter's bounded recursion (src/src/depth.rs and the   *)
(* drive loop of src/src/engine.rs).                                       *)
(*                                                                         *)
(* Evaluating a rule recurses into the rules it reads. The native stack is *)
(* `stack`: one frame per expression level, so its length is the engine's  *)
(* `depth`. At a read of a rule not cached yet, once the depth has reached *)
(* `suspend_depth`, the interpreter unwinds the whole stack and leaves the *)
(* rule to the driver, which evaluates it as a task from level zero and    *)
(* then retries what was interrupted. The caches outlive the retries and   *)
(* the queries; the stack, `tasks` and `waiting` live within one query.    *)
(*                                                                         *)
(* One entity and one period: without relations a rule reads only rules of *)
(* its own entity and period, so the cache keys of others never meet these.*)
(***************************************************************************)
EXTENDS Expressions, FiniteSets

CONSTANTS Rules,           \* rule names
          Programs,        \* programs that may be loaded
          Status(_, _),    \* of a program's rule: "ok" or why it is refused
          KindOf(_, _),    \* of a program's rule: the kind of its formula
          Body(_, _),      \* of a program's rule: its formula
          Rounds(_, _),    \* of a program's rule: it declares output rounding
          Levels,          \* thresholds `with_suspend_depth` may be given
          MaxQueries,      \* bound: queries made of one engine
          Meaning(_, _),   \* reference: outcome of a query under a program
          Rest(_, _, _),   \* reference: outcome of a formula node whose first
                           \* operands have the given values
          Steps(_, _, _),  \* reference: how many steps that evaluation takes
          Reads(_, _, _),  \* reference: the rules it reads, in order
          Passed(_, _, _)  \* reference: the formulas it leaves unevaluated

Kinds == {"scalar", "judgment"}
Keys == [kind : Kinds, rule : Rules]

(* A rule name is usable ("ok"), or unknown to the program, or of an       *)
(* unknown unit, or without a version covering the period.                 *)
Statuses == {"ok", "unknown_derived", "unknown_unit", "missing_version"}

VARIABLES program,        \* the program the engine was created with
          suspend_depth,  \* levels evaluated before a rule is deferred
          cache,          \* scalar_cache and judgment_cache: key -> value
          pre_rounding,   \* pre_rounding_cache: key -> value before rounding
          trace,          \* execution_trace: rule -> [deps, skipped]: the
                          \* rules read, and the formulas left unevaluated
          stack,          \* the interpreter's frames, outermost first
          tasks,          \* rules deferred to the driver, newest last
          waiting,        \* the set of the rules in tasks
          asked,          \* queries made of the engine
          answers         \* outcomes returned

state == <<cache, pre_rounding, trace>>
driver == <<stack, tasks, waiting>>
vars == <<program, suspend_depth, state, driver, asked, answers>>

Root == asked[Len(asked)]
Running == Len(answers) < Len(asked)
Depth == Len(stack)
Top == stack[Len(stack)]

Insert(f, k, v) == [x \in DOMAIN f \cup {k} |-> IF x = k THEN v ELSE f[x]]
Pop(s) == SubSeq(s, 1, Len(s) - 1)

(* `with_suspend_depth`: a threshold of zero would never make progress.    *)
Threshold(levels) == IF levels = 0 THEN 1 ELSE levels

(* The checks between the cache miss and the formula: the rule exists, its *)
(* unit exists, a version covers the period, and it is of the kind asked.  *)
Refusal(p, k) ==
    IF Status(p, k.rule) # "ok" THEN Status(p, k.rule)
    ELSE IF KindOf(p, k.rule) # k.kind
         THEN IF k.kind = "scalar" THEN "expected_scalar" ELSE "expected_judgment"
         ELSE "none"

(* `apply_output_rounding`, here toward zero to a multiple of two.         *)
Rounded(p, k, v) ==
    IF k.kind = "scalar" /\ Rounds(p, k.rule) THEN v - (v % 2) ELSE v

ASSUME ProgramAssumption ==
    /\ Levels \subseteq Nat
    /\ \A e \in Exprs : WellFormed(e) /\ (e.op = "derived" => e.key \in Keys)
    /\ \A p \in Programs, r \in Rules :
           /\ Status(p, r) \in Statuses
           /\ KindOf(p, r) \in Kinds
           /\ Body(p, r) \in Exprs

(* The reference is unbounded recursion: a node's operands are evaluated   *)
(* wholly, one after the other, and the first error is the node's; a rule  *)
(* means what its formula does, rounded. Where recursion has no end the    *)
(* equations still hold with "dependency_cycle" as the outcome.            *)
ASSUME ReferenceAssumption ==
    \A p \in Programs :
        /\ \A k \in Keys :
              Meaning(p, k) =
                IF Refusal(p, k) # "none" THEN Err(Refusal(p, k))
                ELSE LET o == Rest(p, Body(p, k.rule), <<>>)
                     IN  IF o.ok THEN Ok(Rounded(p, k, o.val)) ELSE o
        /\ \A e \in Exprs : \A vals \in Partial(e) :
              Rest(p, e, vals) =
                IF e.op = "derived" /\ vals = <<>> THEN Meaning(p, e.key)
                ELSE IF Wants(e, vals)
                THEN LET o == Rest(p, Operand(e, vals), <<>>)
                     IN  IF o.ok THEN Rest(p, e, Append(vals, o.val)) ELSE o
                ELSE Finish(e, vals)

(* Formulas are finite trees: an operand has fewer levels than its node.   *)
ASSUME FormulaAssumption ==
    \A e \in Exprs : /\ Height[e] \in Nat \ {0}
                     /\ \A i \in 1..Len(e.args) : Height[e.args[i]] < Height[e]

Endless == Err("dependency_cycle")

(* The steps from the formula of a rule that has one to evaluate.          *)
RuleSteps(p, k) ==
    IF Refusal(p, k) = "none" THEN Steps(p, Body(p, k.rule), <<>>) ELSE 0

(* Recursion without end is the one thing the reference reports as a cycle:*)
(* any other outcome takes finitely many steps, those of what a node waits *)
(* for and those left once it has the value among them.                    *)
ASSUME EndAssumption ==
    \A p \in Programs, e \in Exprs : \A vals \in Partial(e) :
        /\ Steps(p, e, vals) \in Nat
        /\ Rest(p, e, vals) # Endless =>
             /\ e.op = "derived" /\ vals = <<>> =>
                    /\ RuleSteps(p, e.key) < Steps(p, e, vals)
                    /\ \A v \in Values : Meaning(p, e.key) = Ok(v) =>
                                           Steps(p, e, <<v>>) < Steps(p, e, vals)
             /\ Wants(e, vals) =>
                    /\ Steps(p, Operand(e, vals), <<>>) < Steps(p, e, vals)
                    /\ \A v \in Values : Rest(p, Operand(e, vals), <<>>) = Ok(v) =>
                              Steps(p, e, Append(vals, v)) < Steps(p, e, vals)

(* The reads of a node are those of its operands, in the order they are    *)
(* evaluated, up to the first that fails; a rule's own reads are not its   *)
(* reader's. What a node passes over, its operands do, and what the values *)
(* it was given rule out.                                                  *)
ASSUME TraceAssumption ==
    \A p \in Programs, e \in Exprs : \A vals \in Partial(e) :
        /\ Rest(p, e, vals).ok => Rest(p, e, vals).val \in Values
        /\ Reads(p, e, vals) \in Seq(Rules)
        /\ Reads(p, e, vals) =
             IF e.op = "derived" /\ vals = <<>> THEN <<e.key.rule>>
             ELSE IF Wants(e, vals)
             THEN LET x == Operand(e, vals)
                      o == Rest(p, x, <<>>)
                  IN  Reads(p, x, <<>>) \o
                      IF o.ok THEN Reads(p, e, Append(vals, o.val)) ELSE <<>>
             ELSE <<>>
        /\ Passed(p, e, vals) =
             Skipped(e, vals) \cup
             IF Wants(e, vals)
             THEN LET x == Operand(e, vals)
                      o == Rest(p, x, <<>>)
                  IN  Passed(p, x, <<>>) \cup
                      IF o.ok THEN Passed(p, e, Append(vals, o.val)) ELSE {}
             ELSE {}

-----------------------------------------------------------------------------
EmptyTrace == [deps |-> <<>>, skipped |-> {}]

(* A rule's entry is made when its evaluation begins, and kept by retries. *)
Opened(t, r) == IF r \in DOMAIN t THEN t ELSE Insert(t, r, EmptyTrace)

RecordEveryRead(t, r, read) ==     \* mutant: no check for a listed edge
    [t EXCEPT ![r].deps = Append(@, read)]

(* `record_on`: an edge is listed once, at its first occurrence.           *)
RecordRead(t, r, read) ==
    IF \E i \in 1..Len(t[r].deps) : t[r].deps[i] = read THEN t
    ELSE [t EXCEPT ![r].deps = Append(@, read)]


RecordSkipped(t, r, e, vals) ==
    [t EXCEPT ![r].skipped = @ \cup Skipped(e, vals)]

(* A rule of the wrong kind is refused only after its entry is made.       *)
OpenedUnlessAbsent(t, k) ==
    IF Status(program, k.rule) = "ok" THEN Opened(t, k.rule) ELSE t

Frame(k, e, body) == [key |-> k, expr |-> e, vals |-> <<>>, body |-> body]

(* The driver ends the query with an outcome; only the caches remain.      *)
Finished(outcome) ==
    /\ answers' = Append(answers, outcome)
    /\ stack' = <<>>
    /\ tasks' = <<>>
    /\ waiting' = {}

Init ==
    /\ program \in Programs
    /\ suspend_depth \in {Threshold(levels) : levels \in Levels}
    /\ cache = <<>>
    /\ pre_rounding = <<>>
    /\ trace = <<>>
    /\ stack = <<>>
    /\ tasks = <<>>
    /\ waiting = {}
    /\ asked = <<>>
    /\ answers = <<>>

(* The caller asks for a rule; `drive` starts with no task.                *)
Ask(k) ==
    /\ ~Running
    /\ Len(asked) < MaxQueries
    /\ asked' = Append(asked, k)
    /\ UNCHANGED <<program, suspend_depth, state, driver, answers>>

(* One turn of `run_tasks`: the newest task, or the query when there is    *)
(* none, is evaluated from depth zero. The threshold is at least one, so   *)
(* this call itself is never deferred.                                     *)
Goal == IF tasks = <<>> THEN Root ELSE tasks[Len(tasks)]

CompleteGoalEarly(v) ==     \* mutant: the last task's value answers the query
    IF Len(tasks) <= 1
    THEN Finished(Ok(v))
    ELSE /\ stack' = <<>>
         /\ tasks' = Pop(tasks)
         /\ waiting' = waiting \ {Goal}
         /\ UNCHANGED answers


CompleteGoal(v) ==
    IF tasks = <<>>
    THEN Finished(Ok(v))
    ELSE /\ stack' = <<>>
         /\ tasks' = Pop(tasks)
         /\ waiting' = waiting \ {Goal}
         /\ UNCHANGED answers

AttemptCached ==
    /\ Running /\ stack = <<>>
    /\ Goal \in DOMAIN cache
    /\ CompleteGoal(cache[Goal])
    /\ UNCHANGED <<program, suspend_depth, state, asked>>

AttemptRefused ==
    /\ Running /\ stack = <<>>
    /\ Goal \notin DOMAIN cache
    /\ Refusal(program, Goal) # "none"
    /\ Finished(Err(Refusal(program, Goal)))
    /\ trace' = OpenedUnlessAbsent(trace, Goal)
    /\ UNCHANGED <<program, suspend_depth, cache, pre_rounding, asked>>

Attempt ==
    /\ Running /\ stack = <<>>
    /\ Goal \notin DOMAIN cache
    /\ Refusal(program, Goal) = "none"
    /\ stack' = <<Frame(Goal, Body(program, Goal.rule), TRUE)>>
    /\ trace' = Opened(trace, Goal.rule)
    /\ UNCHANGED <<program, suspend_depth, cache, pre_rounding, tasks, waiting, asked, answers>>

(* The innermost node evaluates its next operand, one level deeper.        *)
Descend ==
    /\ stack # <<>>
    /\ Wants(Top.expr, Top.vals)
    /\ stack' = Append(stack, Frame(Top.key, Operand(Top.expr, Top.vals), FALSE))
    /\ UNCHANGED <<program, suspend_depth, state, tasks, waiting, asked, answers>>

(* The innermost node reads a rule. The edge is recorded first, whether    *)
(* the read then finds the rule cached, defers it, is refused or recurses. *)
Reading == stack # <<>> /\ Top.expr.op = "derived" /\ Top.vals = <<>>
Read == Top.expr.key
ReadRecorded == RecordRead(trace, Top.key.rule, Read.rule)

(* An unknown rule is refused before its edge is recorded.                 *)
ReadUnknown ==
    /\ Reading
    /\ Status(program, Read.rule) = "unknown_derived"
    /\ Finished(Err("unknown_derived"))
    /\ UNCHANGED <<program, suspend_depth, state, asked>>

Known == Reading /\ Status(program, Read.rule) # "unknown_derived"

ReadCached ==
    /\ Known
    /\ Read \in DOMAIN cache
    /\ stack' = [stack EXCEPT ![Len(stack)].vals = <<cache[Read]>>]
    /\ trace' = ReadRecorded
    /\ UNCHANGED <<program, suspend_depth, cache, pre_rounding, tasks, waiting, asked, answers>>

DefersLate == Read \notin DOMAIN cache /\ Depth > suspend_depth   \* mutant
Defers == Read \notin DOMAIN cache /\ Depth >= suspend_depth

ReadDeferred ==
    /\ Known /\ Defers
    /\ Read \notin waiting
    /\ stack' = <<>>
    /\ tasks' = Append(tasks, Read)
    /\ waiting' = waiting \cup {Read}
    /\ trace' = ReadRecorded
    /\ UNCHANGED <<program, suspend_depth, cache, pre_rounding, asked, answers>>

(* A rule deferred while a task that waits for it is open reaches itself.  *)
ReadCycle ==
    /\ Known /\ Defers
    /\ Read \in waiting
    /\ Finished(Err("dependency_cycle"))
    /\ trace' = ReadRecorded
    /\ UNCHANGED <<program, suspend_depth, cache, pre_rounding, asked>>

Recurses == Read \notin DOMAIN cache /\ ~Defers

ReadRefused ==
    /\ Known /\ Recurses
    /\ Refusal(program, Read) # "none"
    /\ Finished(Err(Refusal(program, Read)))
    /\ trace' = OpenedUnlessAbsent(ReadRecorded, Read)
    /\ UNCHANGED <<program, suspend_depth, cache, pre_rounding, asked>>

ReadRecurses ==
    /\ Known /\ Recurses
    /\ Refusal(program, Read) = "none"
    /\ stack' = Append(stack, Frame(Read, Body(program, Read.rule), TRUE))
    /\ trace' = Opened(ReadRecorded, Read.rule)
    /\ UNCHANGED <<program, suspend_depth, cache, pre_rounding, tasks, waiting, asked, answers>>

-----------------------------------------------------------------------------
(* The innermost node has all it needs.                                    *)
Complete == stack # <<>> /\ ~Wants(Top.expr, Top.vals) /\ ~Reading
Outcome == Finish(Top.expr, Top.vals)

(* An error ends the query whatever task it occurs in: it is the error     *)
(* unbounded recursion would have propagated to the query.                 *)
Fail ==
    /\ Complete /\ ~Outcome.ok
    /\ Finished(Outcome)
    /\ UNCHANGED <<program, suspend_depth, state, asked>>

(* The node's value goes to the node that asked for it, which records what *)
(* that value rules out.                                                   *)
Caller == stack[Len(stack) - 1]

Deliver(v) ==
    stack' = [Pop(stack) EXCEPT ![Len(stack) - 1].vals = Append(@, v)]

Return ==
    /\ Complete /\ Outcome.ok /\ ~Top.body
    /\ Deliver(Outcome.val)
    /\ trace' = RecordSkipped(trace, Top.key.rule, Caller.expr, Append(Caller.vals, Outcome.val))
    /\ UNCHANGED <<program, suspend_depth, cache, pre_rounding, tasks, waiting, asked, answers>>

StoredRaw(w, raw) ==     \* mutant: cached before rounding
    /\ cache' = Insert(cache, Top.key, raw)
    /\ UNCHANGED pre_rounding

StoredNowhere(w, raw) == UNCHANGED <<cache, pre_rounding>>   \* mutant

(* `apply_output_rounding` keeps the value before rounding when it differs.*)
Stored(w, raw) ==
    /\ cache' = Insert(cache, Top.key, w)
    /\ pre_rounding' = IF w # raw THEN Insert(pre_rounding, Top.key, raw) ELSE pre_rounding

(* A formula's value is rounded and cached before its reader sees it; the  *)
(* outermost one completes the task, or answers the query.                 *)
ReturnFromRule ==
    /\ Complete /\ Outcome.ok /\ Top.body
    /\ LET w == Rounded(program, Top.key, Outcome.val)
       IN  /\ Stored(w, Outcome.val)
           /\ IF Depth = 1 THEN CompleteGoal(w)
              ELSE Deliver(w) /\ UNCHANGED <<tasks, waiting, answers>>
    /\ UNCHANGED <<program, suspend_depth, trace, asked>>

Step == \/ AttemptCached \/ AttemptRefused \/ Attempt
        \/ Descend
        \/ ReadUnknown \/ ReadCached \/ ReadDeferred \/ ReadCycle
        \/ ReadRefused \/ ReadRecurses
        \/ Fail \/ Return \/ ReturnFromRule

Next == Step \/ \E k \in Keys : Ask(k)

(* The engine runs to completion on the caller's thread: a query under way *)
(* keeps taking steps.                                                     *)
Spec == Init /\ [][Next]_vars /\ WF_vars(Step)

-----------------------------------------------------------------------------
Outcomes == {Ok(v) : v \in Values} \cup
            {Err(e) : e \in {"missing_input", "overflow", "division_by_zero",
                             "type_mismatch", "no_matching_arm", "expected_scalar",
                             "expected_judgment", "dependency_cycle"}
                            \cup (Statuses \ {"ok"})}

FrameType == [key : Keys, expr : Exprs, vals : Seq(Values), body : BOOLEAN]

(* Every variable keeps its type; in particular no value outside the       *)
(* decimals is ever handed on or cached.                                   *)
TypeOK ==
    /\ program \in Programs
    /\ suspend_depth \in Nat \ {0}
    /\ DOMAIN cache \subseteq Keys
    /\ \A k \in DOMAIN cache : cache[k] \in Values
    /\ DOMAIN pre_rounding \subseteq Keys
    /\ \A k \in DOMAIN pre_rounding : pre_rounding[k] \in Values
    /\ DOMAIN trace \subseteq Rules
    /\ \A r \in DOMAIN trace : trace[r] \in [deps : Seq(Rules), skipped : SUBSET Exprs]
    /\ stack \in Seq(FrameType)
    /\ tasks \in Seq(Keys)
    /\ waiting \in SUBSET Keys
    /\ asked \in Seq(Keys)
    /\ answers \in Seq(Outcomes)

(* A cached value is the rule's meaning, whichever segment, retry or       *)
(* earlier query of the same engine computed it (depth.rs: "deferral       *)
(* changes no result").                                                    *)
CacheSound == \A k \in DOMAIN cache : Meaning(program, k) = Ok(cache[k])

(* Every query is answered with the rule's meaning; never with another     *)
(* rule's value or error, and never with a cycle where unbounded recursion *)
(* would have ended, however the evaluation was cut into tasks and         *)
(* whatever earlier queries left cached.                                   *)
AnswersSound ==
    \A i \in 1..Len(answers) : answers[i] = Meaning(program, asked[i])

(* The stack stays within the threshold plus one rule's own expression     *)
(* nesting, whatever the length of the chain of rules (depth.rs: "each on  *)
(* a stack no deeper than the threshold plus one rule's own expression     *)
(* nesting").                                                              *)
StackBound ==
    \/ stack = <<>>
    \/ \E r \in Rules : Depth <= suspend_depth - 1 + Height[Body(program, r)]

(* `list` has each member of `s` once, in the order of first occurrence.   *)
Before(s, i) == {s[j] : j \in 1..(i - 1)}
Listed(s) == {s[j] : j \in 1..Len(s)}
FirstsOf(list, s) ==
    \A i \in 1..Len(list) : \E j \in 1..Len(s) :
        /\ list[i] = s[j]
        /\ s[j] \notin Before(s, j)
        /\ Before(s, j) = Before(list, i)
ListsFirsts(list, s) == FirstsOf(list, s) /\ Listed(s) \subseteq Listed(list)

RuleReads(p, r) == Reads(p, Body(p, r), <<>>)
RulePasses(p, r) == Passed(p, Body(p, r), <<>>)
RulesIn(formulas) == UNION {References[x] : x \in formulas}

(* A finished rule's trace is the one uninterrupted recursion records: the *)
(* same edges in the same order, and the same skipped rules, however often *)
(* the rule's evaluation was interrupted and retried (depth.rs: "a rule's  *)
(* value, errors and trace do not depend on which stack computed them").   *)
TraceExact ==
    \A k \in DOMAIN cache :
        /\ ListsFirsts(trace[k.rule].deps, RuleReads(program, k.rule))
        /\ RulesIn(trace[k.rule].skipped) = RulesIn(RulePasses(program, k.rule))

-----------------------------------------------------------------------------
(* The inductive strengthening of the safety properties. A frame stands    *)
(* where its reader left it: inside the node below it when it is an        *)
(* operand, at the read below it when it is a rule's formula; and the      *)
(* operand values it holds so far lead to the node's meaning.              *)
Follows(g, f) ==
    IF g.body THEN f.expr.op = "derived" /\ f.vals = <<>> /\ g.key = f.expr.key
    ELSE Wants(f.expr, f.vals) /\ g.expr = Operand(f.expr, f.vals)

-----------------------------------------------------------------------------
FrameSound(f) ==
    /\ f.vals \in Partial(f.expr)
    /\ Rest(program, f.expr, f.vals) = Rest(program, f.expr, <<>>)
    /\ f.body => f.expr = Body(program, f.key.rule) /\ Refusal(program, f.key) = "none"

(* An error of a rule or node under evaluation is the query's own.         *)
Surfaces(outcome) == ~outcome.ok => Meaning(program, Root) = outcome

StackSound ==
    /\ stack # <<>> => /\ Running
                       /\ stack[1].body
                       /\ stack[1].key = Goal
    /\ \A i \in 1..Len(stack) : /\ FrameSound(stack[i])
                                /\ Surfaces(Rest(program, stack[i].expr, <<>>))
    /\ \A i \in 1..(Len(stack) - 1) : Follows(stack[i+1], stack[i])

TasksSound ==
    /\ tasks # <<>> => Running
    /\ \A i \in 1..Len(tasks) : Surfaces(Meaning(program, tasks[i]))

QueriesSound == Len(answers) \in {Len(asked), Len(asked) - 1}

AnswersOrCycle ==
    \A i \in 1..Len(answers) : answers[i] \in {Meaning(program, asked[i]), Endless}

Inductive ==
    TypeOK /\ CacheSound /\ StackSound /\ TasksSound /\ QueriesSound /\ AnswersOrCycle

(* Where the query's recursion ends, the task and the formulas under it    *)
(* take ever fewer steps, so none of them can wait for itself.             *)
StackEnds ==
    \A i \in 1..Len(stack) :
        Steps(program, stack[i].expr, stack[i].vals) <= RuleSteps(program, Goal)

TasksEnd ==
    \A i, j \in 1..Len(tasks) :
        i < j => RuleSteps(program, tasks[j]) < RuleSteps(program, tasks[i])

WaitingOpen == \A k \in waiting : \E i \in 1..Len(tasks) : tasks[i] = k

QueryEnds == Running /\ Meaning(program, Root) # Endless => StackEnds /\ TasksEnd

(* A rule is entered below the threshold, and an operand's levels are among*)
(* its node's, so no frame leaves room past one rule's nesting.            *)
FramesBounded ==
    \A i \in 1..Len(stack) : \E r \in Rules :
        i + Height[stack[i].expr] <= suspend_depth + Height[Body(program, r)]

-----------------------------------------------------------------------------
(* The trace of an interrupted rule is a beginning of the one it will have,*)
(* from whichever attempt went furthest. What a frame still has to read is *)
(* a piece of its rule's reads, and all before that piece is listed.       *)
Begun(p, entry, r) ==
    /\ FirstsOf(entry.deps, RuleReads(p, r))
    /\ entry.skipped \subseteq RulePasses(p, r)

Whole(p, entry, r) ==
    /\ Listed(RuleReads(p, r)) \subseteq Listed(entry.deps)
    /\ RulePasses(p, r) \subseteq entry.skipped

LiesAt(piece, s, n) ==
    /\ n + Len(piece) <= Len(s)
    /\ \A i \in 1..Len(piece) : s[n + i] = piece[i]

ReadUpTo(p, entry, f) ==
    LET all == RuleReads(p, f.key.rule)
    IN  /\ \E n \in 0..Len(all) : /\ LiesAt(Reads(p, f.expr, f.vals), all, n)
                                /\ Before(all, n + 1) \subseteq Listed(entry.deps)
        /\ Listed(Reads(p, f.expr, <<>>))
             \subseteq Listed(entry.deps) \cup Listed(Reads(p, f.expr, f.vals))

PassedUpTo(p, entry, f) ==
    /\ Skipped(f.expr, f.vals) \subseteq entry.skipped
    /\ Passed(p, f.expr, f.vals) \subseteq RulePasses(p, f.key.rule)
    /\ Passed(p, f.expr, <<>>) \subseteq entry.skipped \cup Passed(p, f.expr, f.vals)

FrameTraced(p, t, f) ==
    /\ f.key.rule \in DOMAIN t
    /\ ReadUpTo(p, t[f.key.rule], f)
    /\ PassedUpTo(p, t[f.key.rule], f)

(* A rule is entered once its edge is listed; an operand is of its rule.   *)
Entered(t, g, f) ==
    IF g.body THEN g.key.rule \in Listed(t[f.key.rule].deps) ELSE g.key = f.key

TraceBegun == \A r \in DOMAIN trace : Begun(program, trace[r], r)
TraceWhole ==
    \A k \in DOMAIN cache : /\ k.rule \in DOMAIN trace
                            /\ Whole(program, trace[k.rule], k.rule)
StackTraced ==
    /\ \A i \in 1..Len(stack) : FrameTraced(program, trace, stack[i])
    /\ \A i \in 1..(Len(stack) - 1) : Entered(trace, stack[i+1], stack[i])

Traced == TraceBegun /\ TraceWhole /\ StackTraced

-----------------------------------------------------------------------------
(* The engine answers every query with the rule's meaning, as the abstract *)
(* specification says: the threshold, the retries and the queries before   *)
(* change no answer, and no query runs forever.                            *)
Promise == INSTANCE Evaluation WITH Queries <- Keys
ImplementsEvaluation == Promise!Spec
=============================================================================
