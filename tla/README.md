# A verification of the Axiom rules engine

The Axiom rules engine compiles rules of law (RuleSpec documents) into a program
of *derived rules* and evaluates those rules over a dataset of entities, inputs
and relations. The program is sequential: one thread, no persistent state, no
network. What is hard in it is control flow. One meaning is computed by three
evaluators (explain, fast, dense); recursion is cut into resumable segments so
that no chain of rules overflows the native stack; lazy evaluation is carried as
row masks and per-row errors; relation members are found by resumable loops
whose trace effects must be recorded exactly once; and an evaluation order is
computed over a graph that mixes rules and relations.

The modules here are written from the source under `src/src`. `PROJECT.json`
gives the lines every definition stands for ("map"), the hazards the properties
are aimed at, and one plausible bug per property that breaks it ("mutants"; a
definition marked `mutant` in a module is one of these and part of no
specification).

## The system's parts

| Part | State it keeps | Operations | Correct when |
|---|---|---|---|
| Explain interpreter, deferral driver (`depth.rs`, `engine.rs`) | scalar, judgment and pre-rounding caches, execution trace, nesting depth; per query: tasks, waiting set | `evaluate_scalar`, `evaluate_judgment`, `drive`/`run_tasks`, `scalar_rule`, `judgment_rule`, expression nodes | deferral changes no value, error or trace; the native stack is bounded; every query ends |
| Relation members (`engine.rs`) | member memo, pending filter and path loops, member chains, fold and exists progress, trace captures | `derived_members`, `resolve_members`, `fold_members`, `filter_members`, `fold_related`, `exists_judgment`, `replay_members` | an interrupted loop resumes where it stopped; every asking rule gets each effect once; a cyclic relation is an error and not a hang |
| Inputs and parameters (`engine.rs`, `api.rs`, `model.rs`, `selected_year.rs`) | the dataset's input records, resolved per period | `lookup_input`, `validate_input_spells`, `resolve_inputs_for_period`, `lookup_parameter` | one record answers an input at a period; narrowing the dataset changes no answer |
| Fast evaluator (`bulk.rs`, `lazy.rs`) | per-rule columns with their evaluated mask and row errors, tasks, cells | `try_execute`, `evaluate_scalar`, `evaluate_judgment`, `eval_short_circuit`, `If` masks | each row computes what explain computes for it; whatever is not certain goes to explain whole |
| Dense evaluator (`dense.rs`, `lifetime_api.rs`) | compiled rule slots, columns, row errors, pending folds | `compile`, `execute`, `fold_related`, period grid | as the fast evaluator, over positional batches and several periods |
| Request pipeline (`api.rs`) | nothing between requests | date validation, pins, binding, mode choice and fallback, query loop, trace collection | checks in a fixed order; fast returns what explain returns; a trace resolves every dependency it lists |
| Compilation (`compile.rs`) | the compiled artifact | duplicate normalisation, direction, typing, evaluation order, cycle rejection, format checks | the order is topological and deterministic; cyclic programs are rejected; a stored order is the recomputed one |
| RuleSpec loading (`rulespec.rs`, `source.rs`) | load stack, loaded set, texts read | import resolution, merging, lowering, diagnostics | each module is read once, import cycles are errors, merging loses nothing |
| Relation typing and direction (`relation_typing.rs`, `relation_direction.rs`) | kinds per relation slot | declaring, inferring, following derivation chains, rewriting slots | an aggregation reads from the slot of the evaluating entity's kind |
| Dataset binding (`spec.rs`) | the bound dataset | binding of inputs and relation records, strict and loose | a record is bound once or refused |
| Unit derivation (`unit_derivation/`, off by default) | unit assignments, knowledge values | partition, aggregation | units are disjoint and cover the roster |
| Formula language (`formula.rs`) | token position | lexing, parsing, lowering | parse errors have positions; recursion is bounded |
| Interface, schema, migration, digest, CLI, Python, Wasm | none | projections of the artifact; pure I/O | round trips |

How they interact. A host gives module texts to RuleSpec loading through a
callback (`source.rs`); loading returns one merged document, which lowering
turns into a program with relation directions resolved; compilation types
relations, orders rules, refuses cycles and writes the artifact. A request binds
a dataset to the artifact's program and picks a mode. Explain runs the
interpreter once per query and output on one shared engine, so caches and trace
outlive a query but not a request. Fast narrows the inputs to the queries'
common period and runs the columnar evaluator, which keeps an explain engine of
its own for relation aggregations; when it cannot answer for every row, the
request runs on explain from the whole dataset. Dense runs compiled slots over
batches.

What is hard to test: interruption and retry inside one query; state a query, a
row or a segment leaves to the next; the agreement of evaluators that evaluate
in different orders; counters and cycle checks over two kinds of nodes; depth
limits that only long chains meet. Nothing runs concurrently and nothing is
persisted, so there are no hazards of threads, messages or crashes.

## The modules

| Component | Modules | Runs |
|---|---|---|
| Explain interpreter | `Expressions`, `Evaluation`, `Deferral`, `DeferralProofs` | deferral |
| Relation members | `Members` | members |
| Inputs and the choice of evaluator | `Inputs`, `InputsProofs` | inputs, fast_inputs |
| Fast evaluator | `Bulk` (extends `Expressions`), `BulkProofs` | bulk |
| Dense compiler | `DenseCompile`, with `CandidateAncestry` (instantiated), `CandidateAncestryProofs` | dense_compile |
| Dense executor, lifetimes | `DenseBinding` - `DenseExecution` - `Lifetime`, each extending the one before; `DenseMeaning` is their reference; `DenseBindingProofs` | dense_execution |
| Loading and lowering | `ModuleLoading` - `Lowering`; `LoweringProofs` | module_loading, durable_ids |
| Compiling | `RelationKinds` - `RelationDirection` - `RelationTyping` - `RelationReads` - `Interface` - `Compilation`, which instantiates `EvaluationOrder`; `EvaluationOrderProofs`, `CompilationProofs` | compilation |
| Unit derivation | `Constitutions` - `UnitDerivation` - `PhaseTwo` - `Aggregation` | unit_derivation, never_smaller |

A dash means that the module on the right extends the one on the left: what runs
is the last of the chain, so `Lowering` starts from what `ModuleLoading` merged,
`Lifetime` executes batches `DenseBinding` bound, `Compilation` sends one program
through direction, order, typing, interface and evaluation in the order
`compile_at` does, and `Aggregation` asks `UnitDerivation` for its families.

### Expressions, Evaluation, Deferral

`Expressions`. A formula node and the order in which `scalar_node` and
`judgment_node` evaluate its operands: `Wants` (the guards and early returns),
`Operand` (divisor before dividend, only the selected branch), `Finish` (the
value or the error), `Skipped` (what a value rules out). Decimals are
`0..MaxDecimal`, with overflow past it. A judgment holds or does not: the third
value, undetermined, is produced by no node of these kinds and only passed on.

`Evaluation`. What `Engine::evaluate_scalar` and `evaluate_judgment` promise: a
query is answered, with the meaning of the rule asked for, or as a dependency
cycle.

`Deferral`. The interpreter's recursion, one entity and one period. `stack` is
the native stack, one frame per `nested` level, so its length is `depth`;
`tasks` and `waiting` are the locals of `run_tasks`; `cache`, `pre_rounding` and
`trace` are the engine's fields. One action per outcome of a step: an attempt at
the root or the newest task (`Attempt*`), one level deeper (`Descend`), the
outcomes of reading a rule (`Read*`), a node's completion (`Fail`, `Return`,
`ReturnFromRule`). Deferral unwinds `stack` in one action because no frame on the
way does anything but return.

An observation on `trace`: it belongs to the engine, so in a batch it also holds
instances that earlier queries evaluated. The properties speak of a rule's own
entry, which does not depend on who asked first.

### EvaluationOrder

`evaluation_order` of `compile.rs` in its three passes, each an explicit loop in
the code: the depth-first search for a cycle among derived relations
(`SearchRoot` to `FinishTop`, `path` being its own stack), Kahn's algorithm over
rules with counts that pass through relations (`StartOrder`, `OrderRule`,
`RefuseCycle`), and the walk over rules and relations together, for programs that
derive a relation (`StartWalk` to `AcceptWalked`). A
program is given by what each formula reads and how it reads a relation: by
counting its members (`count`), through `only_related` (`only`), or as an atom of
a predicate (`atom`). The order of set iterations is the code's (B-tree order),
so the published order is a function of the program. `Compilation` instantiates
the module with the reads of its own programs' formulas; a program it refuses is
never typed.

### Inputs

`execute_request` over one input of each entity: validation of tied records,
choice of mode, narrowing to the shared period, `lookup_input`, bulk's cells (the
last narrowed record wins), an aggregation's engine over the narrowed records,
and the fallback. A record has an interval, a value, and whether its entity is of
the kind a selected-year read names.

### ModuleLoading, Lowering

`load_rulespec_document_from_source`: `frames` is the native recursion,
`loaded`, `read` and `Loading` the fields of the load context. The composed
program is a root of its own: no module imports it, and it is neither on the
context's stack nor among the texts read. What a text comes to when fetched and
validated is part of the source.

`Lowering` takes the merged declarations to a program. `pass` names the pass of
`to_program_spec_with_options` that comes next, `program` what the passes before
it left, `place` the next `sets` record. One action per pass, or per record where
a pass goes record by record: refusals of single declarations
(`RefuseDeclarations`), lowering (`LowerDeclarations`), joining of declared and
mentioned relations (`AppendRelations`), rewriting of the relation names in
formulas to those of the module they are written in (`RewriteReferences`), `sets`
records (`SetParameter`, `SetRule`, `Unset`), member aliases of filtered entities
(`ResolveAliases`), and what `compile_at` does with repeated parameters and rules
(`CompileParameters`).

Abstracted: a name is bare (`<<n>>`) or canonical (`<<module, n>>`); a rule's
body is the set of references of all its versions, each a form, a relation and
the rules read around the members; versions are intervals of days with a value.
Left out: the text of formulas and its parser, diagnostics of entity arguments
and the strict mode (`rulespec.rs:3195-3305`), units (3178, 4163), citations and
rounding, elections (2743), field checks of source relations (3832-3941). No two
derivations share both entity and alias.

Observations. A scalar parameter that shares a name with a table is dropped
silently (`rulespec.rs:3049-3053` removes table stubs by name), although
`docs/rulespec.md:1037-1039` says that duplicates are left to the checks; `Hides`
excepts it in `ValuesAsDeclared`. A `sets` record with the name of its target
loses the target's id: refused if a value is bound, skipped silently otherwise,
as is a record that leaves both ends unbound. A parameter declared twice gets the
last module's id in both places. `ReferencesAsWritten` speaks of documents in
which no record shares a rule's name (`Plain`); what happens otherwise is the
finding of the run durable_ids.

### Bulk

`try_execute`: outputs are evaluated one by one for the rows that ask for them.
`stack` is the native recursion over nodes, each with the rows it is evaluated
for (`mask`), those that go on (`live`), the column so far and the row errors.
`columns` are the caches with their computed rows, `tasks` and `waiting` the
driver's. The formulas are those of `Expressions` with two more leaves: the row's
input, and a construct bulk lacks. An operand no row needs is still called for,
and answered at once (`SkipOperand`), as in the code.

Abstracted: a judgment is true or false (no node of these kinds produces
undetermined); column types, dates and text are among the unsupported leaves;
relation folds evaluated per entity are input leaves; parameter outputs send the
request to explain before anything is evaluated and are left out.

### Members

The interpreter of `Deferral` again, now over entities and with the part that
resolves derived relations: `derived_members`, `resolve_members`,
`fold_members`, `member_candidates`, `fold_path_members`, `filter_members`,
`fold_related`, `exists_judgment`, and the trace effects a resolution captures.
It is a module of its own because what is added changes every frame: a rule
instance is a rule and an id, a formula may be evaluated in a relation's context
(`anchor`, `candidate`, bound variables), and a read is routed by kind or term.

`stack` is the native stack, outermost first. Five kinds of frame:

| Frame | Code | Holds |
|---|---|---|
| node | `scalar_node`, `judgment_node` under `nested` | formula, id, context, operand values, a loop's progress |
| lookup | `related_entity_ids` | relation and id |
| resolve | `resolve_members` with the `fold_members` it called | its goals and the newest goal's chain |
| path | `fold_path_members` | `PathResume` |
| level | `filter_members` | `PendingMembers`, the capture among it |

`depth` is the number of node and lookup frames, `relation_depth` that of resolve
frames, `member_captures` the effects of path and level frames; a capture takes
an effect when no rule's body lies above it (`Capture`), which is what comparing
`capture_depth` says. `members`, `pending_members`, `pending_paths` and
`member_chains` are the engine's maps of those names (`derived_members` being
`members`); `loops` is `folds` and `exists`.

Two interruptions unwind frames, each in one action because the frames on the way
only save their progress and return: a deferral all of them (`ReadDeferred`), a
suspension those above the innermost resolve frame (`Suspend`). What each frame
saves is `SavedLoops`, `SavedLevels`, `SavedPaths`, `SavedChains`. An error
unwinds to the innermost capture, whose member list it becomes, or ends the query
(`Throw`).

Abstracted: one period, so every key loses its period; a rule is well formed
(refusals and rounding are in `Deferral`); an aggregation's value is a rule; the
third outcome of a judgment, as before; tracing is on. Ids are numbers, so that
sorting them is the code's sorting. `max` stands for `min` too. A base relation
read from its other end is named as a relation of its own. Left out: term
comparisons, `only_related` and unary generators, which read only ids and inputs.

`MCMembers` has the reference, recursion that resolves and evaluates without any
memo, driver or saved progress, which also lists the reads and skips that
recursion would record.

### CandidateAncestry, DenseCompile

`DenseCompile` is `DenseCompiler`: `Prepare` finds the root entity and the rules,
`tasks` and `work` are the locals of `compile_tasks`, `stack` the native
recursion. What a frame has read so far is kept with it, so that a deferral
(`stack` dropped, the rule compiled from level zero, the work started again) is
one action. Bodies of rules that aggregations read are shared per site and
counted; relations are registered from the base up, each with its predicate; a
test of membership inside a predicate asks `CandidateAncestry`, the interval
index over the forest of sources, which is built at the first question. That
module lists the relations in any order, since the code's map is a hash map.
The code leaves out of a relation's branches any child that was not entered; there
is none, so `Branches` is the list of children, and `IndexExact` has a part that
says so (`NoneLeftOut`).

Abstracted: an expression is its form and operands; forms that only compile their
operands are one (`value`), those dense refuses everywhere another. `MCDenseCompile`
has the reference, recursion that writes each inlined body out at each read and
never defers.

### DenseBinding, DenseExecution, Lifetime

`DenseBinding` is `bind_batch`: root columns, offsets and columns of each key,
the confirmation of a key's size, and the moving of columns out of the batch
while relations share them. `DenseExecution` is `DenseExecutor`: `stack` holds
the expressions under evaluation, each with the rows live, the values and the
row errors; `columns`, `bodies` and `members` are the caches with the rows they
hold; deferral drops the stack and computes one rule for the rows missing.
`Lifetime` adds `execute_lifetime_with`: the history is checked and bound batch
by batch, reductions drive their operand through every period, and a top-N sum
whose count reduces over periods itself is counted in a context of its own
(`outer` holds the caches kept aside).

`DenseMeaning` says what an expression means for one row. It is the reference
`MCDenseExecution` compares columns with, and it also stands for the executor of
one period inside a lifetime, which has its own driver and shares no cache with
the other.

Abstracted: values are integers up to `Cap`; column types, rounding and calendar
functions are three operations that fail for single rows; the relations of an
executed program read one key (binding is checked with several).

### RelationKinds to Compilation

A program is rules, relations and numbered nodes; a body lists nodes evaluated on
one id. `RelationKinds` has the chains by which relations and filtered entities
get their kinds, followed by one procedure that shares what earlier walks found
(`StartWalk`, `CloseWalk`). `RelationDirection` is lowering's `resolve`: `agenda`
holds the nodes still to visit with what the recursion passes along.
`RelationTyping` is the check: the walk over executed formulas (`Executed`), the
faults of aggregations, memberships, terms, paths and predicates, one action per
node or relation. `RelationReads` is what `engine.rs` then does, with an id known
by its kind alone: `Query`, `Read` and `Traverse` follow one read after another
and stop at a comparison of kinds (`Meet`). `Interface` derives what the artifact
publishes about inputs, and `Compilation` puts the passes in the order of
`compile_at` (`compile.rs:706-739`).

Not checked by the program, and so followed by the walk only where it does no
harm: a rule that another rule reads by its plain name runs on that rule's id
whatever its own entity is. Such a rule's relations find nothing (`Strayed`); the
interface announces the kinds nevertheless. Lowering follows a filtered entity
one link, the typing to its end (`DirectionAgrees` says how far they agree). A
program whose relation is its own source is refused by the order before it is
typed. A filter whose derivation relates a slot to itself is left out
(`ProgramForm`): RuleSpec refuses it of paths only, and an `exists` over one would
look up the variable it is about to bind. `ProgramForm` also says what `model.rs`
gives by its types: formulas are trees, and `only_related` and a membership test
hold no formula. A rule named as a built-in is not modelled.

### Constitutions, UnitDerivation, PhaseTwo, Aggregation

`Constitutions`: a plan of relations with precedence, cuts, elections,
attachments, bars, statuses and derived facts, its guards, and the refusals of
`compile()`. `UnitDerivation`: facts are normalised, the constraints give worlds
(at most `MaxWorlds`), each world goes through its five stages (`now`), and what
is equal in all worlds is answered, the rest open with the facts it depends on.
`Learn` is the environment: a caller settles one open fact, at most `MaxLearned`
times, and asks again. `PhaseTwo`: comparison with supplied membership,
materialisation as tuples and knowledge records, second-phase rules that count
over both. `Aggregation`: the families of a plan over partner and child
relations, and sums, counts, predicates and reductions over them, each
determined or open.

Abstracted: citations, traces, digests, evidence and unit ids; decimals are
integers, fractions counted in units of 1/`Whole`; worlds come in the order of
`FactOrder`. Ages 3, 17 and 18 stand at and next to the age bound of the plans,
amounts 0, 2 and 20 below, in and past their bands.

Observations. A person whom a disagreement about another fact makes open does
not list the fact that made the clash possible, when the closure reached it
through a third unresolved fact. `RelationshipRoleIndex` reads only asserted
records: where the partner relation is incomplete or of another scope, but units
are determined through another relation, `partner_present` is determined false
although the fact is open (`docs/unit-derivation.md:292` would have it open);
`AggregateSound` takes relation facts as asserted.

## What each run shows

Deadlock is checked in module_loading, whose specification stutters once the load
or the lowering is decided (`Terminated`), so it shows that every load is decided.
The others end in states where nothing is left to do, with nothing that stutters;
there the runs with a liveness property show that the end is reached.

**deferral.** Every program that chooses one of four formulas for `a`, six for
`b`, three for `c` and three for `j`; thresholds 1 (given as 0), 2 and 9 (which
never defers); two queries of one engine for any of the five names (one unknown)
as amount or judgment. Chains reach four rules and seven levels, so thresholds
one and two defer inside operands, inside formulas and repeatedly. Some programs
are cyclic, some only through a branch not selected. The second query runs on
the caches of the first, whether it ended well or not; a third would meet no new
kind of cache. Shown: caches and answers are those of unbounded recursion, which
`MCDeferral` states (`CacheSound`, `AnswersSound`); the stack is bounded by the
threshold and the formulas' depth (`StackBound`); the trace lists, edge by edge
and in order, what recursion never interrupted lists (`TraceExact`); every query
ends, and the whole implements `Evaluation`.

**inputs.** Up to three records over three days in every order, two queries, both
modes, three kinds of read, made by the rule or through a member. Three records
are enough for two ties and a record covering both. Shown: once validated, no
read is ambiguous at any record's interval (`TiesSettled`), and both modes, with
narrowing and the fallback, answer as explain does over the whole dataset
(`PeriodReadsAgree`).

**fast_inputs** (violation). `docs/execution-semantics.md:237` says fast returns
exactly what explain returns. A selected-year read inside an aggregation runs on
bulk's own interpreter, over records narrowed to another period.

**bulk.** Two rows with cells absent, 0 or 3; 80 programs over two amounts and a
condition with conditionals, short circuits, division by an input, overflow,
cycles and unsupported constructs in places only some rows reach; nine shapes of
request; thresholds 1 (given as 0) and 3. Two rows are the least that can part
ways at every mask; one row's column is completed for the other by a later
output. Shown: cached columns hold explain's value or first error for each row
computed (`ColumnSound`); a fast answer is explain's (`FastEqualsExplain`); bulk
declines only for a row that itself fails or reaches something unsupported
(`DeclineJustified`); every request is answered (`Responds`).

**members.** One household and its two people. Three rules, three derived
relations and three base relations; a total (sum, count, maximum, only, with and
without a clause), a flag, a score, and the derivations of R, Q and S each from a
list: filters of a base relation, of each other (in a circle too), of a path,
with predicates that read rules at either end, count another derived relation,
test membership, or ask for a witness. Of the 864 combinations the run takes the
108 in which any two choices meet. Threshold 1 defers at every rule read that
is not cached, 9 at none but the deepest; nesting limit 1 suspends at every nested
resolution, 2 at the third. Two queries, so that one meets the memos, errors and
traces of the other. Two people are enough for a loop to be interrupted at its
second member with the first one taken in, and for two resolutions to share a
candidate. Shown: member lists are recursion's (`MembersSound`); a rule's trace
holds what recursion records, in its order, though relations are resolved once
and for another rule (`TraceExact`); a query that succeeds leaves nothing
interrupted (`NothingLeftBehind`, the assertions of `drive`); no candidate is
tested twice over (`NoSecondPass`), which is the reason progress is saved at all;
and `Evaluation` is implemented with its liveness, so every query is answered
with the meaning of its rule, with suspension inside deferral and deferral inside
suspension (`ImplementsEvaluation`).

Two notes. A relation that depends on itself is reported as a cyclic relation or
as a dependency cycle according to which is met first, and that differs with the
limits; the promise counts the two as one (`Judged`). And such a relation may be
resolved anew more than once before the error is found, so `NoSecondPass` speaks
of the others.

**dense_compile.** Rules in columns of their own (chains deeper than the
thresholds, shared rules, cycles, versions in force or not, foreign entities),
aggregations over a base and two derived relations whose predicates read both
ends and whose bodies are shared, chains of sources in a circle or through a
path, and every forest of three derivations; thresholds 1, 2 and 9 (which never
defers), inlining limit 4. Three derivations are enough for siblings, a chain of
two and a circle that hangs on a third. Shown: a program is refused exactly if
plain recursion over written-out bodies finds a fault (`RefusalsExact`); rules,
inputs, parameters, relations and bodies are registered once, in plain
recursion's order, relations on the base of their chain (`RegisteredAsRecursed`);
a shared body's count is the number of its reads however often work was started
again (`ReferencesExact`); the membership index holds exactly the sources up a
relation's chain, in whatever order relations were listed (`IndexExact`).

**dense_execution.** Batches of up to three root rows, sound and unsound, for one
period and for lifetimes of two and three; thresholds 1 and 5. Programs of
columns that read one another in branches and after failures, of aggregations
over a chain of two filters that fail for single members, of reductions over
periods and of top-N sums whose counts read what is also read outside them. Rows
that fail at different operands, and a relation asked for different rows by two
outputs, need two rows and two outputs; a column extended after a deferral needs
a third read. Shown: exactly the sound batches are bound and shared columns reach
every relation (`BindsExactly`); kept columns and member lists hold explain's
values and errors row by row (`ColumnsExact`, `MembersExact`); the answer, or the
one error reported, is explain's (`AnswerExact`); every batch is answered
(`Responds`).

An observation: a plan with a calculation date notes the version it selects of
each rule (`dense.rs:2659`), and notes it again when a deferral starts the rule
again; `finish` sorts the list without removing repetitions (2554). An execution
reads the same law; the published list holds the version twice.

**compilation.** Six families over three rules, a data relation, two derived
relations and small palettes of nodes: chains and paths that agree or disagree in
kinds and directions, filtered entities and filters of filters, what a predicate
reads at its two ends, terms under nested `exists`, rules that read one another
across entities, and declarations lowering refuses; and, written rather than
lowered, cycles among rules, among relations, and routed through both. Two derived
relations are the least for a filter of a filter, for a cycle of relations, and
for a chain whose ends disagree. Shown: kinds do not depend on the order chains
are followed in (`KindsExact`); lowering and the check agree on directions
(`DirectionAgrees`); what is typed and exported is what can be executed
(`ExecutedExact`); an accepted program never looks an id up where ids of another
kind are (`KindsMeet`); exactly the cyclic programs are refused as such, with
names that lie on or behind a cycle, and the published order is the
smallest-name-first one (`OrderExact`); the interface announces every kind an
input is read on and every slot a relation is looked up by (`InterfaceCovers`).

An observation: `docs/execution-semantics.md:562-565` says that compilation
refuses cyclic programs before they are evaluated. The routed walk follows
`only_related` only in programs with relation atoms (the comment at
`compile.rs:1915-1917` keeps published artifacts stable), so a rule that reads
`only_related` of a relation whose predicate reads the rule back is accepted; a
cycle in `OrderExact` is one the passes follow.

**unit_derivation.** One plan for each hard case (precedence chains with open
legal questions and defeaters, elections, overlapping cuts that are ordered or
coalesce, chained cuts, attachments and bars, derived facts in strata) and plans
`compile()` must refuse, over three persons, with incomplete rosters, unknown,
conflicting and contradictory facts; at most 16 worlds, two facts learned; family
requests over partner and child relations with any input open. Two facts learned
are enough for the second to settle what the first left open. Shown: every
world's blocks are those the plan declares, whatever order attachments are taken
in (`BlocksExact`); worlds that agree on the facts listed for an open person give
the person one unit and role, and a conflict's impacts name every projection it
can change (`Elicited`); learning takes nothing back that was determined
(`NothingTakenBack`); a figure of the second phase that is determined is the
figure in every world (`FiguresSound`), where membership itself is not open; the
shadow comparison reports equality only if every world is equal
(`EqualEverywhere`); a determined family value is the value whatever the open
inputs turn out to be (`AggregateSound`).

**never_smaller** (violation). `docs/unit-derivation.md:292` says that absence must
never silently become a smaller household. A person whose membership is
indeterminate gets neither a tuple nor a knowledge record, so a second-phase rule
that counts the person's memberships is determined zero.

**module_loading.** Every import graph of three modules with at most two imports
each, under a module root or a composed program, with every text outcome; and
under one graph (`a` imports `b` and `c`) declarations of four families: one
parameter in two modules, scalar and table, two `sets` records in every order and
of every end, a relation declared by any of the modules and named by others in
every form, and names other records take. Three modules are enough for diamonds,
cycles below the root, and a name that two of them declare and a third uses.
Shown: a loaded program is its root and what the root reaches, each merged once
and after its imports, and a reported cycle exists (`LoadedExact`); a compiled
parameter gives on every day what its own or the last set declarations say
(`ValuesAsDeclared`); a reference reads the relation it means in the module that
wrote it, also where the formula was set into another module
(`ReferencesAsWritten`); every load and lowering is decided (no deadlock).

**durable_ids** (violation). `docs/rulespec.md:729-731` says that a rule of a
module has the module's canonical target and the rule's name for its id. Ids are
given by bare name over the declarations of all modules, source records included,
so a citing record of an importer with a rule's name takes the rule's id, and its
references are then looked up in the importer.

Fairness. `WF_vars(Step)` in `Deferral` and `Members`, `WF_vars(Next)` in `Bulk`,
`DenseCompile` and `DenseExecution`: the code runs on the caller's thread until it
returns, so a query or a request under way keeps taking steps. Asking a further
query is not fair. The other specifications state no fairness, since no run asks
for a liveness property of them.

## What is proved

Each theorem holds for every value of the constants that satisfies the named
assumptions of its module; TLC evaluates those assumptions on the instance of the
module's run. Every inductive invariant was checked by TLC on that instance too.

**The interpreter** (`DeferralProofs`; well-formed formulas over finitely many
rules, `ProgramAssumption` and `FormulaAssumption`; a reference `Meaning` that
satisfies the equations of unbounded recursion, `ReferenceAssumption`; a count
`Steps` that falls along every recursion that ends, `EndAssumption`; what that
recursion reads, `Reads`, and leaves unevaluated, `Passed`, `TraceAssumption`).

- `TypeCorrect`: `Spec => []TypeOK`; `CacheCorrect`: `Spec => []CacheSound`.
  A cached value is right if the frame that returned it stood for the right
  evaluation. So the invariant says of every frame that the operand values it
  holds lead to its node's meaning (`FrameSound`), of neighbouring frames that the
  upper one is what the lower one asked for (`Follows`), and of every open frame
  and task that its error would be the query's own error (`Surfaces`). None of the
  three properties is inductive without these: nothing in them relates a frame to
  the program.
- `AnswersCorrect`: `Spec => []AnswersSound`. A query is answered with its rule's
  meaning, and a dependency cycle is reported only where the recursion has no end.
  For the second half, where the query's recursion ends, tasks and frames take
  ever fewer `Steps` from the query on, so no task can come to wait for itself.
- `ImplementsSafely`: `Spec => Promise!SafeSpec`, the safety part of `Evaluation`:
  every step of the driver is a step of the abstract specification or a stutter.
- `StackBounded`: `Spec => []StackBound`. A rule is entered below the threshold
  only, and an operand has fewer levels left than its node, so a frame's height
  plus its levels never passes the bound.
- `TraceCorrect`: `Spec => []TraceExact`. Attempts that are cut short leave a
  beginning of a rule's trace, from whichever went furthest (`TraceBegun`). Of every
  frame the invariant says that what its node still has to read is a piece of the
  rule's reads, and that all reads before that piece are listed (`ReadUpTo`); what
  the node has passed over is told the same way (`PassedUpTo`). A read is therefore
  either listed or the next first occurrence, so recording it neither doubles an
  edge nor puts it early, and a formula that completes has listed all its reads.

**The fast evaluator** (`BulkProofs`; formulas of their types,
`BulkAssumption`; a reference that satisfies explain's equations over a row's own
cell, `ReferenceAssumption`; for `DeclinesCorrect` also what a row's evaluation
reaches, `TouchesAssumption`, and that evaluation which comes to a value ends,
`EndAssumption`).

- `ColumnsCorrect`: `Spec => []ColumnSound`; `FastCorrect`:
  `Spec => []FastEqualsExplain`. A frame evaluates one node for many rows that
  have gone different ways. The invariant says, row by row, that the accumulated
  value stands for some operand values that lead explain's recursion to the node's
  meaning, and that a row no longer live is decided or has explain's error
  (`RowSound`); that a frame covers exactly the rows the one below it misses
  (`Follows`); that columns are right wherever they are computed and only grow;
  that an output already evaluated has no failed row. When all outputs are
  evaluated, none of the rows' outcomes is an error. A first output in explain's
  order exists by the least-number principle.
- `DeclinesCorrect`: `Spec => []DeclineJustified`, from a second invariant, `Lazy`.
  Suppose every requested output comes to a value in every row that asks for it,
  over supported constructs only. Then so does every rule and node under
  evaluation, in every row of its mask: an operand is asked for only in rows where
  explain asks for it too. A task's rows are rows of the tasks it was deferred
  from, and its rule has fewer `Steps` left in each of them, so no column waits for
  itself. Nothing then sends the request to explain.

**Binding a batch** (`DenseBindingProofs`; `BindingAssumption`).

- `BindingCorrect`: `BindingSpec => []BindsExactly`, where `BindingSpec` is
  `DenseBinding` alone over any program and any batches, one after the other, whose
  offsets are numbers; `Lifetime`, which the run checks, is compared with
  `DenseMeaning` and so out of the prover's reach. A batch is called well formed by
  what it means, a division of related rows among the root rows, and the code looks
  at offsets only: offsets that ascend from zero are those of a division,
  each related row lying between two neighbouring offsets, and a division counts
  its rows by such offsets (`OffsetsDivide`, `DivisionOffsets`). The invariant then
  says what each phase has established: which keys are in order and sized, which
  are built, and that a key's columns are those not taken yet and those taken.

**The membership index** (`CandidateAncestryProofs`).

- `IndexCorrect`: `AncestrySpec => []IndexExact`, where `AncestrySpec` is
  `CandidateAncestry` alone over any relations that are not the mark for "no
  source"; the run's `IndexExact` is this definition, instantiated with what
  `DenseCompile` declares. The invariant describes the walk by the names on its
  stack, the names entered and how far each interval reaches so far (`Walk`): a
  name hangs from the last one entered below it, of two intervals one lies in the
  other and then in that of the inner one's source, or they are apart, and children
  are entered in order. At the end a name's interval holds a scope's exactly if the
  name is in the least set closed under sources. Branches therefore ascend, and the
  last one that starts at or before the scope is the only one that can hold it,
  which is what `partition_point` relies on. A relation over a circle is
  never entered, as its chain never reaches a root.

**Inputs** (`InputsProofs`; `RequestsAssumption`: finite requests of known kinds,
records that start on some day).

- `TiesSettledCorrect`: `Spec => []TiesSettled`. Validation remembers the first
  record of each entity and start; the records passed so far agree wherever those
  two are equal, which is all that a read at any period can tie on.
- `PeriodReadsCorrect`: `Spec => []PeriodReadsAgree`. Narrowing keeps, of the
  records passed, one per entity that covers the period, and none that covers it
  starts later; so each mode, at each phase, answers from records on which a read
  at the period comes out as over the whole dataset.

**Module loading** (`LoweringProofs`; `ModulesAssumption`).

- `LoadedCorrect`: `Spec => []LoadedExact`. The stack is a path of imports from the
  root; what is loaded is closed under imports except for what the stack is still
  loading, and is listed after what it imports; every text read is loaded or on the
  stack. So a refusal as cyclic exhibits a cycle, and a finished load is what the
  root reaches.

**Lowering** (`LoweringProofs`; `DeclarationsAssumption`: versions run between
numbered days, a `sets` record names its two ends by canonical names).

- `ValuesCorrect`: `LoweringSpec => []ValuesAsDeclared`. `Standing` says what the
  program's parameters are when `k` records have been followed. Each is listed for
  a declaration, with that declaration's id, and a plain name is listed once; the
  versions listed under a name are together those of the declarations of the name
  whose text it has by now. A record thus finds by id the one parameter it
  names, and copies what `Gives` says. What compiling adds is that versions of
  repeats that apply on one day overlap, so unless the repeats are refused they
  agree, and that of the versions applying on a day one starts last.
- `LoweringLoads`: `LoweringSpec => []LoadedExact`, the theorem of loading in the
  specification that the run checks.

**Evaluation order** (`EvaluationOrderProofs`).

- `OrderCorrect`: `OrderSpec => [](CyclesExact /\ OrderExact)`, where `OrderSpec`
  is `EvaluationOrder` alone over any program with `WellFormed(program)`.
  Each of
  the three passes extends a set that is bare of cycles and closed under what its
  members wait for; the counts of Kahn's algorithm are the numbers of a node's
  edges into the rest; when no node of the rest has count zero, the rest holds a
  cycle, and what is named in the refusal lies on one or waits for one.

**Compilation** (`CompilationProofs`; `NamesAssumption`, `ProgramAssumption`: a
program has the form of one, its formulas being trees, and `OrderAssumption`:
rules and relations are numbered apart).

- `OrderSound`: `Spec => []OrderExact`, the specification that the run checks.
  While lowering rewrites the program the order has not begun (`Ordering`) and the
  program keeps its form (`Forms`): what the collectors gather from a formula
  (`RulesNamed`, `RelationsNamed`) is finite, so the program lowering leaves is
  `WellFormed` and `EvaluationOrder`'s invariant starts from it. That the two
  instances of the module, the one composed and the one proved about, are the same
  passes is proved definition by definition.
- `KindsSound`: `Spec => []KindsMeet`. Three invariants lead from lowering to
  evaluation. `Tables`: the chains that are followed leave each relation the kinds
  its own link or its source has, and each filtered entity the kind it is a name
  for. `Walks`: there is a set of visits such that each of them is still to be made
  or was found in order, together with all that its node leads to, and each relation
  used is still to be checked or its derivation was (`Walked`). `Evaluates`: in an
  accepted program everything visited is in order, and evaluation is where the
  walk has been, on an id of the kind the walk was there with, or below a
  derivation whose two kinds and bound variables are the ones its terms were
  checked with (`HereRight`). That the kind a relation gives is the kind of its slot
  needs the evaluation order as well: sources form no cycle (`Inductive`, of
  `EvaluationOrder`), so from any derived relation a data relation is reached in
  no more steps than there are relations, by a pigeonhole argument, and each step
  keeps the kind (`GivesKind`).
- `ExecutedSound`: `Spec => []ExecutedExact`. The invariant (`Usage`, `Gathered`)
  speaks of what the walk has used together with what the nodes still to be
  visited name (`Ahead`): that holds what the executed formulas name and what each
  checked derivation leads to, and nothing beyond what can be reached from them.
  Visiting a node moves names from the one part to the other. At the end nothing
  is left to visit, so what is used is closed under sources, paths and predicates and lies in
  `ReachedFrom`. That `ReachedFrom`, which goes round as often as there are
  relations and once more, is closed itself is a counting argument: each round
  adds a derived relation or leads no further (`ReachedForm`). That evaluation looks
  up only what was collected follows from `Evaluates`.
- `TablesSound`: `Spec => []KindsExact`. The invariant (`Kinded`) has two parts.
  While chains are followed, what is found of a node is what its link gives or what
  is found of the next (`Followed`), it stands at the end of the node's chain
  unless it is what is said of a cycle, and every node of the path leads to where
  the walk is (`Founded`). Once a table is made, each derived relation has in it what
  its source has, and only relations whose chain ends have any kinds
  (`RightKinds`); stamping, which rewrites declarations, writes into each what the end
  of its chain has, so the chains it shortens end with the same (`StampedRight`).
  `KindsAlone` looks only as far as there are relations, and finds the end of a chain
  because the shortest way to it repeats nothing (`RunsShort`, `RunsFit`).
- `InterfaceSound`: `Spec => []InterfaceCovers`. The invariant (`Covered`): nothing is
  evaluated before the interface is derived, the interface stays what the program
  and its tables give (`Announced`), and of the place evaluation has come to
  everything was collected (`Announces`): the nodes of its body with one flow and
  one routing, such that the id it is on is of a kind the flow leads to and the
  bound variables are of the kinds passed down, or the slot of its lookup. Each read
  leads on to such a place, because what is collected from an expression is
  collected from all it holds (`CollectorsClosed`: a formula is no deeper than it has
  nodes) and because the kinds of rules are closed under references
  (`RuleKindsClosed`: one kind reaches a further rule in each round or none any more,
  so as many rounds as there are rules are enough for `rule_kinds`, which in the
  code goes on until nothing changes). That the kind announced for a slot is the one
  met there is what `Evaluates` knows of an accepted program; that it is on the roster
  needs `TablesSound`'s invariant, since a filtered entity's ids are of a kind some
  slot holds.

Recursion over data is proved about only where a natural number measures it, with
the library's first-order least-number principle; the induction theorems that
take an operator are out of the provers' reach.

Only model-checked, and why:

- liveness and `ENABLED`: `ImplementsEvaluation` beyond its safety part,
  `Responds`, and that loads are decided (deadlock);
- what is stated in or over a module with recursive operators, which cost the
  prover its SMT backend: `TraceExact` of `MCMembers`, `Members`
  (`Replay`, `Walked`), `MCDenseCompile`, `DenseMeaning` and with it what the dense executor is compared
  with (its columns, members and answers), and the unit derivation;
- `DirectionAgrees`: the form of a program (`ProgramForm`) orders the nodes of formulas
  but does not say that each has one parent. Two formulas that shared an
  aggregation would have it directed once and checked on two entities, and the
  property would not hold of them; the programs of the run, like the code's trees,
  share none;
- `ReferencesAsWritten`, which no theorem can state for every program: two
  derivations over one entity with one alias, or an alias that is also a relation
  of the composition, are not refused, and a reference to such a name means whichever
  comes first. It is checked over documents that have none of these.

## What is not modelled

Left out for good, having no state and no order to get wrong, or being data:
syntax and formula text, schemas, serialisation, the command line, the bindings,
SHA-256, the migration tools, calendar arithmetic, decimal precision, units of
measure.

Left out although they decide something, each a component or a part of one marked
so in `PROJECT.json`: the binding of a dataset (`spec.rs`), which checks each
record by itself, the records sharing only the kind each id is known to have;
pins, which wrap a formula in a conditional the interpreter's modules have, and
the assembly of a trace from what `Deferral` and `Members` record (`api.rs`); the
artifact's format checks, which compare stored data with what compilation
computes again, and the fast-path metadata, a summary of the constructs a program
uses (`compile.rs`); the types, defaults and domains the
interface demands of inputs (`interface.rs`), which need typed values; elections,
documents and registry of the unit derivation.

An observation on pins: a pinned rule that rounds its output rounds the pinned
value too, since only its formulas are wrapped (`api.rs:496-557`); the comment at
`api.rs:40-41` says it evaluates to the given literal.
