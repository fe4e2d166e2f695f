------------------------------- MODULE Members -------------------------------
(***************************************************************************)
(* Derived relations in the explain interpreter (src/src/engine.rs): the   *)
(* members a derived relation adds for an entity are the candidates its    *)
(* source gives that satisfy its predicate, a formula over both ends. They *)
(* are resolved once, on demand, and memoized with the trace effects their *)
(* resolution had, which are replayed on every rule that asks for them.    *)
(*                                                                         *)
(* Two things interrupt an evaluation. A rule read too deep is deferred to *)
(* the query's driver and unwinds everything (see Deferral). A relation    *)
(* needed while too many resolutions nest is suspended, and unwinds to the *)
(* innermost resolution, whose own driver resolves it first. Loops over    *)
(* members or candidates keep their progress when they are unwound.        *)
(*                                                                         *)
(* Formulas are those of Expressions, with reads qualified by a term and   *)
(* with the nodes "input", "fold" (an aggregation), "member", "atom" and   *)
(* "exists". `stack` holds frames of five kinds: a node under evaluation,  *)
(* a "lookup" of related ids, a "resolve" driver, the filter of a relation *)
(* "level", and the steps of a "path". One period; every rule has a sound  *)
(* formula (refusals are in Deferral); ids are ordered as numbers.         *)
(***************************************************************************)
EXTENDS Expressions, FiniteSets, SequencesExt

CONSTANTS Programs, Rules, Relations, Ids,
          Body(_, _),       \* of a program's rule: its formula
          EntityOf(_),      \* of a rule: its entity kind
          Slots(_),         \* of a relation: kinds of its current, related id
          Source(_, _),     \* of a relation: [kind, from, path], where kind is
                            \* "base", "from" one relation, or a "path" of them
          Predicate(_, _),  \* of a derived relation: its formula
          Direct(_, _, _),  \* ids the dataset's tuples relate to an id
          Input(_, _),      \* outcome of reading an entity's input
          Queries,          \* rule instances that may be asked for
          Levels,           \* thresholds for deferral
          Limits,           \* values of relation_nesting_limit
          MaxQueries,       \* bound: queries made of one engine
          Meaning(_, _),    \* reference: outcome of a rule instance
          MembersOf(_, _)   \* reference: outcome of a member list

Routed == -3            \* a read whose id the rule's entity kind selects
Anchor == -2            \* terms; a natural is a variable, innermost first
Candidate == -1
NoContext == <<>>
NoRule == <<>>
NoLoop == <<>>
NoOwner == <<>>

VARIABLES program, suspend_depth, relation_nesting_limit,
          cache,            \* rule instance -> value
          trace,            \* rule instance -> [deps, skipped]
          members,          \* derived_members: memoized lists and effects
          pending_members,  \* levels interrupted at a candidate
          pending_paths,    \* paths interrupted at a lookup
          member_chains,    \* source chains interrupted at a level
          loops,            \* folds and exists: progress in this query
          stack,            \* frames, outermost first
          tasks, waiting, asked, answers   \* as in Deferral

engine == <<program, suspend_depth, relation_nesting_limit>>
resolution == <<members, pending_members, pending_paths, member_chains>>
queries == <<tasks, waiting, asked, answers>>
vars == <<engine, cache, trace, resolution, loops, stack, queries>>

Put(f, k, v) == [x \in DOMAIN f \cup {k} |-> IF x = k THEN v ELSE f[x]]
Drop(f, ks) == [x \in DOMAIN f \ ks |-> f[x]]
TakenCopy(f, k) == f   \* mutant: what is taken up stays in the map
Taken(f, k) == Drop(f, {k})
Sorted(S) == SetToSortSeq(S, <)
Top == Last(stack)
Replaced(st, g) == Append(Front(st), g)

RuleKeys == [rule : Rules, id : Ids]
MKey(rel, id) == [rel |-> rel, id |-> id]
MemberKeys == [rel : Relations, id : Ids]
Derives(rel) == Source(program, rel).kind # "base"
IsPath(rel) == Source(program, rel).kind = "path"

(* Supplied tuples of a derived relation count only in a program without   *)
(* qualified reads, atoms, `exists` or paths (`uses_relation_roles`).      *)
HasRole[e \in Exprs] ==
    \/ e.op \in {"exists", "atom"}
    \/ e.op = "derived" /\ e.key.at # Routed
    \/ \E i \in 1..Len(e.args) : HasRole[e.args[i]]
UsingRoles ==
    {p \in Programs :
        \/ \E r \in Rules : HasRole[Body(p, r)]
        \/ \E rel \in {rel \in Relations : Source(p, rel).kind # "base"} :
              Source(p, rel).kind = "path" \/ HasRole[Predicate(p, rel)]}
SuppliedTo(p, rel, id) ==
    IF Source(p, rel).kind # "base" /\ p \in UsingRoles THEN {} ELSE Direct(p, rel, id)
Own(rel, id) == SuppliedTo(program, rel, id)

Node(e, id, ctx, rule) ==
    [f |-> "node", expr |-> e, id |-> id, ctx |-> ctx, vals |-> <<>>,
     loop |-> NoLoop, rule |-> rule]
Loop(ids) == [ids |-> ids, next |-> 1, acc |-> <<>>, finished |-> FALSE]
LookupOf(rel, id) == [f |-> "lookup", rel |-> rel, id |-> id]

(* Levels of `nested` calls, and resolutions, on the native stack.         *)
Depth == Cardinality({i \in 1..Len(stack) : stack[i].f \in {"node", "lookup"}})
Nesting == Cardinality({i \in 1..Len(stack) : stack[i].f = "resolve"})

(* The id a read goes to: a term's, or the end of the relation whose kind  *)
(* is the rule's, or the entity at hand.                                   *)
TermId(ctx, t) ==
    CASE t = Anchor    -> ctx.anchor
      [] t = Candidate -> ctx.candidate
      [] OTHER         -> ctx.vars[t + 1]

Target(r, at, id, ctx) ==
    CASE at # Routed -> TermId(ctx, at)
      [] at = Routed /\ ctx = NoContext -> id
      [] OTHER ->
           LET kinds == Slots(ctx.rel)
           IN  CASE kinds[1] = EntityOf(r) -> ctx.anchor
                 [] kinds[1] # EntityOf(r) /\ kinds[2] = EntityOf(r)
                          -> ctx.candidate
                 [] OTHER -> id

-----------------------------------------------------------------------------
(* Trace effects go to the resolution under way for the active rule, to be *)
(* replayed, or to the rule. The innermost of the first n frames of a      *)
(* kind, 0 for none.                                                       *)
Innermost(n, P(_)) ==
    CHOOSE i \in 0..n : (i = 0 \/ P(stack[i])) /\ \A j \in (i + 1)..n : ~P(stack[j])

IsBody(g) == g.f = "node" /\ g.rule # NoRule
IsCapture(g) == g.f \in {"level", "path"}
IsResolve(g) == g.f = "resolve"
Active(n) == stack[Innermost(n, IsBody)].rule

Capture(n) ==
    IF Innermost(n, IsCapture) > Innermost(n, IsBody) THEN Innermost(n, IsCapture) ELSE 0

ReadEffect(k) == [t |-> "read", key |-> k]
SkipEffect(ks) == [t |-> "skip", keys |-> ks]
MembersEffect(mk) == [t |-> "members", key |-> mk]

(* What asking for memoized members records: nothing, the summary of the   *)
(* source they only forward, or their own (`member_effect`).               *)
Summary(mk) ==
    LET effects == members[mk].effects
    IN  CASE effects = <<>> -> <<>>
          [] Len(effects) = 1 /\ effects[1].t = "members" -> effects
          [] OTHER -> <<MembersEffect(mk)>>

(* `replay_members`: the records of a list, those of the lists it read in  *)
(* their place; a list most recently replayed on this rule is not walked.  *)
RECURSIVE Replay(_, _)
Replay(parent, effects) ==
    LET Parts(e) == IF e.t # "members" THEN <<e>>
                   ELSE IF members[e.key].recorded_on = parent THEN <<>>
                   ELSE <<e>> \o Replay(parent, members[e.key].effects)
    IN  FlattenSeq([i \in 1..Len(effects) |-> Parts(effects[i])])

Distinct(s) ==
    LET first == SelectSeq([i \in 1..Len(s) |-> i], LAMBDA i : \A j \in 1..(i - 1) : s[j] # s[i])
    IN  [n \in 1..Len(first) |-> s[first[n]]]

(* `record_on`: an edge is listed once, at its first occurrence.           *)
RecordOn(parent, effects) ==
    LET walked == Replay(parent, effects)
        Kind(t) == SelectSeq(walked, LAMBDA e : e.t = t)
        Keys(t) == [i \in 1..Len(Kind(t)) |-> Kind(t)[i].key]
    IN  [trace |-> [trace EXCEPT
                      ![parent].deps = Distinct(@ \o Keys("read")),
                      ![parent].skipped = @ \cup UNION {e.keys : e \in ToSet(Kind("skip"))}],
         members |-> [mk \in DOMAIN members |->
                        [members[mk] EXCEPT !.recorded_on =
                           IF Contains(Keys("members"), mk) THEN parent ELSE @]]]

(* The first n frames, and the trace and memos, once the innermost of      *)
(* these frames has recorded effects.                                      *)
Captured(n, effects) ==
    IF Capture(n) = 0 THEN SubSeq(stack, 1, n)
    ELSE [SubSeq(stack, 1, n) EXCEPT ![Capture(n)].effects = @ \o effects]
Log(n, effects) ==
    IF Capture(n) # 0 \/ effects = <<>> THEN [trace |-> trace, members |-> members]
    ELSE RecordOn(Active(n), effects)

(* What a skipped formula would have read (`collect_*_trace_references`).  *)
(* A skipped `exists` binds its variable to no id.                         *)
TraceReferences[e \in Exprs] ==
    LET inner == UNION {TraceReferences[e.args[i]] : i \in 1..Len(e.args)}
    IN  CASE e.op = "derived" -> {e.key}
          [] e.op = "fold" /\ e.key.value # "none" ->
                 inner \cup {[rule |-> e.key.value, at |-> Routed]}
          [] e.op = "exists" ->
                 {IF x.at > 0 THEN [x EXCEPT !.at = @ - 1] ELSE x :
                     x \in {x \in inner : x.at # 0}}
          [] OTHER -> inner

SkipEffects(es, id, ctx) ==
    LET read == UNION {TraceReferences[e] : e \in es}
        keys == {[rule |-> x.rule, id |-> Target(x.rule, x.at, id, ctx)] :
                    x \in {x \in read : ctx # NoContext \/ x.at = Routed}}
    IN  IF keys = {} THEN <<>> ELSE <<SkipEffect(keys)>>

-----------------------------------------------------------------------------
(* Where a frame stands. A loop's member has been given its clause's value *)
(* once `vals` holds it.                                                   *)
IsOp(g, ops) == g.f = "node" /\ g.expr.op \in ops
IsLoop(g) == IsOp(g, {"fold", "exists"})
Looping(g) == IsLoop(g) /\ g.loop # NoLoop /\ ~g.loop.finished
AtMember(g) == Looping(g) /\ g.loop.next <= Len(g.loop.ids)
AtCandidate(g) == g.f = "level" /\ g.next <= Len(g.candidates)
Current(g) == g.loop.ids[g.loop.next]

Selects(g) == g.expr.args = <<>> \/ (g.vals # <<>> /\ g.vals[1] = Holds)
ReadsMembers(e) == e.key.fn \in {"sum", "max"}

(* The formula the frame evaluates next, if any, with where it does.       *)
Child(g) ==
    CASE AtCandidate(g) /\ g.vals = <<>> ->
             {Node(Predicate(program, g.key.rel), g.candidates[g.next],
                   [rel |-> g.key.rel, anchor |-> g.key.id,
                    candidate |-> g.candidates[g.next], vars |-> <<>>], NoRule)}
      [] AtMember(g) /\ g.expr.args # <<>> /\ g.vals = <<>> ->
             {IF g.expr.op = "fold"
              THEN Node(g.expr.args[1], Current(g), NoContext, NoRule)
              ELSE Node(g.expr.args[1], g.ctx.candidate,
                        [g.ctx EXCEPT !.vars = <<Current(g)>> \o @], NoRule)}
      [] g.f = "node" /\ Wants(g.expr, g.vals) ->
             {Node(Operand(g.expr, g.vals), g.id, g.ctx, NoRule)}
      [] OTHER -> {}

(* The rule instance the frame reads next, if any: its own, the value of a *)
(* selected member, or that of the one member an `only` selected.          *)
Reads(g) ==
    CASE IsOp(g, {"derived"}) /\ g.vals = <<>> ->
             {[rule |-> g.expr.key.rule,
               id |-> Target(g.expr.key.rule, g.expr.key.at, g.id, g.ctx)]}
      [] IsOp(g, {"fold"}) /\ AtMember(g) /\ ReadsMembers(g.expr) /\ Selects(g)
             /\ Len(g.vals) = Len(g.expr.args) ->
             {[rule |-> g.expr.key.value, id |-> Current(g)]}
      [] IsOp(g, {"fold"}) /\ g.loop # NoLoop /\ g.loop.finished /\ g.vals = <<>>
             /\ g.expr.key.fn = "only" /\ Len(g.loop.acc) = 1 ->
             {[rule |-> g.expr.key.value, id |-> g.loop.acc[1]]}
      [] OTHER -> {}

(* The derived members the frame needs next, if any.                       *)
Needs(g) ==
    CASE g.f = "lookup" /\ Derives(g.rel) -> {MKey(g.rel, g.id)}
      [] IsOp(g, {"member"}) /\ g.vals = <<>> /\ Derives(g.expr.key.rel) ->
             {MKey(g.expr.key.rel, g.ctx.anchor)}
      [] OTHER -> {}

(* The relation a frame looks up next, if any, and from which id.          *)
Looks(g) ==
    CASE IsOp(g, {"fold"}) /\ g.loop = NoLoop -> {LookupOf(g.expr.key.rel, g.id)}
      [] IsOp(g, {"exists"}) /\ g.loop = NoLoop -> {LookupOf(g.expr.key.rel, TermId(g.ctx, g.expr.key.from))}
      [] IsOp(g, {"atom"}) /\ g.vals = <<>> -> {LookupOf(g.expr.key.rel, TermId(g.ctx, g.expr.key.from))}
      [] g.f = "path" /\ g.next <= Len(g.frontier) ->
             {LookupOf(Source(program, g.key.rel).path[g.step], g.frontier[g.next])}
      [] OTHER -> {}

(* The ids a lookup found, in order, go to the frame that asked.           *)
Received(g, ids) ==
    CASE IsLoop(g) -> [g EXCEPT !.loop = Loop(ids)]
      [] IsOp(g, {"atom"}) ->
             [g EXCEPT !.vals = <<Truth(Contains(ids, TermId(g.ctx, g.expr.key.to)))>>]
      [] g.f = "path" -> [g EXCEPT !.next = @ + 1, !.reached = @ \cup ToSet(ids)]

(* The frame has its outcome.                                              *)
Complete(g) ==
    /\ g.f = "node"
    /\ Child(g) = {} /\ Reads(g) = {} /\ Looks(g) = {}
    /\ IsOp(g, {"member"}) => g.vals # <<>>
    /\ ~Looping(g)

FoldOutcome(g) ==
    LET acc == g.loop.acc
        fn == g.expr.key.fn
    IN  CASE fn = "count" -> Ok(Len(acc))
          [] fn = "sum"   -> Ok(Total(acc))
          [] fn = "max"   -> IF acc = <<>> THEN Err("empty_aggregate")
                             ELSE Ok(CHOOSE m \in Values : IsLargest(m, acc))
          [] fn = "only"  -> CASE Len(acc) = 0 -> Err("missing_relation")
                               [] Len(acc) = 1 -> Ok(g.vals[1])
                               [] OTHER -> Err("ambiguous_relation")

Outcome(g) ==
    CASE IsOp(g, {"input"}) -> Input(program, g.id)
      [] IsOp(g, {"fold"}) -> FoldOutcome(g)
      [] IsOp(g, {"exists"}) -> Ok(Truth(g.loop.acc # <<>>))
      [] IsOp(g, {"member", "atom"}) -> Ok(g.vals[1])
      [] OTHER -> Finish(g.expr, g.vals)

-----------------------------------------------------------------------------
(* A loop is keyed by the rule evaluation it runs in and the resolution it *)
(* belongs to as well as by what it evaluates (`Step`, `ExistsKey`).       *)
NoOwnerOf(n) == NoOwner   \* mutant: owners share a loop
OwnerOf(n) == IF Capture(n) = 0 THEN NoOwner ELSE stack[Capture(n)].key

LoopKey(i) ==
    [site   |-> stack[i].expr.key.site,
     id     |-> stack[i].id,
     ctx    |-> IF stack[i].expr.op = "exists" THEN stack[i].ctx ELSE NoContext,
     parent |-> Active(i),
     owner  |-> OwnerOf(i)]
Frames == Len(stack)
TopLoop == LoopKey(Frames)

(* What the frames from a position on have got done, added to f; st is the *)
(* stack with the last effects recorded. Frames unwind innermost first, so *)
(* of two with one key the outer's progress is kept.                       *)
Saved(f, st, from, P(_), K(_), V(_)) ==
    LET is == {i \in from..Frames : P(stack[i])}
        outer(k) == CHOOSE i \in is : K(i) = k /\ \A j \in is : K(j) = k => i <= j
    IN  [k \in DOMAIN f \cup {K(i) : i \in is} |->
            IF \E i \in is : K(i) = k THEN V(st[outer(k)]) ELSE f[k]]

LevelSkipsOne(g) ==   \* mutant: the interrupted candidate is not tested again
    [candidates |-> g.candidates, next |-> g.next + 1, kept |-> g.kept, effects |-> g.effects]
LevelRestarts(g) ==   \* mutant: every candidate is tested again
    [candidates |-> g.candidates, next |-> 1, kept |-> <<>>, effects |-> g.effects]
LevelProgress(g) ==
    [candidates |-> g.candidates, next |-> g.next, kept |-> g.kept, effects |-> g.effects]
PathProgress(g) ==
    [step |-> g.step, frontier |-> g.frontier, next |-> g.next,
     reached |-> g.reached, effects |-> g.effects]

LoopProgress(g) == g.loop

SavedLoops(st, from) ==
    Saved(loops, st, from, Looping, LoopKey, LoopProgress)
SavedLevels(st, from) ==
    Saved(pending_members, st, from, LAMBDA g : g.f = "level", LAMBDA i : stack[i].key, LevelProgress)
SavedPaths(st, from) ==
    Saved(pending_paths, st, from, LAMBDA g : g.f = "path", LAMBDA i : stack[i].key, PathProgress)
SavedChains(st, from) ==
    Saved(member_chains, st, from, IsResolve, LAMBDA i : Last(stack[i].goals), LAMBDA g : g.chain)

-----------------------------------------------------------------------------
(* The driver, as in Deferral. A query's end forgets all progress.         *)
Root == asked[Len(asked)]
Running == Len(answers) < Len(asked)
Goal == IF tasks = <<>> THEN Root ELSE Last(tasks)

Finished(outcome) ==
    /\ answers' = Append(answers, outcome)
    /\ stack' = <<>> /\ tasks' = <<>> /\ waiting' = {}
    /\ loops' = <<>> /\ pending_members' = <<>> /\ pending_paths' = <<>>
    /\ member_chains' = <<>>

KeepsProgress == UNCHANGED <<pending_members, pending_paths, member_chains>>

CompleteGoal(v) ==
    IF tasks = <<>> THEN Finished(Ok(v))
    ELSE /\ stack' = <<>>
         /\ tasks' = Front(tasks)
         /\ waiting' = waiting \ {Goal}
         /\ UNCHANGED <<answers, loops>> /\ KeepsProgress

(* An error is the outcome of the resolution it happens in, which memoizes *)
(* it, or else of the query.                                               *)
Memo(result, effects) == [result |-> result, effects |-> effects, recorded_on |-> NoRule]

Throw(st, log, e) ==
    LET c == Innermost(Frames, IsCapture)
    IN  /\ trace' = log.trace
        /\ IF c = 0
           THEN Finished(Err(e)) /\ members' = log.members
           ELSE /\ stack' = SubSeq(st, 1, c - 1)
                /\ members' = Put(log.members, st[c].key, Memo(Err(e), st[c].effects))
                /\ UNCHANGED <<tasks, waiting, answers, loops>> /\ KeepsProgress

Init ==
    /\ program \in Programs
    /\ suspend_depth \in Levels
    /\ relation_nesting_limit \in Limits
    /\ cache = <<>> /\ trace = <<>> /\ members = <<>>
    /\ pending_members = <<>> /\ pending_paths = <<>> /\ member_chains = <<>>
    /\ loops = <<>>
    /\ stack = <<>> /\ tasks = <<>> /\ waiting = {}
    /\ asked = <<>> /\ answers = <<>>

Ask(k) ==
    /\ ~Running
    /\ Len(asked) < MaxQueries
    /\ asked' = Append(asked, k)
    /\ UNCHANGED <<engine, cache, trace, resolution, loops, stack, tasks, waiting, answers>>

AttemptCached ==
    /\ Running /\ stack = <<>>
    /\ Goal \in DOMAIN cache
    /\ CompleteGoal(cache[Goal])
    /\ UNCHANGED <<engine, cache, trace, members, asked>>

Opened(t, k) == IF k \in DOMAIN t THEN t ELSE Put(t, k, [deps |-> <<>>, skipped |-> {}])
RuleNode(k) == Node(Body(program, k.rule), k.id, NoContext, k)

Attempt ==
    /\ Running /\ stack = <<>>
    /\ Goal \notin DOMAIN cache
    /\ stack' = <<RuleNode(Goal)>>
    /\ trace' = Opened(trace, Goal)
    /\ UNCHANGED <<engine, cache, resolution, loops, queries>>

Busy == stack # <<>>

Descend ==
    /\ Busy
    /\ \E g \in Child(Top) : stack' = Append(stack, g)
    /\ UNCHANGED <<engine, cache, trace, resolution, loops, queries>>

(* A rule read: the edge is recorded first, as in Deferral.                *)
Recorded(k) == Log(Frames, <<ReadEffect(k)>>)
RecordedStack(k) == Captured(Frames, <<ReadEffect(k)>>)

ReadCached ==
    /\ Busy
    /\ \E k \in Reads(Top) :
          /\ k \in DOMAIN cache
          /\ LET st == RecordedStack(k)
             IN  stack' = Replaced(st, [Last(st) EXCEPT !.vals = Append(@, cache[k])])
          /\ trace' = Recorded(k).trace
    /\ UNCHANGED <<engine, cache, resolution, loops, queries>>

ReadRecurses ==
    /\ Busy
    /\ \E k \in Reads(Top) :
          /\ k \notin DOMAIN cache /\ Depth < suspend_depth
          /\ stack' = Append(RecordedStack(k), RuleNode(k))
          /\ trace' = Opened(Recorded(k).trace, k)
    /\ UNCHANGED <<engine, cache, resolution, loops, queries>>

(* A deferral unwinds the whole stack; every loop, level, path and chain   *)
(* under way keeps its progress for the retry.                             *)
ReadDeferred ==
    /\ Busy
    /\ \E k \in Reads(Top) :
          /\ k \notin DOMAIN cache /\ Depth >= suspend_depth
          /\ k \notin waiting
          /\ LET st == RecordedStack(k)
             IN  /\ loops' = SavedLoops(st, 1)
                 /\ pending_members' = SavedLevels(st, 1)
                 /\ pending_paths' = SavedPaths(st, 1)
                 /\ member_chains' = SavedChains(st, 1)
          /\ stack' = <<>>
          /\ tasks' = Append(tasks, k)
          /\ waiting' = waiting \cup {k}
          /\ trace' = Recorded(k).trace
    /\ UNCHANGED <<engine, cache, members, asked, answers>>

ReadCycle ==
    /\ Busy
    /\ \E k \in Reads(Top) :
          /\ k \notin DOMAIN cache /\ Depth >= suspend_depth
          /\ k \in waiting
          /\ Finished(Err("dependency_cycle"))
          /\ trace' = Recorded(k).trace
    /\ UNCHANGED <<engine, cache, members, asked>>

(* The innermost node's value goes to the frame that asked for it, which   *)
(* records what that value rules out.                                      *)
Given(st, v) == Replaced(st, [Last(st) EXCEPT !.vals = Append(@, v)])

Return ==
    /\ Busy /\ Complete(Top) /\ ~IsBody(Top)
    /\ Outcome(Top).ok
    /\ LET v == Outcome(Top).val
           caller == stack[Frames - 1]
           effects == IF caller.f = "node"
                      THEN SkipEffects(Skipped(caller.expr, Append(caller.vals, v)),
                                       caller.id, caller.ctx)
                      ELSE <<>>
       IN  /\ stack' = Given(Captured(Frames - 1, effects), v)
           /\ trace' = Log(Frames - 1, effects).trace
    /\ UNCHANGED <<engine, cache, resolution, loops, queries>>

StoredNowhere(v) == UNCHANGED cache   \* mutant
Stored(v) == cache' = Put(cache, Top.rule, v)

ReturnFromRule ==
    /\ Busy /\ Complete(Top) /\ IsBody(Top)
    /\ Outcome(Top).ok
    /\ LET v == Outcome(Top).val
       IN  /\ Stored(v)
           /\ IF Len(stack) = 1 THEN CompleteGoal(v)
              ELSE /\ stack' = Given(Front(stack), v)
                   /\ UNCHANGED <<tasks, waiting, answers, loops>> /\ KeepsProgress
    /\ UNCHANGED <<engine, trace, members, asked>>

Fail ==
    /\ Busy /\ Complete(Top)
    /\ ~Outcome(Top).ok
    /\ Throw(stack, [trace |-> trace, members |-> members], Outcome(Top).err)
    /\ UNCHANGED <<engine, cache, asked>>

-----------------------------------------------------------------------------
(* Loops (`fold_related`, `exists_judgment`). A retry takes an interrupted *)
(* loop up where it stopped and a finished one's result as it is.          *)
Starting == Busy /\ Looks(Top) # {}
Fresh == IsLoop(Top) => TopLoop \notin DOMAIN loops

LoopResume ==
    /\ Starting /\ ~Fresh
    /\ stack' = Replaced(stack, [Top EXCEPT !.loop = loops[TopLoop]])
    /\ loops' = IF loops[TopLoop].finished THEN loops ELSE Taken(loops, TopLoop)
    /\ UNCHANGED <<engine, cache, trace, resolution, queries>>

(* `exists` and `atom` read a base relation's tuples in place; all else    *)
(* looks related ids up one level down (`related_entity_ids`).             *)
InPlace(l) == IsOp(Top, {"exists", "atom"}) /\ ~Derives(l.rel)

Lookup ==
    /\ Starting /\ Fresh
    /\ \E l \in Looks(Top) : ~InPlace(l) /\ stack' = Append(stack, l)
    /\ UNCHANGED <<engine, cache, trace, resolution, loops, queries>>

TuplesInPlace ==
    /\ Starting /\ Fresh
    /\ \E l \in Looks(Top) :
          InPlace(l) /\ stack' = Replaced(stack, Received(Top, Sorted(Own(l.rel, l.id))))
    /\ UNCHANGED <<engine, cache, trace, resolution, loops, queries>>

LookupBase ==
    /\ Busy /\ Top.f = "lookup" /\ ~Derives(Top.rel)
    /\ LET below == Front(stack)
       IN  stack' = Replaced(below, Received(Last(below), Sorted(Own(Top.rel, Top.id))))
    /\ UNCHANGED <<engine, cache, trace, resolution, loops, queries>>

MemberBase ==
    /\ Busy /\ IsOp(Top, {"member"}) /\ Top.vals = <<>> /\ Needs(Top) = {}
    /\ stack' = Given(stack, Truth(Top.ctx.candidate \in Own(Top.expr.key.rel, Top.ctx.anchor)))
    /\ UNCHANGED <<engine, cache, trace, resolution, loops, queries>>

(* A member is taken in once its clause, and its value, are known.         *)
FoldMember ==
    /\ Busy /\ IsOp(Top, {"fold"}) /\ AtMember(Top)
    /\ Child(Top) = {} /\ Reads(Top) = {}
    /\ LET taken == IF ~Selects(Top) THEN Top.loop.acc
                    ELSE Append(Top.loop.acc,
                                IF ReadsMembers(Top.expr) THEN Last(Top.vals) ELSE Current(Top))
       IN  IF Top.expr.key.fn = "sum" /\ Total(taken) \notin Values
           THEN /\ Throw(stack, [trace |-> trace, members |-> members], "overflow")
           ELSE /\ stack' = Replaced(stack, [Top EXCEPT !.loop.next = @ + 1, !.loop.acc = taken,
                                                        !.vals = <<>>])
                /\ UNCHANGED <<trace, resolution, loops, tasks, waiting, answers>>
    /\ UNCHANGED <<engine, cache, asked>>

(* The first witness ends an `exists` and rules out the ids after it.      *)
ExistsFound ==
    /\ Busy /\ IsOp(Top, {"exists"}) /\ AtMember(Top)
    /\ Top.vals = <<Holds>>
    /\ LET l == Top.loop
           done == [ids |-> l.ids, next |-> l.next, acc |-> <<Holds>>, finished |-> TRUE]
           Passed(i) == SkipEffects({Top.expr.args[1]}, Top.ctx.candidate,
                                    [Top.ctx EXCEPT !.vars = <<l.ids[i]>> \o @])
           effects == FlattenSeq([i \in 1..(Len(l.ids) - l.next) |-> Passed(l.next + i)])
           st == Captured(Frames, effects)
       IN  /\ stack' = Replaced(st, [Top EXCEPT !.loop = done, !.vals = <<>>])
           /\ loops' = Put(loops, TopLoop, done)
           /\ trace' = Log(Frames, effects).trace
    /\ UNCHANGED <<engine, cache, resolution, queries>>

ExistsPassed ==
    /\ Busy /\ IsOp(Top, {"exists"}) /\ AtMember(Top)
    /\ Top.vals = <<NotHolds>>
    /\ stack' = Replaced(stack, [Top EXCEPT !.loop.next = @ + 1, !.vals = <<>>])
    /\ UNCHANGED <<engine, cache, trace, resolution, loops, queries>>

LoopEnd ==
    /\ Busy /\ Looping(Top) /\ ~AtMember(Top)
    /\ LET done == [Top.loop EXCEPT !.finished = TRUE]
       IN  /\ stack' = Replaced(stack, [Top EXCEPT !.loop = done])
           /\ loops' = Put(loops, TopLoop, done)
    /\ UNCHANGED <<engine, cache, trace, resolution, queries>>

-----------------------------------------------------------------------------
(* `derived_members`: memoized members are read, and what resolving them   *)
(* recorded is recorded again, even if they failed.                        *)
ReadMembers ==
    /\ Busy
    /\ \E mk \in Needs(Top) :
          /\ mk \in DOMAIN members
          /\ LET st == Captured(Frames, Summary(mk))
                 log == Log(Frames, Summary(mk))
                 result == members[mk].result
                 below == Front(st)
             IN  IF ~result.ok THEN Throw(st, log, result.err)
                 ELSE /\ trace' = log.trace /\ members' = log.members
                      /\ stack' =
                           IF Top.f = "lookup"
                           THEN Replaced(below, Received(Last(below),
                                   Sorted(Own(mk.rel, mk.id) \cup ToSet(result.val))))
                           ELSE Given(st, Truth(\/ Top.ctx.candidate \in Own(mk.rel, mk.id)
                                                \/ Contains(result.val, Top.ctx.candidate)))
                      /\ UNCHANGED <<tasks, waiting, answers, loops>> /\ KeepsProgress
    /\ UNCHANGED <<engine, cache, asked>>

Missing(mk) == mk \notin DOMAIN members

(* The driver at a position of the stack, the last left, turns to its      *)
(* newest goal; it returns when it has none.                               *)
WithGoals(r, goals) ==
    LET below == SubSeq(stack, 1, r - 1)
    IN  IF goals = <<>> THEN below
        ELSE Append(below, [f |-> "resolve", goals |-> goals, chain |-> <<>>, walked |-> FALSE])

ResolveNative ==
    /\ Busy
    /\ \E mk \in Needs(Top) :
          /\ Missing(mk) /\ Nesting < relation_nesting_limit
          /\ stack' = WithGoals(Len(stack) + 1, <<mk>>)
    /\ UNCHANGED <<engine, cache, trace, resolution, loops, queries>>

(* The innermost driver takes the suspension: it resolves the members      *)
(* needed first, or fails the attempt when they wait on it.                *)
Unwound(r) ==
    /\ loops' = SavedLoops(stack, r)
    /\ UNCHANGED <<engine, cache, trace, queries>>
Driver == Innermost(Frames, IsResolve)
Suspends(mk) == Missing(mk) /\ Nesting >= relation_nesting_limit

Suspend ==
    /\ Busy
    /\ \E mk \in Needs(Top) :
          /\ Suspends(mk)
          /\ LET r == Driver
             IN  /\ ~Contains(stack[r].goals, mk)
                 /\ stack' = WithGoals(r, Append(stack[r].goals, mk))
                 /\ pending_members' = SavedLevels(stack, r)
                 /\ pending_paths' = SavedPaths(stack, r)
                 /\ member_chains' = SavedChains(stack, r)
                 /\ Unwound(r)
    /\ UNCHANGED members

SuspendCycle ==
    /\ Busy
    /\ \E mk \in Needs(Top) :
          /\ Suspends(mk)
          /\ LET r == Driver
                 top == Last(stack[r].goals)
             IN  /\ Contains(stack[r].goals, mk)
                 /\ stack' = WithGoals(r, Front(stack[r].goals))
                 /\ pending_members' = Drop(SavedLevels(stack, r), {top})
                 /\ pending_paths' = Drop(SavedPaths(stack, r), {top})
                 /\ member_chains' = Drop(SavedChains(stack, r), {top})
                 /\ members' = Put(members, top, Memo(Err("cyclic_relation"), <<>>))
                 /\ Unwound(r)

-----------------------------------------------------------------------------
(* `resolve_members` and `fold_members`: the newest goal's source chain is *)
(* walked, or taken up again, and its levels are resolved deepest first.   *)
Resolving == Busy /\ Top.f = "resolve"
GoalMembers == Last(Top.goals)
LevelKey == MKey(Last(Top.chain), GoalMembers.id)
SourceOf(rel) == Source(program, rel).from

(* The chain goes on below its last relation.                              *)
Continues(chain) ==
    /\ ~IsPath(Last(chain))
    /\ Derives(SourceOf(Last(chain)))
    /\ Missing(MKey(SourceOf(Last(chain)), GoalMembers.id))
Closes(chain) == Continues(chain) /\ Contains(chain, SourceOf(Last(chain)))

RECURSIVE Walked(_)
Walked(chain) ==
    IF Continues(chain) /\ ~Closes(chain)
    THEN Walked(Append(chain, SourceOf(Last(chain)))) ELSE chain

GoalPopped == WithGoals(Len(stack), Front(Top.goals))

WalkResume ==
    /\ Resolving /\ ~Top.walked
    /\ GoalMembers \in DOMAIN member_chains
    /\ stack' = Replaced(stack, [Top EXCEPT !.chain = member_chains[GoalMembers], !.walked = TRUE])
    /\ member_chains' = Taken(member_chains, GoalMembers)
    /\ UNCHANGED <<engine, cache, trace, members, pending_members, pending_paths, loops, queries>>

Walk ==
    /\ Resolving /\ ~Top.walked
    /\ GoalMembers \notin DOMAIN member_chains
    /\ LET chain == Walked(<<GoalMembers.rel>>)
       IN  /\ ~Closes(chain)
           /\ stack' = Replaced(stack, [Top EXCEPT !.chain = chain, !.walked = TRUE])
    /\ UNCHANGED <<engine, cache, trace, resolution, loops, queries>>

(* A source that leads back into the chain fails every level of it.        *)
WalkCycle ==
    /\ Resolving /\ ~Top.walked
    /\ GoalMembers \notin DOMAIN member_chains
    /\ LET chain == Walked(<<GoalMembers.rel>>)
           levels == {MKey(rel, GoalMembers.id) : rel \in ToSet(chain)}
       IN  /\ Closes(chain)
           /\ members' = [mk \in DOMAIN members \cup levels |->
                             IF mk \in levels THEN Memo(Err("cyclic_relation"), <<>>)
                             ELSE members[mk]]
           /\ pending_members' = Drop(pending_members, levels)
           /\ stack' = GoalPopped
    /\ UNCHANGED <<engine, cache, trace, pending_paths, member_chains, loops, queries>>

GoalDone ==
    /\ Resolving /\ Top.walked /\ Top.chain = <<>>
    /\ stack' = GoalPopped
    /\ UNCHANGED <<engine, cache, trace, resolution, loops, queries>>

LevelDone ==
    /\ Resolving /\ Top.chain # <<>>
    /\ ~Missing(LevelKey)
    /\ stack' = Replaced(stack, [Top EXCEPT !.chain = Front(@)])
    /\ UNCHANGED <<engine, cache, trace, resolution, loops, queries>>

AtLevel == Resolving /\ Top.chain # <<>> /\ Missing(LevelKey)

LevelOf(mk, p) ==
    [f |-> "level", key |-> mk, candidates |-> p.candidates, next |-> p.next,
     kept |-> p.kept, effects |-> p.effects, vals |-> <<>>]
PathOf(mk, p) ==
    [f |-> "path", key |-> mk, step |-> p.step, frontier |-> p.frontier, next |-> p.next,
     reached |-> p.reached, effects |-> p.effects]

LevelResume ==
    /\ AtLevel /\ LevelKey \in DOMAIN pending_members
    /\ stack' = Append(stack, LevelOf(LevelKey, pending_members[LevelKey]))
    /\ pending_members' = Taken(pending_members, LevelKey)
    /\ UNCHANGED <<engine, cache, trace, members, pending_paths, member_chains, loops, queries>>

(* `member_candidates`: the source's own tuples and its members, resolved  *)
(* before; the members' failure is the level's.                            *)
FromSource == AtLevel /\ LevelKey \notin DOMAIN pending_members /\ ~IsPath(Last(Top.chain))
SourceMembers ==
    IF Derives(SourceOf(LevelKey.rel)) THEN {MKey(SourceOf(LevelKey.rel), LevelKey.id)} ELSE {}
SourceFails == \E s \in SourceMembers : ~members[s].result.ok

Candidates ==
    /\ FromSource /\ ~SourceFails
    /\ LET derived == UNION {ToSet(members[s].result.val) : s \in SourceMembers}
           own == Own(SourceOf(LevelKey.rel), LevelKey.id)
       IN  stack' = Append(stack, LevelOf(LevelKey,
              [candidates |-> Sorted(own \cup derived), next |-> 1, kept |-> <<>>,
               effects |-> FlattenSeq([i \in 1..Cardinality(SourceMembers) |->
                                         Summary(CHOOSE s \in SourceMembers : TRUE)])]))
    /\ UNCHANGED <<engine, cache, trace, resolution, loops, queries>>

CandidatesFail ==
    /\ FromSource /\ SourceFails
    /\ \E s \in SourceMembers :
          members' = Put(members, LevelKey, Memo(members[s].result, Summary(s)))
    /\ UNCHANGED <<engine, cache, trace, pending_members, pending_paths, member_chains,
                   loops, stack, queries>>

(* `fold_path_members`: each step takes the ids reached so far, in order,  *)
(* to those it relates them to.                                            *)
PathStart ==
    /\ AtLevel /\ LevelKey \notin DOMAIN pending_members /\ IsPath(Last(Top.chain))
    /\ LET p == IF LevelKey \in DOMAIN pending_paths THEN pending_paths[LevelKey]
                ELSE [step |-> 1, frontier |-> <<LevelKey.id>>, next |-> 1,
                      reached |-> {}, effects |-> <<>>]
       IN  stack' = Append(stack, PathOf(LevelKey, p))
    /\ pending_paths' = Taken(pending_paths, LevelKey)
    /\ UNCHANGED <<engine, cache, trace, members, pending_members, member_chains, loops, queries>>

AtStepEnd == Busy /\ Top.f = "path" /\ Top.next > Len(Top.frontier)
LastStep == Top.step = Len(Source(program, Top.key.rel).path)

PathStep ==
    /\ AtStepEnd /\ ~LastStep
    /\ stack' = Replaced(stack, [Top EXCEPT !.step = @ + 1, !.frontier = Sorted(Top.reached),
                                            !.next = 1, !.reached = {}])
    /\ UNCHANGED <<engine, cache, trace, resolution, loops, queries>>

PathEnd ==
    /\ AtStepEnd /\ LastStep
    /\ stack' = Replaced(stack, LevelOf(Top.key,
          [candidates |-> Sorted(Top.reached), next |-> 1, kept |-> <<>>, effects |-> Top.effects]))
    /\ UNCHANGED <<engine, cache, trace, resolution, loops, queries>>

(* `filter_members`.                                                       *)
CandidateTested ==
    /\ Busy /\ AtCandidate(Top) /\ Top.vals # <<>>
    /\ stack' = Replaced(stack,
          [Top EXCEPT !.next = @ + 1, !.vals = <<>>,
                      !.kept = IF Top.vals[1] = Holds THEN Append(@, Top.candidates[Top.next]) ELSE @])
    /\ UNCHANGED <<engine, cache, trace, resolution, loops, queries>>

LevelEnd ==
    /\ Busy /\ Top.f = "level" /\ ~AtCandidate(Top)
    /\ members' = Put(members, Top.key, Memo(Ok(Top.kept), Top.effects))
    /\ stack' = Front(stack)
    /\ UNCHANGED <<engine, cache, trace, pending_members, pending_paths, member_chains,
                   loops, queries>>

Evaluate == \/ AttemptCached \/ Attempt \/ Descend \/ Return \/ ReturnFromRule \/ Fail
            \/ ReadCached \/ ReadRecurses \/ ReadDeferred \/ ReadCycle
Iterate == \/ LoopResume \/ Lookup \/ TuplesInPlace \/ LookupBase \/ MemberBase
           \/ FoldMember \/ ExistsFound \/ ExistsPassed \/ LoopEnd
Resolve == \/ ReadMembers \/ ResolveNative \/ Suspend \/ SuspendCycle
           \/ WalkResume \/ Walk \/ WalkCycle \/ GoalDone \/ LevelDone
           \/ LevelResume \/ Candidates \/ CandidatesFail
           \/ PathStart \/ PathStep \/ PathEnd \/ CandidateTested \/ LevelEnd

Step == Evaluate \/ Iterate \/ Resolve
Next == Step \/ \E k \in Queries : Ask(k)

(* As in Deferral, a query under way keeps taking steps.                   *)
Spec == Init /\ [][Next]_vars /\ WF_vars(Step)

(* The two errors that report an endless recursion are one outcome: which  *)
(* of them is met first depends on the threshold and on the limit.         *)
Judged(o) == IF ~o.ok /\ o.err = "cyclic_relation" THEN Err("dependency_cycle") ELSE o

-----------------------------------------------------------------------------
(* Memoized members are what recursion gives: no candidate is lost, tested *)
(* in another's place or kept twice over suspensions and deferrals; and a  *)
(* memoized failure, which later queries read, is one recursion meets too. *)
MembersSound ==
    \A mk \in DOMAIN members : Judged(members[mk].result) = MembersOf(program, mk)

(* When a query succeeds nothing is left interrupted: every loop, level,   *)
(* path and chain that kept its progress was taken up again (the           *)
(* assertions at the end of `drive`).                                      *)
NothingLeftBehind ==
    [][(Len(answers') > Len(answers) /\ Last(answers').ok) =>
          /\ \A l \in DOMAIN loops : loops[l].finished
          /\ DOMAIN pending_members \cup DOMAIN pending_paths \cup DOMAIN member_chains = {}]_vars

(* Interruptions cost no second pass: within a query, a resolution never   *)
(* goes back to a candidate it has tested, unless what it resolves depends *)
(* on itself.                                                              *)
Tested ==
    {[of |-> stack[i].key, upto |-> stack[i].next] : i \in {i \in 1..Frames : stack[i].f = "level"}}
    \cup {[of |-> mk, upto |-> pending_members[mk].next] : mk \in DOMAIN pending_members}
Acyclic(mk) == MembersOf(program, mk) # Err("dependency_cycle")
NoSecondPass ==
    [][Running' =>
          \A x \in Tested : Acyclic(x.of) =>
              \/ x.of \in DOMAIN members'
              \/ \E y \in Tested' : y.of = x.of /\ x.upto <= y.upto]_vars

(* The engine promises what Evaluation states: a query is answered with    *)
(* the meaning of the rule on that entity, whatever was memoized before    *)
(* and however the evaluation was interrupted, and every query is          *)
(* answered.                                                               *)
Outcomes == {Ok(v) : v \in Values} \cup
            {Err(e) : e \in {"missing_input", "overflow", "empty_aggregate", "missing_relation",
                             "ambiguous_relation", "dependency_cycle", "cyclic_relation"}}
Promise == INSTANCE Evaluation WITH answers <- [i \in 1..Len(answers) |-> Judged(answers[i])]
ImplementsEvaluation == Promise!Spec
=============================================================================
