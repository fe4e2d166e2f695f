------------------------------ MODULE MCMembers ------------------------------
(***************************************************************************)
(* Small programs for Members over one household, 1, and its two people,   *)
(* 2 and 3, and the reference they are judged by: resolution and           *)
(* evaluation by unbounded recursion.                                      *)
(***************************************************************************)
EXTENDS Members

N(op, args, key) == [op |-> op, args |-> args, key |-> key, val |-> 0]
Lit(v) == [op |-> "literal", args |-> <<>>, key |-> <<>>, val |-> v]
Read(r) == N("derived", <<>>, [rule |-> r, at |-> Routed])
ReadAt(t, r) == N("derived", <<>>, [rule |-> r, at |-> t])
Fold(fn, rel, value, where, site) ==
    N("fold", where, [fn |-> fn, rel |-> rel, value |-> value, site |-> site])
Member(rel) == N("member", <<>>, [rel |-> rel])
Atom(rel, from, to) == N("atom", <<>>, [rel |-> rel, from |-> from, to |-> to])
Exists(rel, from, body, site) == N("exists", <<body>>, [rel |-> rel, from |-> from, site |-> site])
AtLeast(e, f) == N("compare", <<e, f>>, <<>>)
And(e, f) == N("and", <<e, f>>, <<>>)
Or(e, f) == N("or", <<e, f>>, <<>>)
Not(e) == N("not", <<e>>, <<>>)

(* "m" relates a household to its people, "h" a person to the household,   *)
(* "k" a person to others. "R" and "Q" derive people of a household, *)
(* "S" people of a person.                                                 *)
Totals == <<Fold("sum", "R", "score", <<>>, "t1"),
            N("add", <<Fold("count", "R", "none", <<Read("flag")>>, "t2"),
                       Fold("max", "R", "score", <<>>, "t3")>>, <<>>),
            N("if", <<AtLeast(Fold("count", "Q", "none", <<>>, "t4"), Lit(1)),
                      Fold("only", "R", "score", <<>>, "t5"),
                      Fold("sum", "Q", "score", <<Read("flag")>>, "t6")>>, <<>>)>>
Flags == <<AtLeast(Read("score"), Lit(2)),
           AtLeast(Fold("count", "S", "none", <<>>, "f1"), Lit(1)),
           AtLeast(Fold("sum", "h", "total", <<>>, "f2"), Lit(1))>>
Scores == <<N("input", <<>>, <<>>), Lit(1)>>

From(rel) == [kind |-> "from", from |-> rel, path |-> <<>>]
Path(rels) == [kind |-> "path", from |-> "none", path |-> rels]
Base == [kind |-> "base", from |-> "none", path |-> <<>>]
Derive(source, predicate) == [source |-> source, predicate |-> predicate]

Rs == <<Derive(From("m"), Read("flag")),
        Derive(From("Q"), Exists("m", Anchor, And(Atom("k", 0, Candidate), ReadAt(0, "flag")), "r1")),
        Derive(Path(<<"m", "S">>), And(Member("Q"), AtLeast(ReadAt(Candidate, "score"), Lit(1)))),
        Derive(From("m"), Or(Member("m"), Read("flag")))>>
Qs == <<Derive(From("m"), Read("flag")),
        Derive(From("m"), And(AtLeast(Fold("count", "S", "none", <<>>, "q1"), Lit(1)), Read("flag"))),
        Derive(From("R"), Lit(1)),
        Derive(From("m"), Exists("S", Candidate, Or(ReadAt(0, "flag"), Atom("R", Anchor, 0)), "q2"))>>
Ss == <<Derive(From("k"), AtLeast(ReadAt(Anchor, "score"), ReadAt(Candidate, "score"))),
        Derive(From("k"), ReadAt(Candidate, "flag")),
        Derive(From("k"), AtLeast(Fold("max", "k", "score", <<>>, "s1"), Lit(2)))>>

RECURSIVE Nodes(_)
Nodes(e) == {e} \cup UNION {Nodes(e.args[i]) : i \in 1..Len(e.args)}

MCRules == {"total", "flag", "score"}
MCRelations == {"m", "h", "k", "R", "Q", "S"}
MCExprs == UNION {Nodes(e) : e \in ToSet(Totals) \cup ToSet(Flags) \cup ToSet(Scores)
                     \cup {d.predicate : d \in ToSet(Rs) \cup ToSet(Qs) \cup ToSet(Ss)}}
Combinations == [total : DOMAIN Totals, flag : DOMAIN Flags, score : DOMAIN Scores,
                 R : DOMAIN Rs, Q : DOMAIN Qs, S : DOMAIN Ss]
ChoiceSum(c) == c.total + c.flag + c.score + c.R + c.Q + c.S

(* An eighth of the combinations, in which any two choices meet.           *)
FewPrograms == {c \in Combinations : ChoiceSum(c) % 8 = 0}
MCBody(p, r) == CASE r = "total" -> Totals[p.total]
                  [] r = "flag"  -> Flags[p.flag]
                  [] r = "score" -> Scores[p.score]
MCEntityOf(r) == IF r = "total" THEN "household" ELSE "person"
MCSlots(rel) == CASE rel \in {"m", "R", "Q"} -> <<"household", "person">>
                     [] rel = "h" -> <<"person", "household">>
                     [] rel \in {"k", "S"} -> <<"person", "person">>
Derivation(p, rel) == CASE rel = "R" -> Rs[p.R] [] rel = "Q" -> Qs[p.Q] [] rel = "S" -> Ss[p.S]
MCSource(p, rel) == IF rel \in {"m", "h", "k"} THEN Base ELSE Derivation(p, rel).source
MCPredicate(p, rel) == Derivation(p, rel).predicate
MCDirect(p, rel, id) ==
    CASE rel = "m" /\ id = 1 -> {2, 3}
      [] rel = "h" /\ id # 1 -> {1}
      [] rel = "k" /\ id = 2 -> {3}
      [] rel = "k" /\ id = 3 -> {2, 3}
      [] rel = "S" /\ id = 3 -> {3}
      [] rel = "R" /\ id = 1 -> {3}
      [] OTHER -> {}
MCInput(p, id) == IF id = 1 THEN Err("missing_input") ELSE Ok(2 * id - 3)
MCQueries == {[rule |-> "total", id |-> 1], [rule |-> "flag", id |-> 2]}

-----------------------------------------------------------------------------
(* Recursion gives a formula or a member list an outcome, and the rules it *)
(* read and skipped on the way, in order. `Then` goes on with the value of *)
(* a result, and `Through` with each of some ids; an error ends both.      *)
Result(out, reads, skips) == [out |-> out, reads |-> reads, skips |-> skips]
Plain(out) == Result(out, <<>>, {})
Value(v) == Plain(Ok(v))
After(a, b) == Result(b.out, a.reads \o b.reads, a.skips \cup b.skips)
Then(a, B(_)) == IF a.out.ok THEN After(a, B(a.out.val)) ELSE a
Through(ids, v, B(_, _)) ==
    FoldLeft(LAMBDA a, id : Then(a, LAMBDA w : B(w, id)), Value(v), ids)

AlsoSkips(b, es, id, ctx) ==
    LET read == UNION {TraceReferences[x] : x \in es}
        keys == {[rule |-> x.rule, id |-> Target(x.rule, x.at, id, ctx)] :
                    x \in {x \in read : ctx # NoContext \/ x.at = Routed}}
    IN  [b EXCEPT !.skips = @ \cup keys]

Cycle == Plain(Err("dependency_cycle"))
Bind(ctx, id) == [ctx EXCEPT !.vars = <<id>> \o @]

RECURSIVE Eval(_, _, _, _, _, _), Related(_, _, _, _), ListOf(_, _, _)

(* A formula whose first operands have the given values, on an entity, in  *)
(* a relation's context or none; `open` are the rules and lists begun.     *)
Eval(p, e, vals, id, ctx, open) ==
    LET ReadOn(rule, at) ==
            LET k == [rule |-> rule, id |-> at]
            IN  Result(IF k \in open THEN Cycle.out
                       ELSE Eval(p, MCBody(p, rule), <<>>, at, NoContext, open \cup {k}).out,
                       <<k>>, {})
        Sub(f, at, under) == Eval(p, f, <<>>, at, under, open)
        Of(rel, at) == Related(p, rel, at, open)
        fn == e.key.fn
        Take(acc, at) ==
            Then(IF fn \in {"sum", "max"} THEN ReadOn(e.key.value, at) ELSE Value(at),
                 LAMBDA v : IF fn = "sum" /\ Total(Append(acc, v)) \notin Values
                            THEN Plain(Err("overflow")) ELSE Value(Append(acc, v)))
        FoldOver(acc, at) ==
            Then(IF e.args = <<>> THEN Value(Holds) ELSE Sub(e.args[1], at, NoContext),
                 LAMBDA v : IF v = Holds THEN Take(acc, at) ELSE Value(acc))
        Folded(acc) ==
            IF fn = "only" /\ Len(acc) = 1 THEN ReadOn(e.key.value, acc[1])
            ELSE Plain(FoldOutcome([expr |-> e, loop |-> [acc |-> acc], vals |-> <<>>]))
        Witness(found, at) ==
            IF found = Holds
            THEN AlsoSkips(Value(Holds), {e.args[1]}, ctx.candidate, Bind(ctx, at))
            ELSE Sub(e.args[1], ctx.candidate, Bind(ctx, at))
        Operated(v) == AlsoSkips(Eval(p, e, Append(vals, v), id, ctx, open),
                              Skipped(e, Append(vals, v)), id, ctx)
    IN  CASE e.op = "derived" -> ReadOn(e.key.rule, Target(e.key.rule, e.key.at, id, ctx))
          [] e.op = "input" -> Plain(MCInput(p, id))
          [] e.op = "fold" ->
                 Then(Of(e.key.rel, id),
                      LAMBDA ids : Then(Through(ids, <<>>, FoldOver), Folded))
          [] e.op = "member" ->
                 Then(Of(e.key.rel, ctx.anchor),
                      LAMBDA ids : Value(Truth(Contains(ids, ctx.candidate))))
          [] e.op = "atom" ->
                 Then(Of(e.key.rel, TermId(ctx, e.key.from)),
                      LAMBDA ids : Value(Truth(Contains(ids, TermId(ctx, e.key.to)))))
          [] e.op = "exists" ->
                 Then(Of(e.key.rel, TermId(ctx, e.key.from)),
                      LAMBDA ids : Through(ids, NotHolds, Witness))
          [] OTHER -> IF Wants(e, vals) THEN Then(Sub(Operand(e, vals), id, ctx), Operated)
                      ELSE Plain(Finish(e, vals))

Related(p, rel, id, open) ==
    LET own == SuppliedTo(p, rel, id)
    IN  IF MCSource(p, rel) = Base THEN Value(Sorted(own))
        ELSE Then(ListOf(p, MKey(rel, id), open),
                  LAMBDA l : Value(Sorted(own \cup ToSet(l))))

(* A derived relation's own members: its candidates that hold, in order.   *)
ListOf(p, mk, open) ==
    LET source == MCSource(p, mk.rel)
        Of(rel, at) == Related(p, rel, at, open \cup {mk})
        StepFrom(frontier, rel) ==
            Then(Through(frontier, {}, LAMBDA reached, at :
                            Then(Of(rel, at), LAMBDA l : Value(reached \cup ToSet(l)))),
                 LAMBDA reached : Value(Sorted(reached)))
        Test(kept, at) ==
            Then(Eval(p, MCPredicate(p, mk.rel), <<>>, at,
                      [rel |-> mk.rel, anchor |-> mk.id, candidate |-> at, vars |-> <<>>],
                      open \cup {mk}),
                 LAMBDA v : Value(IF v = Holds THEN Append(kept, at) ELSE kept))
    IN  IF mk \in open THEN Cycle
        ELSE Then(IF source.kind = "from" THEN Of(source.from, mk.id)
                  ELSE Through(source.path, <<mk.id>>, StepFrom),
                  LAMBDA ids : Through(ids, <<>>, Test))

Begun(p, k) == Eval(p, MCBody(p, k.rule), <<>>, k.id, NoContext, {k})

(* Joined with the empty function so that TLC tabulates them once.         *)
MeaningTable == [pk \in Programs \X RuleKeys |-> Begun(pk[1], pk[2]).out] @@ <<>>
MembersTable == [pk \in Programs \X MemberKeys |->
                    IF MCSource(pk[1], pk[2].rel) = Base THEN Ok(<<>>)
                    ELSE ListOf(pk[1], pk[2], {}).out] @@ <<>>
MCMeaning(p, k) == MeaningTable[<<p, k>>]
MCMembersOf(p, mk) == MembersTable[<<p, mk>>]

TraceTable ==
    [pk \in Programs \X RuleKeys |->
        LET r == Begun(pk[1], pk[2])
        IN  [deps |-> Distinct(r.reads), skipped |-> r.skips]] @@ <<>>

(* A finished rule's trace is the one recursion records: the same edges in *)
(* the same order, those of every relation it asked for among them, though *)
(* the relation was resolved once, by another rule, or in several attempts *)
(* (engine.rs:637-638: "for replay on each rule evaluation that asks for   *)
(* them").                                                                 *)
TraceExact == \A k \in DOMAIN cache : trace[k] = TraceTable[<<program, k>>]
=============================================================================
