------------------------------- MODULE MCBulk -------------------------------
(***************************************************************************)
(* Batches of two queries over small programs: "a" and "b" are amounts,    *)
(* "j" a condition; "u" has an unknown unit, "v" no version for the period *)
(* and "z" is not in the program.                                          *)
(***************************************************************************)
EXTENDS Bulk, TLC

Op(op, args) == [op |-> op, args |-> args, key |-> <<>>, val |-> 0]
Literal(v) == [op |-> "literal", args |-> <<>>, key |-> <<>>, val |-> v]
ReadOf(kind, r) == [op |-> "derived", args |-> <<>>,
                    key |-> [kind |-> kind, rule |-> r], val |-> 0]
S(r) == ReadOf("scalar", r)
J(r) == ReadOf("judgment", r)
In == Op("input", <<>>)
Only == Op("unsupported", <<>>)

BodiesA == <<Op("if", <<J("j"), S("b"), Op("add", <<S("b"), Literal(2)>>)>>),
             Op("if", <<J("j"), Only, Op("max", <<In, S("b")>>)>>),
             Op("div", <<Op("add", <<In, Literal(3), Only>>), In>>),
             Op("add", <<In, S("b"), Op("if", <<J("j"), S("b"), Literal(1)>>)>>)>>
BodiesB == <<In, S("a"),
             Op("if", <<J("j"), S("v"), S("j")>>),
             Op("if", <<J("j"), Literal(3), Op("no_match", <<In>>)>>),
             Op("if", <<J("j"), S("u"), S("z")>>)>>
BodiesJ == <<Op("compare", <<In, Literal(1)>>),
             Op("and", <<Op("compare", <<In, Literal(1)>>),
                         Op("compare", <<S("b"), Only>>)>>),
             Op("or", <<Op("compare", <<In, Literal(1)>>),
                        Op("not", <<J("j")>>)>>),
             Op("not", <<Op("or", <<Op("compare", <<Literal(0), In>>),
                                    Op("compare", <<In, Op("max", <<>>)>>)>>)>>)>>
Bodies == [a |-> BodiesA, b |-> BodiesB, j |-> BodiesJ]

RECURSIVE Nodes(_)
Nodes(e) == {e} \cup UNION {Nodes(e.args[i]) : i \in 1..Len(e.args)}

MCRules == {"a", "b", "j", "u", "v", "z"}
MCPrograms == [a : DOMAIN BodiesA, b : DOMAIN BodiesB, j : DOMAIN BodiesJ]
MCExprs == UNION {Nodes(Bodies[r][i]) : <<r, i>> \in
                     UNION {{r} \X DOMAIN Bodies[r] : r \in DOMAIN Bodies}}
MCStatus(p, r) ==
    CASE r = "u" -> "unknown_unit" [] r = "v" -> "missing_version"
      [] r = "z" -> "unknown_derived" [] OTHER -> "ok"
MCKindOf(p, r) == IF r = "j" THEN "judgment" ELSE "scalar"
MCBody(p, r) == IF r \in DOMAIN Bodies THEN Bodies[r][p[r]] ELSE Literal(0)
MCRounds(p, r) == r = "b"
MCCells == {Absent, 0, 3}
MCRequests ==
    {<<<<"a", "b">>, <<"a">>>>, <<<<"b", "a">>, <<"a">>>>, <<<<"a">>, <<"b">>>>,
     <<<<"j">>, <<"a", "j">>>>, <<<<>>, <<"b">>>>, <<<<>>, <<>>>>,
     <<<<"b">>, <<"u">>>>, <<<<"b">>, <<"v">>>>, <<<<"j">>, <<"z">>>>}

-----------------------------------------------------------------------------
(* Explain, row by row: unbounded recursion over the row's own operands,   *)
(* in the interpreter's order and no further than its value needs.         *)
Seen(e, cell) ==
    CASE e.op = "unsupported" -> Literal(1)
      [] e.op = "input" -> IF cell = Absent THEN Op("missing", <<>>) ELSE Literal(cell)
      [] OTHER -> e

RECURSIVE Recurse(_, _, _, _, _), RecurseRule(_, _, _, _)
Recurse(p, cell, e, vals, open) ==
    IF e.op = "derived" THEN RecurseRule(p, cell, e.key, open)
    ELSE IF Wants(Seen(e, cell), vals)
         THEN LET o == Recurse(p, cell, Operand(e, vals), <<>>, open)
              IN  IF o.ok THEN Recurse(p, cell, e, Append(vals, o.val), open) ELSE o
         ELSE Finish(Seen(e, cell), vals)
RecurseRule(p, cell, k, open) ==
    IF k \in open THEN Err("dependency_cycle")
    ELSE IF RefusalOf(p, k) # "none" THEN Err(RefusalOf(p, k))
    ELSE LET o == Recurse(p, cell, MCBody(p, k.rule), <<>>, open \cup {k})
         IN  IF o.ok THEN Ok(RoundedTo(p, k, o.val)) ELSE o

MCRest(p, cell, e, vals) == Recurse(p, cell, e, vals, {})

(* A table over programs, cells and keys, each level joined with the empty *)
(* function so that TLC computes it once.                                  *)
Tabulated(Entry(_, _, _)) ==
    [a \in DOMAIN BodiesA |-> [b \in DOMAIN BodiesB |-> [j \in DOMAIN BodiesJ |->
        [cell \in MCCells |->
            [k \in Keys |-> Entry([a |-> a, b |-> b, j |-> j], cell, k)] @@ <<>>]
         @@ <<>>] @@ <<>>] @@ <<>>] @@ <<>>

RuleMeaning(p, cell, k) == RecurseRule(p, cell, k, {})
MeaningTable == Tabulated(RuleMeaning)
MCMeaning(p, cell, k) == MeaningTable[p.a][p.b][p.j][cell][k]

RECURSIVE Meets(_, _, _, _, _)
Meets(p, cell, e, vals, open) ==
    CASE e.op = "unsupported" -> TRUE
      [] e.op = "derived" ->
             /\ e.key \notin open /\ RefusalOf(p, e.key) = "none"
             /\ Meets(p, cell, MCBody(p, e.key.rule), <<>>, open \cup {e.key})
      [] OTHER ->
             /\ Wants(Seen(e, cell), vals)
             /\ LET x == Operand(e, vals)
                    o == Recurse(p, cell, x, <<>>, open)
                IN  \/ Meets(p, cell, x, <<>>, open)
                    \/ o.ok /\ Meets(p, cell, e, Append(vals, o.val), open)

RuleMeets(p, cell, k) == Meets(p, cell, [op |-> "derived", key |-> k], <<>>, {})
TouchesTable == Tabulated(RuleMeets)
MCTouches(p, cell, k) == TouchesTable[p.a][p.b][p.j][cell][k]
MCReaches(p, cell, e, vals) == Meets(p, cell, e, vals, {})

(* The steps that recursion takes; a rule reached from itself takes none.  *)
RECURSIVE Count(_, _, _, _, _)
Count(p, cell, e, vals, open) ==
    IF e.op = "derived"
    THEN IF e.key \in open \/ RefusalOf(p, e.key) # "none" THEN 1
         ELSE 1 + Count(p, cell, MCBody(p, e.key.rule), <<>>, open \cup {e.key})
    ELSE IF ~Wants(Seen(e, cell), vals) THEN 0
    ELSE LET x == Operand(e, vals)
             o == Recurse(p, cell, x, <<>>, open)
         IN  1 + Count(p, cell, x, <<>>, open)
               + IF o.ok THEN Count(p, cell, e, Append(vals, o.val), open) ELSE 0
MCSteps(p, cell, e, vals) == Count(p, cell, e, vals, {})
=============================================================================
