----------------------------- MODULE MCDeferral -----------------------------
(***************************************************************************)
(* Small programs for Deferral, and the reference they are judged by: the  *)
(* unbounded recursion that depth.rs replaced.                             *)
(***************************************************************************)
EXTENDS Deferral, TLC

Node(op, args) == [op |-> op, args |-> args, key |-> <<>>, val |-> 0]
Literal(v) == [op |-> "literal", args |-> <<>>, key |-> <<>>, val |-> v]
ReadOf(kind, r) == [op |-> "derived", args |-> <<>>,
                    key |-> [kind |-> kind, rule |-> r], val |-> 0]
S(r) == ReadOf("scalar", r)
J(r) == ReadOf("judgment", r)

(* Formulas of the rules "a" and "b" (amounts), "c" (a leaf amount) and    *)
(* "j" (a condition). Some programs are acyclic chains deeper than the     *)
(* small thresholds, some are cyclic, some only through a branch that is   *)
(* not selected, some fail.                                                *)
BodiesA == <<Node("add", <<S("b"), S("c")>>),
             Node("if", <<J("j"), S("b"), Node("max", <<S("c"), S("b")>>)>>),
             Node("div", <<Node("missing", <<>>), S("b")>>),
             Node("add", <<Literal(3), S("c"), J("c")>>)>>
BodiesB == <<S("c"), S("j"), S("a"), S("z"),
             Node("if", <<J("j"), Literal(2), S("a")>>),
             Node("max", <<S("c"), S("c")>>)>>
BodiesC == <<Literal(0), Literal(3), Node("no_match", <<Literal(1)>>)>>
BodiesJ == <<Node("compare", <<S("c"), Literal(1)>>),
             Node("and", <<Node("compare", <<S("c"), Literal(1)>>),
                           Node("not", <<J("j")>>)>>),
             Node("or", <<Node("compare", <<S("c"), Literal(1)>>),
                          Node("compare", <<Literal(1), S("b")>>)>>)>>
Bodies == [a |-> BodiesA, b |-> BodiesB, c |-> BodiesC, j |-> BodiesJ]

RECURSIVE Nodes(_)
Nodes(e) == {e} \cup UNION {Nodes(e.args[i]) : i \in 1..Len(e.args)}

(* A program picks a formula for each rule; "z" is a rule it lacks.        *)
MCRules == {"a", "b", "c", "j", "z"}
MCPrograms == [a : DOMAIN BodiesA, b : DOMAIN BodiesB, c : DOMAIN BodiesC, j : DOMAIN BodiesJ]
MCExprs == UNION {Nodes(Bodies[r][i]) : <<r, i>> \in
                     UNION {{r} \X DOMAIN Bodies[r] : r \in DOMAIN Bodies}}
MCStatus(p, r) == IF r = "z" THEN "unknown_derived" ELSE "ok"
MCKindOf(p, r) == IF r = "j" THEN "judgment" ELSE "scalar"
MCBody(p, r) == IF r = "z" THEN Literal(0) ELSE Bodies[r][p[r]]
MCRounds(p, r) == r = "c"

-----------------------------------------------------------------------------
(* Unbounded recursion: the operands a node wants, in order, each wholly   *)
(* evaluated before the next; the first error is the node's error; a rule  *)
(* reached from itself has no value.                                       *)
RECURSIVE Recurse(_, _, _, _), RecurseRule(_, _, _)
Recurse(p, e, vals, open) ==
    IF e.op = "derived" /\ vals = <<>> THEN RecurseRule(p, e.key, open)
    ELSE IF Wants(e, vals)
         THEN LET o == Recurse(p, Operand(e, vals), <<>>, open)
              IN  IF o.ok THEN Recurse(p, e, Append(vals, o.val), open) ELSE o
         ELSE Finish(e, vals)
RecurseRule(p, k, open) ==
    IF k \in open THEN Err("dependency_cycle")
    ELSE IF Refusal(p, k) # "none" THEN Err(Refusal(p, k))
    ELSE LET o == Recurse(p, Body(p, k.rule), <<>>, open \cup {k})
         IN  IF o.ok THEN Ok(Rounded(p, k, o.val)) ELSE o

(* Joined with the empty function so that TLC tabulates it once.           *)
MeaningTable ==
    [pk \in MCPrograms \X Keys |-> RecurseRule(pk[1], pk[2], {})] @@ <<>>
MCMeaning(p, k) == MeaningTable[<<p, k>>]
MCRest(p, e, vals) == Recurse(p, e, vals, {})

(* The steps that recursion takes; a rule reached from itself takes none.  *)
RECURSIVE Count(_, _, _, _)
Count(p, e, vals, open) ==
    IF e.op = "derived" /\ vals = <<>>
    THEN IF e.key \in open \/ Refusal(p, e.key) # "none" THEN 1
         ELSE 2 + Count(p, Body(p, e.key.rule), <<>>, open \cup {e.key})
    ELSE IF ~Wants(e, vals) THEN 0
    ELSE LET o == Recurse(p, Operand(e, vals), <<>>, open)
         IN  1 + Count(p, Operand(e, vals), <<>>, open)
               + IF o.ok THEN Count(p, e, Append(vals, o.val), open) ELSE 0
MCSteps(p, e, vals) == Count(p, e, vals, {})

(* The reads unbounded recursion makes in a formula, in order, and the     *)
(* formulas it skips.                                                      *)
RECURSIVE MCReads(_, _, _), MCPassed(_, _, _)
MCReads(p, e, vals) ==
    IF e.op = "derived" THEN IF vals = <<>> THEN <<e.key.rule>> ELSE <<>>
    ELSE IF ~Wants(e, vals) THEN <<>>
    ELSE LET x == Operand(e, vals)
             o == MCRest(p, x, <<>>)
         IN  MCReads(p, x, <<>>) \o
             IF o.ok THEN MCReads(p, e, Append(vals, o.val)) ELSE <<>>
MCPassed(p, e, vals) ==
    Skipped(e, vals) \cup
    IF e.op = "derived" \/ ~Wants(e, vals) THEN {}
    ELSE LET x == Operand(e, vals)
             o == MCRest(p, x, <<>>)
         IN  MCPassed(p, x, <<>>) \cup
             IF o.ok THEN MCPassed(p, e, Append(vals, o.val)) ELSE {}
=============================================================================
