-------------------------- MODULE MCDenseExecution --------------------------
(***************************************************************************)
(* Small compiled programs with the batches they are run over, for one     *)
(* period and for a lifetime, and what execution promises about them.      *)
(***************************************************************************)
EXTENDS Lifetime

CONSTANT Thresholds   \* depths at which a rule is deferred

(* Expressions.                                                            *)
E(op, args) == [op |-> op, args |-> args]
Lit(v) == [op |-> "literal", value |-> v, args |-> <<>>]
In(n) == [op |-> "input", name |-> n, args |-> <<>>]
Rule(r) == [op |-> "rule", name |-> r, args |-> <<>>]
Param(p) == [op |-> "parameter", name |-> p, args |-> <<>>]
Inlined(b) == [op |-> "inline", name |-> b, args |-> <<>>]
Late(d, e) == [op |-> "commenced", from |-> d, args |-> <<e>>]
NoMatch(s, p) == E("nomatch", <<s, p>>)
Fold(op, i, p, v) == [op |-> op, relation |-> i, predicate |-> p, value |-> v, args |-> <<>>]
Over(k, e) == [op |-> "over", kind |-> k, value |-> e, n |-> None, args |-> <<>>]
Top_N(e, n) == [op |-> "over", kind |-> "top", value |-> e, n |-> n, args |-> <<>>]
Under(a, b) == E("less", <<a, b>>)

RuleOf(d, e) == [from |-> d, body |-> e]
BodyOf(k, e) == [references |-> k, body |-> e]
LinkOf(p, e) == [key |-> "k", inputs |-> <<"v", "w">>, parent |-> p, filter |-> e]

(* "p" changes on day 4; "q" begins then.                                  *)
Parameters == [p |-> 1 :> 1 @@ 4 :> 2, q |-> 4 :> 1]
Program(inputs, relations, rules, bodies, outputs) ==
    [inputs |-> inputs, relations |-> relations, rules |-> rules, bodies |-> bodies,
     outputs |-> outputs, parameters |-> Parameters, law |-> None]

(* Columns of the root rows: rules that read one another for some rows,    *)
(* in branches and after failures, several times and through chains.       *)
Columns ==
    {Program(<<"x", "y", "gone">>, <<>>,
             [a |-> RuleOf(1, ba), b |-> RuleOf(cb, bb), c |-> RuleOf(1, bc)], <<>>, outs) :
       ba \in {E("if", <<Under(In("x"), Lit(1)), Rule("b"), Rule("c")>>),
               E("add", <<E("if", <<Under(Lit(1), In("x")), Rule("b"), Lit(0)>>), Rule("b"), Rule("c")>>),
               E("div", <<Rule("b"), Rule("c")>>),
               E("if", <<Under(Rule("c"), Lit(2)), Rule("b"), NoMatch(Rule("c"), Rule("b"))>>),
               E("or", <<Under(Rule("c"), Param("p")), Under(Rule("b"), E("start", <<>>))>>)},
       bb \in {E("div", <<In("y"), In("x")>>), E("add", <<Rule("c"), In("y"), In("gone")>>),
               E("not", <<E("and", <<Under(In("x"), Rule("c")), Under(Rule("c"), Over("sum", In("x")))>>)>>)},
       bc \in {In("x"), E("add", <<In("x"), Param("q")>>), NoMatch(In("gone"), In("x"))},
       cb \in {1, 4}, outs \in {<<"a">>, <<"c", "b", "b", "a">>}}

(* Aggregations over a base and a chain of two derived relations: filters  *)
(* and predicates that read root columns, fail for some members and share  *)
(* bodies; the same relation asked for different rows.                     *)
Sites(fold) == IF fold.op \in {"sum", "max"} THEN 1 ELSE 0
Relational ==
    {Program(<<"x", "y">>, <<LinkOf(0, None), LinkOf(0, f2), LinkOf(2, f3)>>,
             [a |-> RuleOf(1, E("add", <<E("if", <<Under(In("x"), Lit(1)), fa, Lit(1)>>), fb>>)),
              b |-> RuleOf(1, rb)],
             <<BodyOf(Sites(fa) + Sites(fb), In("w")), BodyOf(2, Under(In("v"), E("root", <<Rule("b")>>)))>>,
             <<"a", "b">>) :
       fa \in {Fold("sum", 3, Inlined(2), Inlined(1)), Fold("count", 2, None, None),
               Fold("single", 3, None, In("v"))},
       fb \in {Fold("max", 3, p, Inlined(1)) : p \in {None, Inlined(2)}}
              \cup {Fold("sum", 1, p, E("div", <<In("v"), Inlined(1)>>)) :
                      p \in {Under(E("div", <<Lit(1), In("w")>>), In("v"))}}
              \cup {Fold("single", 2, p, In("w")) : p \in {Late(4, Inlined(2))}},
       rb \in {In("y"), E("div", <<In("y"), In("x")>>), Fold("count", 1, None, None)},
       f2 \in {Inlined(2), Under(E("div", <<Lit(1), In("w")>>), Lit(1))},
       f3 \in {None, E("or", <<Inlined(2), Under(In("w"), E("root", <<In("x")>>))>>)}}

Key1(offsets, stated, cols, lengths) ==
    [offsets |-> offsets, stated |-> stated, columns |-> cols, lengths |-> lengths]
BatchOf(offsets, x, y, v, w) ==
    [rows |-> 2, start |-> 3, columns |-> [x |-> x, y |-> y],
     keys |-> [k |-> Key1(offsets, None, [v |-> v, w |-> w], <<>>)]]
Batches ==
    {BatchOf(<<0, 2, 3>>, <<0, 2>>, <<1, 2>>, <<1, 0, 2>>, <<2, 2, 1>>),
     BatchOf(<<0, 2, 3>>, <<1, 0>>, <<2, 0>>, <<1, 0, 2>>, <<1, 0, 0>>),
     BatchOf(<<0, 1, 3>>, <<0, 2>>, <<2, 0>>, <<1, 0, 2>>, <<1, 0, 2>>),
     BatchOf(<<0, 3, 3>>, <<1, 0>>, <<1, 2>>, <<2, 2, 2>>, <<1, 1, 0>>)}

-----------------------------------------------------------------------------
(* Batches that may not be bound, for a program of three relations, two of *)
(* which read the same key.                                                *)
Shared ==
    Program(<<"x">>, <<[LinkOf(0, None) EXCEPT !.inputs = <<"v">>],
                       [LinkOf(0, None) EXCEPT !.key = "l"], LinkOf(0, None)>>,
            [a |-> RuleOf(1, Lit(1))], <<>>, <<"a">>)

Absent == {<<>>}
Named(n, lengths) == Absent \cup {n :> [i \in 1..len |-> 0] : len \in lengths}
Misshapen ==
    {[rows |-> 2, start |-> 3, columns |-> [x |-> <<0, 0>>],
      keys |-> [l |-> Key1(<<0, 0, 0>>, None, <<>>, <<>>),
                k |-> Key1(o, s, v @@ u, z)]] :
       o \in {<<0, 1, 2>>, <<0, 2, 1>>, <<0, 0, 0>>, <<1, 1, 2>>, <<0, 2>>, <<0, 2, 4>>},
       s \in {None, 2, 4}, v \in Named("v", {2, 3}), u \in Named("u", {2, 4}),
       z \in Absent \cup {"z" :> 2, "z" :> 4}}
    \cup {[rows |-> n, start |-> 3, columns |-> x,
           keys |-> IF l THEN [k |-> Key1(o, None, <<>>, <<>>), l |-> Key1(o, None, <<>>, <<>>)]
                    ELSE [k |-> Key1(o, None, <<>>, <<>>)]] :
            n \in {0, 1, 4}, x \in Named("x", {1, 4}), l \in BOOLEAN, o \in {<<0>>, <<0, 0>>}}

-----------------------------------------------------------------------------
(* Lifetimes: reductions of columns, of rules and of aggregations, what is *)
(* outside them, and counts of top-N sums that read rules also read        *)
(* outside the count.                                                      *)
Counted == Over("count", In("x"))
Reducing ==
    {Program(<<"x", "c", "g">>, <<LinkOf(0, None)>>,
             [a |-> RuleOf(1, e), b |-> RuleOf(4, E("add", <<Counted, Param("p")>>)),
              m |-> RuleOf(1, E("div", <<In("c"), In("x")>>))], <<>>, outs) :
       e \in {E("add", <<Over("sum", In("x")), In("c")>>),
              E("div", <<Over("max", Rule("m")), E("add", <<In("g")>>)>>),
              E("add", <<Over("max", Fold("sum", 1, None, In("v"))), Param("q")>>),
              E("if", <<Under(In("c"), Lit(2)), Rule("b"), E("start", <<>>)>>),
              Top_N(In("x"), In("c")),
              Top_N(Rule("m"), Param("p")),
              E("add", <<Param("p"), Top_N(In("x"), E("add", <<Rule("b"), Param("q")>>))>>),
              E("add", <<Rule("b"), Top_N(In("x"), Rule("b")), Rule("b")>>),
              Top_N(In("x"), Top_N(In("c"), Counted)),
              E("add", <<Over("sum", Rule("b")), Fold("count", 1, None, None)>>)},
       outs \in {<<"a">>, <<"b", "a">>, <<"a", "m">>, <<"a", "z">>}}

Observed(x, c, g, offsets) ==
    [rows |-> Len(x), start |-> 0,
     columns |-> IF g THEN [x |-> x, c |-> c, g |-> c] ELSE [x |-> x, c |-> c],
     keys |-> [k |-> Key1(offsets, None, [v |-> [i \in 1..offsets[Len(offsets)] |-> i - 1]], <<>>)]]
Span(s, e) == [start |-> s, end |-> e, kind |-> "year"]
Lives ==
    {[batches |-> <<Observed(<<0, 2>>, <<1, 2>>, TRUE, <<0, 1, 3>>), Observed(<<1, 0>>, c, g, <<0, 2, 2>>)>>,
      spans |-> <<Span(s, 3), Span(4, 5)>>] : s \in {2, 4}, c \in {<<1, 2>>, <<1, 1>>, <<1>>}, g \in BOOLEAN}
    \cup {[batches |-> <<Observed(<<1, 1>>, <<1, 2>>, TRUE, <<0, 1, 1>>), Observed(<<0, 1>>, c, TRUE, <<0, 1, 1>>),
                         Observed(<<0, 0>>, <<1, 2>>, TRUE, <<0, 1, 2>>)>>,
           spans |-> <<Span(4, 4), Span(5, 6), Span(7, 9)>>] : c \in {<<1, 2>>, <<2, 2>>}}
    \cup {[batches |-> <<>>, spans |-> <<>>], [batches |-> <<>>, spans |-> <<Span(1, 2)>>]}

(* A plan whose law is that of day 4, over periods that end before it.     *)
Planned ==
    {[Program(<<"x", "c">>, <<>>, [a |-> RuleOf(4, e), b |-> RuleOf(1, In("c"))], <<>>, <<"a">>)
        EXCEPT !.law = d] :
       e \in {E("add", <<Over("sum", E("add", <<In("x"), Param("p")>>)), Param("q")>>),
              Top_N(Rule("b"), Param("p"))}, d \in {3, 4}}
Simple(x, keys) == [rows |-> 1, start |-> 0, columns |-> x, keys |-> keys]
Pasts ==
    {[batches |-> <<Simple([x |-> <<1>>, c |-> <<1>>], <<>>), Simple(second, k)>>,
      spans |-> <<Span(0, e), [Span(1, 3) EXCEPT !.kind = kind]>>] :
       e \in {0, 1}, kind \in {"year", "month"}, k \in {<<>>, [k |-> Key1(<<0, 0>>, None, <<>>, <<>>)]},
       second \in {[x |-> <<0>>, c |-> <<1>>], [x |-> <<0>>, d |-> <<1>>]}}

-----------------------------------------------------------------------------
Nothing == [rows |-> 0, start |-> 0, columns |-> <<>>, keys |-> <<>>]
Alone == [batches |-> <<>>, spans |-> <<>>]
Period(p, b) == program = p /\ batch = b /\ periods = Alone /\ surface = "period"
Life(p, l) ==
    /\ program = p /\ periods = l /\ surface = "lifetime"
    /\ batch = IF l.batches = <<>> THEN Nothing ELSE l.batches[1]

MCInit ==
    /\ \/ \E p \in Columns \cup Relational, b \in Batches : Period(p, b)
       \/ \E b \in Misshapen : Period(Shared, b)
       \/ \E p \in Reducing, l \in Lives : Life(p, l)
       \/ \E p \in Planned, l \in Pasts : Life(p, l)
       \/ Period([Shared EXCEPT !.outputs = <<"z">>], CHOOSE b \in Misshapen : TRUE)
    /\ threshold \in Thresholds
    /\ Init

Spec == MCInit /\ [][Next]_vars /\ WF_vars(Next)

-----------------------------------------------------------------------------
(* The batch as supplied, read without binding it.                         *)
Read(b, start) ==
    LET rows(seq) == [r \in b.rows + 1..b.rows + Len(seq) |-> seq[r - b.rows]]
        count == b.keys[program.relations[1].key].offsets[b.rows + 1]
        offsets == b.keys[program.relations[1].key].offsets
        owner(i) == CHOOSE r \in 1..b.rows : offsets[r] < i /\ i <= offsets[r + 1]
        cols == b.keys[program.relations[1].key].columns
        relational == program.relations # <<>>
    IN  [rows |-> b.rows, start |-> start, law |-> LawAt(start),
         owner |-> IF relational THEN rows([i \in 1..count |-> owner(i)]) ELSE NoErrors,
         root |-> [n \in Range(program.inputs) |->
                     IF n \in DOMAIN b.columns THEN b.columns[n] ELSE None],
         related |-> IF relational
                     THEN [n \in {"v", "w"} |-> IF n \in DOMAIN cols THEN rows(cols[n]) ELSE None]
                     ELSE <<>>]

(* What is executed is what was supplied.                                  *)
AsSupplied ==
    IF surface = "period" THEN current = Read(batch, batch.start)
    ELSE /\ Len(observed) = Len(periods.batches)
         /\ \A i \in 1..Len(observed) : observed[i] = Read(periods.batches[i], periods.spans[i].start)
         /\ current = observed[Len(observed)]

World(counting) ==
    IF surface = "period" THEN current
    ELSE [periods |-> observed, counting |-> counting, law |-> current.law, start |-> current.start]

Executing == verdict # "binding"
Says(world, kept, axis, e, rows) ==
    \A r \in rows :
        LET m == Meaning(world, axis, e, r)
        IN  /\ (r \in DOMAIN kept.errors) = (m.error # None)
            /\ m.error # None => kept.errors[r] = m.error
            /\ m.error = None => kept.column[r] = m.value

(* Every column kept, of a rule or of a body read at several sites, holds  *)
(* for each row computed the value or the error explain has for that row,  *)
(* whichever rows were asked first and whatever a deferral interrupted; a  *)
(* column of a top-N count's own context, where a parameter has no one     *)
(* period, is never taken for one kept outside it (`evaluate_scalar`,      *)
(* `evaluate_inline_scalar`, `cached_rows`, `eval_lifetime_top_n`).        *)
RulesExact(world, kept) ==
    \A r \in DOMAIN kept : kept[r] # None => Says(world, kept[r], "root", Rule(r), kept[r].computed)

ColumnsExact ==
    Executing /\ ret # None =>
      LET world == World(InContext)
      IN  /\ RulesExact(world, columns)
          /\ InContext => RulesExact(World(FALSE), outer.columns)
          /\ \A b \in 1..Len(shared) :
               shared[b] # None =>
                 Says(world, shared[b], "related", program.bodies[b].body, shared[b].computed)

(* The members kept for a relation are, for each root row among the        *)
(* candidates' owners, those explain finds one by one along the chain of   *)
(* filters, or the first failure it meets (`relation_members`).            *)
MembersExact ==
    Executing /\ surface = "period" =>
      LET world == World(FALSE)
      IN  \A i \in 1..Len(members) :
            members[i] # None =>
              \A row \in {world.owner[r] : r \in members[i].candidates} :
                LET m == Meaning(world, "root", Fold("count", i, None, None), row)
                    mine == {r \in members[i].members : world.owner[r] = row}
                IN  IF m.error # None
                    THEN row \in DOMAIN members[i].errors /\ members[i].errors[row] = m.error
                    ELSE row \notin DOMAIN members[i].errors /\ Cardinality(mine) = m.value

(* The outputs of a lifetime that may be asked for, over periods in order  *)
(* and, under a plan, wholly before its day.                               *)
Executable ==
    /\ Known
    /\ surface = "lifetime" =>
         /\ periods.spans # <<>> /\ Len(periods.spans) = Len(periods.batches)
         /\ \A i, j \in 1..Len(periods.spans) :
              /\ i < j => periods.spans[i].start < periods.spans[j].start
              /\ program.law # None =>
                   /\ periods.spans[i].end < program.law /\ periods.spans[i].kind = periods.spans[j].kind
                   /\ i < j => periods.spans[i].end < periods.spans[j].start
                   /\ DOMAIN periods.batches[i].keys = {}
                   /\ DOMAIN periods.batches[i].columns \subseteq Range(program.inputs)
              /\ periods.batches[i].rows = periods.batches[j].rows
         /\ \A r \in Range(program.outputs) : Reduces(program.rules[r].body)

Refusals == Misbound \cup {"unknown_output", "history", "no_periods", "periods_and_batches",
                           "not_ascending", "row_counts", "no_reduction"}
Answered == verdict \notin {None, "binding"} \/ phase \in Refusals

(* A batch, or a lifetime of batches, is answered with explain's values    *)
(* for every row and output, or with the error of the first row explain    *)
(* fails for, in the first of the outputs it fails in; never with a cycle, *)
(* which a compiled program has none of. The columns read are those the    *)
(* caller supplied, row for row. Only outputs of the program are answered, *)
(* over a lifetime only those that reduce over periods, for periods in     *)
(* order, with the same rows (`execute_with`, `execute_lifetime_with`,     *)
(* `first_row_error`).                                                     *)
AnswerExact ==
    /\ Executing => Executable
    /\ phase \in Refusals \ Misbound => ~Executable
    /\ Executing /\ stack = <<>> => AsSupplied
    /\ Executing /\ verdict # None =>
        LET world == World(FALSE)
            meaning(i, row) == Meaning(world, "root", Rule(program.outputs[i]), row)
            outputs == 1..Len(program.outputs)
            failing == {<<row, i>> \in Rows \X outputs : meaning(i, row).error # None}
            first == CHOOSE f \in failing :
                       \A g \in failing : f[1] < g[1] \/ (f[1] = g[1] /\ f[2] <= g[2])
        IN  IF failing = {}
            THEN /\ verdict = "answered"
                 /\ \A i \in outputs : Says(world, evaluated[i], "root", Rule(program.outputs[i]), Rows)
            ELSE verdict = meaning(first[2], first[1]).error

(* Every request is answered or refused, however deep its rules are.       *)
Responds == <>Answered
=============================================================================
