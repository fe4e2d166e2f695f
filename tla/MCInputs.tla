------------------------------- MODULE MCInputs -------------------------------
(***************************************************************************)
(* Small requests for Inputs: up to three records over three days in any   *)
(* order, two queries for two entities.                                    *)
(***************************************************************************)
EXTENDS Inputs

CONSTANT MaxRecords     \* bound: records of a dataset

Span(a, b) == [start |-> a, end |-> b]
Record(entity, span, value, owned) ==
    [of |-> entity, start |-> span.start, end |-> span.end, value |-> value, owned |-> owned]

Spans == {Span(1, 1), Span(1, 3), Span(2, 3), Span(3, 3)}
Records ==
    {Record(1, s, v, TRUE) : s \in Spans, v \in {1, 2}} \cup
    {Record(2, s, 3, TRUE) : s \in {Span(1, 3), Span(3, 3)}} \cup
    {Record(1, Span(3, 3), 1, FALSE)}

MCYear == Span(3, 3)

MCRequests ==
    [mode : Modes, read : ReadKinds, through : {"rule", "member"},
     periods : {<<p, q>> : p \in {Span(1, 1), Span(3, 3)}, q \in {Span(1, 1), Span(3, 3)}},
     data : UNION {[1..n -> Records] : n \in 0..MaxRecords}]
=============================================================================
