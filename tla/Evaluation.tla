----------------------------- MODULE Evaluation -----------------------------
(***************************************************************************)
(* What the explain engine promises its caller (src/src/engine.rs,         *)
(* `Engine::evaluate_scalar` and `Engine::evaluate_judgment`): each query  *)
(* is answered, and the answer is the meaning of the rule asked for, which *)
(* is a function of the program alone. Nothing here knows of evaluation    *)
(* order, caches, nesting levels or earlier queries.                       *)
(***************************************************************************)
EXTENDS Naturals, Sequences

CONSTANTS Programs,        \* the programs that may be loaded
          Queries,         \* the rules that may be asked for, with their kind
          Outcomes,        \* values and errors
          Meaning(_, _),   \* the outcome of a query under a program
          MaxQueries       \* bound: queries made of one engine

VARIABLES program,   \* the program the engine was created with
          asked,     \* the queries made so far, oldest first
          answers    \* the outcomes returned so far

vars == <<program, asked, answers>>

TypeOK ==
    /\ program \in Programs
    /\ asked \in Seq(Queries)
    /\ answers \in Seq(Outcomes)

Init ==
    /\ program \in Programs
    /\ asked = <<>>
    /\ answers = <<>>

Ask(k) ==
    /\ Len(asked) = Len(answers)
    /\ Len(asked) < MaxQueries
    /\ asked' = Append(asked, k)
    /\ UNCHANGED <<program, answers>>

Answer ==
    /\ Len(answers) < Len(asked)
    /\ answers' = Append(answers, Meaning(program, asked[Len(asked)]))
    /\ UNCHANGED <<program, asked>>

Next == Answer \/ \E k \in Queries : Ask(k)

Spec == Init /\ [][Next]_vars /\ WF_vars(Answer)

(* The part of Spec without liveness: a query that runs forever allows it. *)
SafeSpec == Init /\ [][Next]_vars
=============================================================================
