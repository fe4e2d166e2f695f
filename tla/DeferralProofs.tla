--------------------------- MODULE DeferralProofs ---------------------------
(***************************************************************************)
(* Theorems about Deferral for every program, threshold and sequence of    *)
(* queries.                                                                *)
(***************************************************************************)
EXTENDS Deferral, SequenceTheorems, TLAPS

(* What the assumptions say of one formula node.                           *)
LEMMA NodeFacts ==
    ASSUME NEW e \in Exprs
    PROVE  /\ WellFormed(e)
           /\ e.args \in Seq(Exprs)
           /\ Len(e.args) \in Nat
           /\ \A i \in 1..Len(e.args) : e.args[i] \in Exprs
           /\ Arity(e) \in Nat
           /\ e.op = "derived" => e.key \in Keys
           /\ e.op \in {"literal", "missing", "derived"} => Len(e.args) = 0
           /\ e.op \in {"no_match", "not"} => Len(e.args) = 1
           /\ e.op \in {"div", "compare"} => Len(e.args) = 2
           /\ e.op = "if" => Len(e.args) = 3
BY ProgramAssumption DEF WellFormed, Arity, Leaves

(* Operand values are a sequence no longer than the node's operands.       *)
LEMMA PartialFacts ==
    ASSUME NEW e \in Exprs, NEW vals \in Partial(e)
    PROVE  /\ vals \in Seq(Values)
           /\ Len(vals) \in 0..Arity(e)
           /\ \A i \in 1..Len(vals) : vals[i] \in Values
<1>1. PICK n \in 0..Arity(e) : vals \in [1..n -> Values]
  BY DEF Partial
<1>2. Arity(e) \in Nat
  BY NodeFacts
<1> QED BY <1>1, <1>2

LEMMA EmptyPartial ==
    ASSUME NEW e \in Exprs
    PROVE  <<>> \in Partial(e)
<1>1. Arity(e) \in Nat
  BY NodeFacts
<1>2. <<>> \in [1..0 -> Values]
  OBVIOUS
<1> QED BY <1>1, <1>2 DEF Partial

LEMMA AppendPartial ==
    ASSUME NEW e \in Exprs, NEW vals \in Partial(e), NEW v \in Values,
           Len(vals) < Arity(e)
    PROVE  Append(vals, v) \in Partial(e)
<1>1. vals \in Seq(Values) /\ Len(vals) \in Nat /\ Arity(e) \in Nat
  BY PartialFacts, NodeFacts
<1>2. Append(vals, v) \in [1..(Len(vals) + 1) -> Values]
  BY <1>1, AppendProperties, LenProperties
<1>3. Len(vals) + 1 \in 0..Arity(e)
  BY <1>1
<1> QED BY <1>2, <1>3 DEF Partial

(* A node that wants an operand has one, and room for its value.           *)
LEMMA WantsFacts ==
    ASSUME NEW e \in Exprs, NEW vals \in Partial(e), Wants(e, vals)
    PROVE  /\ e.op # "derived"
           /\ Operand(e, vals) \in Exprs
           /\ Len(vals) < Arity(e)
<1>1. /\ Len(vals) \in Nat /\ Len(e.args) \in Nat
      /\ e.op \in Leaves => Len(e.args) = 0
      /\ e.op = "div" => Len(e.args) = 2
      /\ e.op = "if" => Len(e.args) = 3
  BY NodeFacts, PartialFacts DEF Leaves
<1>2. CASE e.op = "div"
  <2>1. Len(vals) = 0 \/ Len(vals) = 1
    BY <1>2 DEF Wants
  <2>2. Len(e.args) = 2
    BY <1>1, <1>2
  <2>3. Position(e, vals) \in {1, 2}
    BY <2>1, <1>2 DEF Position
  <2>4. e.args[1] \in Exprs /\ e.args[2] \in Exprs
    BY <2>2, NodeFacts
  <2>5. Len(vals) < Len(e.args)
    BY <2>1, <2>2
  <2> QED BY <2>3, <2>4, <2>5, <1>2 DEF Operand, Arity
<1>3. CASE e.op = "if"
  <2>1. Len(vals) = 0 \/ Len(vals) = 1
    BY <1>3 DEF Wants
  <2>2. Len(e.args) = 3
    BY <1>1, <1>3
  <2>3. Position(e, vals) \in {1, 2, 3}
    BY <1>3 DEF Position
  <2>4. e.args[1] \in Exprs /\ e.args[2] \in Exprs /\ e.args[3] \in Exprs
    BY <2>2, NodeFacts
  <2>5. Len(vals) < Len(e.args)
    BY <2>1, <2>2
  <2> QED BY <2>3, <2>4, <2>5, <1>3 DEF Operand, Arity
<1>4. CASE e.op \notin {"div", "if"}
  <2>1. e.op \notin Leaves /\ Len(vals) < Len(e.args)
    BY <1>1, <1>4 DEF Wants, Leaves
  <2>2. Position(e, vals) = Len(vals) + 1
    BY <1>4 DEF Position
  <2>3. Position(e, vals) \in 1..Len(e.args)
    BY <1>1, <2>1, <2>2
  <2> QED BY <2>1, <2>3, NodeFacts DEF Operand, Arity, Leaves
<1> QED BY <1>2, <1>3, <1>4

(* A node that wants no more operands finishes with a value or an error.   *)
LEMMA FinishType ==
    ASSUME NEW e \in Exprs, NEW vals \in Partial(e), ~Wants(e, vals),
           ~(e.op = "derived" /\ vals = <<>>)
    PROVE  Finish(e, vals) \in Outcomes
<1>1. /\ WellFormed(e) /\ Len(vals) \in 0..Arity(e) /\ vals \in Seq(Values)
      /\ \A i \in 1..Len(vals) : vals[i] \in Values
  BY NodeFacts, PartialFacts
<1>2. \A n : Checked(n) \in Outcomes
  BY DEF Checked, Outcomes
<1>3. \A b : Ok(Truth(b)) \in Outcomes
  BY MaxDecimalAssumption DEF Outcomes, Truth, Holds, NotHolds, Values
<1>4. \A v \in Values : Ok(v) \in Outcomes
  BY DEF Outcomes
<1>5. \A x \in {"missing_input", "division_by_zero", "type_mismatch", "no_matching_arm"} :
         Err(x) \in Outcomes
  BY DEF Outcomes
<1>6. CASE e.op = "literal"
  BY <1>1, <1>4, <1>6 DEF Finish, WellFormed
<1>7. CASE e.op = "missing"
  BY <1>5, <1>7 DEF Finish
<1>8. CASE e.op = "derived"
  <2>1. Len(vals) = 1
    BY <1>1, <1>8 DEF Arity
  <2> QED BY <2>1, <1>1, <1>4, <1>8 DEF Finish
<1>9. CASE e.op = "add"
  BY <1>2, <1>9 DEF Finish
<1>10. CASE e.op = "div"
  BY <1>2, <1>5, <1>10 DEF Finish
<1>11. CASE e.op = "max"
  BY <1>4, <1>5, <1>11 DEF Finish
<1>12. CASE e.op = "if"
  <2>1. Arity(e) = 3
    BY <1>1, <1>12 DEF Arity, WellFormed
  <2>2. Len(vals) \in 0..3 /\ Len(vals) # 0 /\ Len(vals) # 1
    BY <2>1, <1>1, <1>12 DEF Wants
  <2> QED BY <2>2, <1>1, <1>4, <1>12 DEF Finish
<1>13. CASE e.op = "no_match"
  BY <1>5, <1>13 DEF Finish
<1>14. CASE e.op \in {"compare", "and", "or", "not"}
  BY <1>3, <1>14 DEF Finish
<1> QED BY <1>1, <1>6, <1>7, <1>8, <1>9, <1>10, <1>11, <1>12, <1>13, <1>14
        DEF WellFormed, Ops, Leaves

(* An outcome is a value or an error.                                      *)
LEMMA OutcomeCases ==
    ASSUME NEW o \in Outcomes
    PROVE  \/ o.ok = TRUE /\ o.val \in Values /\ o = Ok(o.val)
           \/ o.ok = FALSE
BY DEF Outcomes, Ok, Err

-----------------------------------------------------------------------------
(* What the reference says of one node and of one rule.                    *)
LEMMA RestRead ==
    ASSUME NEW p \in Programs, NEW e \in Exprs, e.op = "derived"
    PROVE  Rest(p, e, <<>>) = Meaning(p, e.key)
BY EmptyPartial, ReferenceAssumption

LEMMA RestWants ==
    ASSUME NEW p \in Programs, NEW e \in Exprs, NEW vals \in Partial(e),
           Wants(e, vals)
    PROVE  /\ Rest(p, Operand(e, vals), <<>>).ok
                 => Rest(p, e, vals)
                      = Rest(p, e, Append(vals, Rest(p, Operand(e, vals), <<>>).val))
           /\ ~Rest(p, Operand(e, vals), <<>>).ok
                 => Rest(p, e, vals) = Rest(p, Operand(e, vals), <<>>)
<1>1. e.op # "derived"
  BY WantsFacts
<1>2. Rest(p, e, vals) =
         LET o == Rest(p, Operand(e, vals), <<>>)
         IN  IF o.ok THEN Rest(p, e, Append(vals, o.val)) ELSE o
  BY <1>1, ReferenceAssumption
<1> QED BY <1>2

LEMMA RestFinish ==
    ASSUME NEW p \in Programs, NEW e \in Exprs, NEW vals \in Partial(e),
           ~Wants(e, vals), ~(e.op = "derived" /\ vals = <<>>)
    PROVE  Rest(p, e, vals) = Finish(e, vals)
BY ReferenceAssumption

LEMMA MeaningRule ==
    ASSUME NEW p \in Programs, NEW k \in Keys
    PROVE  /\ Refusal(p, k) # "none" => Meaning(p, k) = Err(Refusal(p, k))
           /\ Refusal(p, k) = "none" =>
                LET o == Rest(p, Body(p, k.rule), <<>>)
                IN  /\ o.ok => Meaning(p, k) = Ok(Rounded(p, k, o.val))
                    /\ ~o.ok => Meaning(p, k) = o
BY ReferenceAssumption

LEMMA BodyType ==
    ASSUME NEW p \in Programs, NEW k \in Keys
    PROVE  Body(p, k.rule) \in Exprs
BY ProgramAssumption DEF Keys

LEMMA RoundedType ==
    ASSUME NEW p, NEW k, NEW v \in Values
    PROVE  Rounded(p, k, v) \in Values
BY MaxDecimalAssumption DEF Rounded, Values

LEMMA RefusalType ==
    ASSUME NEW p \in Programs, NEW k \in Keys, Refusal(p, k) # "none"
    PROVE  Err(Refusal(p, k)) \in Outcomes
BY ProgramAssumption DEF Refusal, Outcomes, Statuses, Keys

-----------------------------------------------------------------------------
(* What the invariant says of the innermost frame.                         *)
LEMMA TopFacts ==
    ASSUME Inductive, stack # <<>>
    PROVE  /\ program \in Programs
           /\ Running
           /\ Len(stack) \in Nat \ {0}
           /\ Top \in FrameType
           /\ Top.key \in Keys /\ Top.expr \in Exprs
           /\ Top.vals \in Partial(Top.expr)
           /\ Rest(program, Top.expr, Top.vals) = Rest(program, Top.expr, <<>>)
           /\ Surfaces(Rest(program, Top.expr, <<>>))
           /\ Top.body => Top.expr = Body(program, Top.key.rule)
                          /\ Refusal(program, Top.key) = "none"
<1>1. program \in Programs /\ Running /\ stack \in Seq(FrameType)
  BY DEF Inductive, TypeOK, StackSound
<1>2. Len(stack) \in Nat \ {0} /\ Len(stack) \in 1..Len(stack)
  BY <1>1
<1>3. Top \in FrameType /\ FrameSound(Top) /\ Surfaces(Rest(program, Top.expr, <<>>))
  BY <1>1, <1>2 DEF Top, Inductive, StackSound
<1> QED BY <1>1, <1>2, <1>3 DEF FrameType, FrameSound

(* While a query runs, it is the last one asked and the only unanswered.   *)
LEMMA RunningFacts ==
    ASSUME Inductive, Running
    PROVE  /\ asked \in Seq(Keys) /\ answers \in Seq(Outcomes)
           /\ Len(asked) \in Nat \ {0}
           /\ Len(answers) = Len(asked) - 1
           /\ Root \in Keys
           /\ Goal \in Keys
           /\ Surfaces(Meaning(program, Goal))
<1>1. /\ asked \in Seq(Keys) /\ answers \in Seq(Outcomes) /\ tasks \in Seq(Keys)
      /\ Len(answers) \in {Len(asked), Len(asked) - 1}
  BY DEF Inductive, TypeOK, QueriesSound
<1>2. Len(asked) \in Nat /\ Len(answers) \in Nat /\ Len(answers) < Len(asked)
  BY <1>1 DEF Running
<1>3. Len(asked) \in Nat \ {0} /\ Len(answers) = Len(asked) - 1
  BY <1>1, <1>2
<1>4. Root \in Keys
  BY <1>1, <1>3 DEF Root
<1>5. Goal \in Keys /\ Surfaces(Meaning(program, Goal))
  <2>1. CASE tasks = <<>>
    BY <2>1, <1>4 DEF Goal, Surfaces
  <2>2. CASE tasks # <<>>
    <3>1. Len(tasks) \in 1..Len(tasks) /\ Goal = tasks[Len(tasks)]
      BY <2>2, <1>1 DEF Goal
    <3> QED BY <3>1, <1>1 DEF Inductive, TasksSound
  <2> QED BY <2>1, <2>2
<1> QED BY <1>1, <1>3, <1>4, <1>5

LEMMA PopFacts ==
    ASSUME NEW S, NEW s \in Seq(S), Len(s) > 0
    PROVE  /\ Pop(s) \in Seq(S)
           /\ Len(Pop(s)) = Len(s) - 1
           /\ \A i \in 1..(Len(s) - 1) : i \in 1..Len(s) /\ Pop(s)[i] = s[i]
<1>1. /\ Len(s) \in Nat
      /\ \A i \in 1..(Len(s) - 1) : s[i] \in S
  OBVIOUS
<1>2. /\ SubSeq(s, 1, Len(s) - 1) \in Seq(S)
      /\ Len(SubSeq(s, 1, Len(s) - 1)) =
           IF 1 <= Len(s) - 1 THEN (Len(s) - 1) - 1 + 1 ELSE 0
      /\ \A i \in 1..((Len(s) - 1) - 1 + 1) : SubSeq(s, 1, Len(s) - 1)[i] = s[1 + i - 1]
  BY <1>1, SubSeqProperties
<1>3. Pop(s) \in Seq(S)
  BY <1>2 DEF Pop
<1>4. Len(Pop(s)) = Len(s) - 1
  <2>1. CASE Len(s) = 1
    BY <2>1, <1>2 DEF Pop
  <2>2. CASE Len(s) > 1
    <3>1. \A n \in Nat : n > 1 => 1 <= n - 1 /\ (n - 1) - 1 + 1 = n - 1
      OBVIOUS
    <3>2. 1 <= Len(s) - 1 /\ (Len(s) - 1) - 1 + 1 = Len(s) - 1
      BY <2>2, <3>1, <1>1
    <3>3. Len(SubSeq(s, 1, Len(s) - 1)) = (Len(s) - 1) - 1 + 1
      BY <1>2, <3>2, Zenon
    <3>4. Len(SubSeq(s, 1, Len(s) - 1)) = Len(s) - 1
      BY <3>2, <3>3
    <3> QED BY <3>4, Zenon DEF Pop
  <2>3. \A n \in Nat : n > 0 => n = 1 \/ n > 1
    OBVIOUS
  <2>4. Len(s) = 1 \/ Len(s) > 1
    BY <1>1, <2>3
  <2> QED BY <2>1, <2>2, <2>4, Zenon
<1>5. ASSUME NEW i \in 1..(Len(s) - 1)
      PROVE  i \in 1..Len(s) /\ Pop(s)[i] = s[i]
  <2>1. i \in Int /\ i \in 1..((Len(s) - 1) - 1 + 1) /\ 1 + i - 1 = i
    BY <1>1
  <2>2. SubSeq(s, 1, Len(s) - 1)[i] = s[1 + i - 1]
    BY <1>2, <2>1
  <2> QED BY <1>1, <2>1, <2>2 DEF Pop
<1> QED BY <1>3, <1>4, <1>5

(* Ending the query with its meaning, or with a reported cycle.            *)
LEMMA FinishedStep ==
    ASSUME Inductive, Running,
           NEW o \in Outcomes, o \in {Meaning(program, Root), Endless},
           Finished(o), program' = program, asked' = asked
    PROVE  /\ stack' \in Seq(FrameType) /\ tasks' \in Seq(Keys)
           /\ waiting' \in SUBSET Keys /\ answers' \in Seq(Outcomes)
           /\ StackSound' /\ TasksSound' /\ QueriesSound' /\ AnswersOrCycle'
<1>1. /\ answers' = Append(answers, o)
      /\ stack' = <<>> /\ tasks' = <<>> /\ waiting' = {}
  BY DEF Finished
<1>2. /\ answers \in Seq(Outcomes) /\ Len(asked) \in Nat \ {0}
      /\ Len(answers) = Len(asked) - 1
  BY RunningFacts
<1>3. answers' \in Seq(Outcomes) /\ Len(answers') = Len(asked)
  BY <1>1, <1>2
<1>4. AnswersOrCycle'
  <2>1. SUFFICES ASSUME NEW i \in 1..Len(answers')
                 PROVE  answers'[i] \in {Meaning(program, asked[i]), Endless}
    BY DEF AnswersOrCycle
  <2>2. CASE i = Len(asked)
    <3>1. answers'[i] = o
      BY <1>1, <1>2, <2>2
    <3> QED BY <3>1, <2>2 DEF Root
  <2>3. CASE i # Len(asked)
    <3>1. i \in 1..Len(answers) /\ answers'[i] = answers[i]
      BY <1>1, <1>2, <1>3, <2>3
    <3> QED BY <3>1 DEF Inductive, AnswersOrCycle
  <2> QED BY <2>2, <2>3
<1>5. StackSound' /\ TasksSound'
  BY <1>1 DEF StackSound, TasksSound
<1> QED BY <1>1, <1>3, <1>4, <1>5 DEF QueriesSound

(* Completing a task or the query with the value it was asked for.         *)
LEMMA CompleteGoalStep ==
    ASSUME Inductive, Running, NEW v \in Values, Meaning(program, Goal) = Ok(v),
           CompleteGoal(v), program' = program, asked' = asked
    PROVE  /\ stack' \in Seq(FrameType) /\ tasks' \in Seq(Keys)
           /\ waiting' \in SUBSET Keys /\ answers' \in Seq(Outcomes)
           /\ StackSound' /\ TasksSound' /\ QueriesSound' /\ AnswersOrCycle'
<1>1. CASE tasks = <<>>
  <2>1. Finished(Ok(v)) /\ Ok(v) \in Outcomes /\ Ok(v) = Meaning(program, Root)
    BY <1>1 DEF CompleteGoal, Outcomes, Goal
  <2> QED BY <2>1, FinishedStep
<1>2. CASE tasks # <<>>
  <2>1. /\ stack' = <<>> /\ tasks' = Pop(tasks)
        /\ waiting' = waiting \ {Goal} /\ answers' = answers
    BY <1>2 DEF CompleteGoal
  <2>2. tasks \in Seq(Keys) /\ waiting \in SUBSET Keys /\ answers \in Seq(Outcomes)
    BY DEF Inductive, TypeOK
  <2>3. Len(tasks) \in Nat /\ Len(tasks) > 0
    BY <1>2, <2>2
  <2>4. /\ tasks' \in Seq(Keys) /\ Len(tasks') = Len(tasks) - 1
        /\ \A i \in 1..Len(tasks') : i \in 1..Len(tasks) /\ tasks'[i] = tasks[i]
    BY <2>1, <2>2, <2>3, PopFacts
  <2>5. TasksSound'
    BY <2>1, <2>4 DEF TasksSound, Inductive, Surfaces, Root, Running
  <2>6. StackSound' /\ QueriesSound' /\ AnswersOrCycle'
    BY <2>1 DEF StackSound, Inductive, QueriesSound, AnswersOrCycle
  <2> QED BY <2>1, <2>2, <2>4, <2>5, <2>6
<1> QED BY <1>1, <1>2

(* A new innermost frame, at the node or rule the frame below asks for.    *)
LEMMA PushStep ==
    ASSUME Inductive, stack # <<>>, NEW f \in FrameType,
           f.vals = <<>>, Surfaces(Rest(program, f.expr, <<>>)), Follows(f, Top),
           f.body => f.expr = Body(program, f.key.rule) /\ Refusal(program, f.key) = "none",
           stack' = Append(stack, f),
           UNCHANGED <<program, tasks, asked, answers>>
    PROVE  stack' \in Seq(FrameType) /\ StackSound'
<1>1. stack \in Seq(FrameType) /\ Len(stack) \in Nat \ {0}
  BY TopFacts DEF Inductive, TypeOK
<1>2. /\ stack' \in Seq(FrameType) /\ Len(stack') = Len(stack) + 1
      /\ \A i \in 1..Len(stack) : stack'[i] = stack[i]
      /\ stack'[Len(stack) + 1] = f
  BY <1>1, AppendProperties
<1>3. stack'[1] = stack[1] /\ stack[1].body /\ stack[1].key = Goal /\ Running
  BY <1>1, <1>2 DEF Inductive, StackSound
<1>4. Running' /\ Goal' = Goal /\ \A o : Surfaces(o)' <=> Surfaces(o)
  BY <1>3 DEF Running, Goal, Root, Surfaces
<1>5. ASSUME NEW i \in 1..Len(stack')
      PROVE  FrameSound(stack[i])' /\ Surfaces(Rest(program, stack[i].expr, <<>>))'
  <2>1. CASE i \in 1..Len(stack)
    BY <2>1, <1>2, <1>4 DEF Inductive, StackSound, FrameSound, Surfaces
  <2>2. CASE i = Len(stack) + 1
    <3>1. f.vals \in Partial(f.expr)
      BY EmptyPartial DEF FrameType
    <3> QED BY <2>2, <3>1, <1>2, <1>4 DEF FrameSound, Surfaces
  <2> QED BY <1>1, <1>2, <2>1, <2>2
<1>6. ASSUME NEW i \in 1..(Len(stack') - 1)
      PROVE  Follows(stack[i+1], stack[i])'
  <2>1. CASE i \in 1..(Len(stack) - 1)
    <3>1. i \in 1..Len(stack) /\ i + 1 \in 1..Len(stack)
      BY <1>1, <2>1
    <3> QED BY <3>1, <2>1, <1>2 DEF Inductive, StackSound
  <2>2. CASE i = Len(stack)
    BY <2>2, <1>1, <1>2 DEF Top
  <2> QED BY <1>1, <1>2, <2>1, <2>2
<1> QED BY <1>2, <1>3, <1>4, <1>5, <1>6 DEF StackSound, Follows

(* A stack cut back to its frame n, which is given operand values.         *)
CutBack(s, n, vals) == [SubSeq(s, 1, n) EXCEPT ![n].vals = vals]

LEMMA FillElements ==
    ASSUME NEW s \in Seq(FrameType), NEW n \in 1..Len(s), NEW vals \in Seq(Values), NEW t,
           t = CutBack(s, n, vals)
    PROVE  /\ t \in Seq(FrameType) /\ Len(t) = n /\ n \in Nat
           /\ t[n].vals = vals /\ t[n].key = s[n].key
           /\ t[n].expr = s[n].expr /\ t[n].body = s[n].body
           /\ \A i \in 1..n : i # n => t[i] = s[i]
<1>1. Len(s) \in Nat /\ n \in Nat /\ n >= 1
  OBVIOUS
<1>2. /\ SubSeq(s, 1, n) \in Seq(FrameType) /\ Len(SubSeq(s, 1, n)) = n
      /\ \A i \in 1..n : SubSeq(s, 1, n)[i] = s[i]
  <2>1. \A i \in 1..n : s[i] \in FrameType
    BY <1>1
  <2>2. /\ SubSeq(s, 1, n) \in Seq(FrameType)
        /\ Len(SubSeq(s, 1, n)) = IF 1 <= n THEN n - 1 + 1 ELSE 0
        /\ \A i \in 1..(n - 1 + 1) : SubSeq(s, 1, n)[i] = s[1 + i - 1]
    BY <1>1, <2>1, SubSeqProperties
  <2>3. ASSUME NEW i \in 1..n
        PROVE  SubSeq(s, 1, n)[i] = s[i]
    <3>1. i \in 1..(n - 1 + 1) /\ 1 + i - 1 = i
      BY <1>1
    <3> QED BY <2>2, <3>1
  <2> QED BY <1>1, <2>2, <2>3
<1> DEFINE g == [s[n] EXCEPT !.vals = vals]
<1>3. s[n] \in FrameType
  BY <1>1, ElementOfSeq
<1>4. /\ g \in FrameType /\ g.vals = vals /\ g.key = s[n].key
      /\ g.expr = s[n].expr /\ g.body = s[n].body
  BY <1>3 DEF FrameType
<1> DEFINE u == SubSeq(s, 1, n)
<1>5. u \in Seq(FrameType) /\ n \in 1..Len(u) /\ Len(u) = n /\ u[n] = s[n]
  BY <1>1, <1>2
<1>6. t = [u EXCEPT ![n] = g]
  BY <1>5, Zenon DEF CutBack
<1> HIDE DEF g, u
<1>7. /\ [u EXCEPT ![n] = g] \in Seq(FrameType)
      /\ Len([u EXCEPT ![n] = g]) = Len(u)
      /\ \A j \in 1..Len(u) : [u EXCEPT ![n] = g][j] = IF j = n THEN g ELSE u[j]
  BY <1>4, <1>5, ExceptSeq, SMTT(30)
<1>8. /\ t \in Seq(FrameType) /\ Len(t) = n
      /\ \A j \in 1..n : t[j] = IF j = n THEN g ELSE u[j]
  BY <1>5, <1>6, <1>7
<1>9. t[n] = g
  BY <1>5, <1>8
<1> QED BY <1>1, <1>2, <1>4, <1>8, <1>9 DEF g, u

(* The frames above frame n are gone and n has the operand values `vals`.  *)
LEMMA FillStep ==
    ASSUME Inductive, NEW n \in 1..Len(stack), NEW vals \in Partial(stack[n].expr),
           Rest(program, stack[n].expr, vals) = Rest(program, stack[n].expr, <<>>),
           stack' = [SubSeq(stack, 1, n) EXCEPT ![n].vals = vals],
           UNCHANGED <<program, tasks, asked, answers>>
    PROVE  stack' \in Seq(FrameType) /\ StackSound'
<1>1. stack \in Seq(FrameType) /\ Len(stack) \in Nat /\ n \in Nat /\ n >= 1
  BY DEF Inductive, TypeOK
<1>2. vals \in Seq(Values)
  <2>1. stack[n] \in FrameType
    BY <1>1, ElementOfSeq
  <2>2. stack[n].expr \in Exprs
    BY <2>1 DEF FrameType
  <2> QED BY <2>1, <2>2, PartialFacts
<1>3. PICK t : t = CutBack(stack, n, vals)
  OBVIOUS
<1>4. PICK g : g = t[n]
  OBVIOUS
<1>5. /\ stack' \in Seq(FrameType) /\ Len(stack') = n /\ stack'[n] = g
      /\ g.vals = vals /\ g.key = stack[n].key
      /\ g.expr = stack[n].expr /\ g.body = stack[n].body
      /\ \A i \in 1..n : i # n => stack'[i] = stack[i]
  <2>1. stack' = t
    BY <1>3, Zenon DEF CutBack
  <2>2. /\ t \in Seq(FrameType) /\ Len(t) = n
        /\ t[n].vals = vals /\ t[n].key = stack[n].key
        /\ t[n].expr = stack[n].expr /\ t[n].body = stack[n].body
        /\ \A i \in 1..n : i # n => t[i] = stack[i]
    BY <1>1, <1>2, <1>3, FillElements
  <2> QED BY <2>1, <2>2, <1>4
<1>6. Running' /\ Goal' = Goal /\ stack'[1].body /\ stack'[1].key = Goal
  <2>1. Running /\ stack[1].body /\ stack[1].key = Goal
    BY <1>1 DEF Inductive, StackSound
  <2>2. Running' /\ Goal' = Goal
    BY <2>1 DEF Running, Goal, Root
  <2>3. stack'[1].body = stack[1].body /\ stack'[1].key = stack[1].key
    <3>1. CASE n = 1
      BY <3>1, <1>4, <1>5
    <3>2. ASSUME n # 1
          PROVE  stack'[1] = stack[1]
      <4>1. n \in Nat /\ 1 \in 1..n
        BY <1>1
      <4> QED BY <4>1, <3>2, <1>5
    <3> QED BY <3>1, <3>2
  <2> QED BY <2>1, <2>2, <2>3
<1>7. ASSUME NEW i \in 1..n
      PROVE  FrameSound(stack[i])' /\ Surfaces(Rest(program, stack[i].expr, <<>>))'
  <2>1. i \in 1..Len(stack) /\ FrameSound(stack[i]) /\ Surfaces(Rest(program, stack[i].expr, <<>>))
    <3>1. i \in 1..Len(stack)
      BY <1>1
    <3>2. \A j \in 1..Len(stack) :
              FrameSound(stack[j]) /\ Surfaces(Rest(program, stack[j].expr, <<>>))
      BY DEF Inductive, StackSound
    <3> QED BY <3>1, <3>2
  <2>2. CASE i = n
    BY <2>1, <2>2, <1>4, <1>5 DEF FrameSound, Surfaces, Root
  <2>3. CASE i # n
    BY <2>1, <2>3, <1>5 DEF FrameSound, Surfaces, Root
  <2> QED BY <2>2, <2>3
<1>8. ASSUME NEW i \in 1..(n - 1)
      PROVE  Follows(stack[i+1], stack[i])'
  <2>1. /\ i \in 1..n /\ i # n /\ i + 1 \in 1..n /\ i \in 1..(Len(stack) - 1)
    BY <1>1
  <2>2. Follows(stack[i+1], stack[i])
    BY <2>1 DEF Inductive, StackSound
  <2>3. stack'[i] = stack[i]
    BY <2>1, <1>5
  <2>4. CASE i + 1 = n
    BY <2>2, <2>3, <2>4, <1>4, <1>5 DEF Follows
  <2>5. CASE i + 1 # n
    BY <2>1, <2>2, <2>3, <2>5, <1>5
  <2> QED BY <2>4, <2>5
<1> QED BY <1>5, <1>6, <1>7, <1>8 DEF StackSound, Follows

-----------------------------------------------------------------------------
(* The caches and the trace keep their types.                              *)
TraceTyped(t) ==
    /\ DOMAIN t \subseteq Rules
    /\ \A r \in DOMAIN t : t[r] \in [deps : Seq(Rules), skipped : SUBSET Exprs]

LEMMA OpenedTyped ==
    ASSUME NEW t, TraceTyped(t), NEW r \in Rules
    PROVE  TraceTyped(Opened(t, r))
<1>1. EmptyTrace \in [deps : Seq(Rules), skipped : SUBSET Exprs]
  BY DEF EmptyTrace
<1> QED BY <1>1 DEF TraceTyped, Opened, Insert

LEMMA RecordReadTyped ==
    ASSUME NEW t, TraceTyped(t), NEW r, NEW read \in Rules
    PROVE  TraceTyped(RecordRead(t, r, read))
<1> DEFINE u == [t EXCEPT ![r].deps = Append(@, read)]
<1>1. DOMAIN u = DOMAIN t
  OBVIOUS
<1>2. ASSUME NEW x \in DOMAIN t
      PROVE  u[x] \in [deps : Seq(Rules), skipped : SUBSET Exprs]
  <2>1. t[x] \in [deps : Seq(Rules), skipped : SUBSET Exprs]
    BY DEF TraceTyped
  <2>2. Append(t[x].deps, read) \in Seq(Rules)
    BY <2>1
  <2>3. u[x] = IF x = r THEN [t[x] EXCEPT !.deps = Append(@, read)] ELSE t[x]
    OBVIOUS
  <2> QED BY <2>1, <2>2, <2>3
<1>3. TraceTyped(u)
  BY <1>1, <1>2 DEF TraceTyped
<1> QED BY <1>3 DEF RecordRead

LEMMA SkippedType ==
    ASSUME NEW e \in Exprs, NEW vals \in Partial(e)
    PROVE  Skipped(e, vals) \subseteq Exprs
<1>1. CASE e.op = "if"
  <2>1. e.args[2] \in Exprs /\ e.args[3] \in Exprs
    BY <1>1, NodeFacts
  <2> QED BY <1>1, <2>1 DEF Skipped
<1>2. CASE e.op # "if"
  <2>1. Len(vals) \in Nat /\ Len(e.args) \in Nat
    BY NodeFacts, PartialFacts
  <2>2. \A i \in (Len(vals) + 1)..Len(e.args) : e.args[i] \in Exprs
    BY <2>1, NodeFacts
  <2> QED BY <1>2, <2>2 DEF Skipped
<1> QED BY <1>1, <1>2

LEMMA RecordSkippedTyped ==
    ASSUME NEW t, TraceTyped(t), NEW r, NEW e \in Exprs, NEW vals \in Partial(e)
    PROVE  TraceTyped(RecordSkipped(t, r, e, vals))
<1> DEFINE more == Skipped(e, vals)
           u == [t EXCEPT ![r].skipped = @ \cup more]
<1>1. more \subseteq Exprs
  BY SkippedType
<1> HIDE DEF more
<1>2. DOMAIN u = DOMAIN t
  OBVIOUS
<1>3. ASSUME NEW x \in DOMAIN t
      PROVE  u[x] \in [deps : Seq(Rules), skipped : SUBSET Exprs]
  <2>1. t[x] \in [deps : Seq(Rules), skipped : SUBSET Exprs]
    BY DEF TraceTyped
  <2>2. u[x] = IF x = r THEN [t[x] EXCEPT !.skipped = @ \cup more] ELSE t[x]
    OBVIOUS
  <2> QED BY <2>1, <2>2, <1>1
<1> QED BY <1>2, <1>3 DEF TraceTyped, RecordSkipped, more

(* What the invariant says of the rule being read.                         *)
LEMMA ReadFacts ==
    ASSUME Inductive, Reading
    PROVE  /\ Read \in Keys /\ Read.rule \in Rules
           /\ Rest(program, Top.expr, <<>>) = Meaning(program, Read)
           /\ Surfaces(Meaning(program, Read))
           /\ TraceTyped(ReadRecorded)
<1>1. /\ stack # <<>> /\ program \in Programs /\ Top.expr \in Exprs
      /\ Surfaces(Rest(program, Top.expr, <<>>))
      /\ Top.expr.op = "derived"
  BY TopFacts DEF Reading
<1>2. Read \in Keys /\ Rest(program, Top.expr, <<>>) = Meaning(program, Read)
  BY <1>1, NodeFacts, RestRead DEF Read
<1>3. Read.rule \in Rules
  BY <1>2 DEF Keys
<1>4. TraceTyped(trace)
  BY DEF Inductive, TypeOK, TraceTyped
<1>5. TraceTyped(ReadRecorded)
  BY <1>3, <1>4, RecordReadTyped DEF ReadRecorded
<1> QED BY <1>1, <1>2, <1>3, <1>5

-----------------------------------------------------------------------------
(* One lemma per action.                                                   *)
LEMMA AskStep ==
    ASSUME Inductive, NEW k \in Keys, Ask(k)
    PROVE  Inductive'
<1>1. /\ ~Running /\ asked' = Append(asked, k)
      /\ UNCHANGED <<program, suspend_depth, cache, pre_rounding, trace>>
      /\ UNCHANGED <<stack, tasks, waiting, answers>>
  BY DEF Ask, state, driver
<1>2. /\ asked \in Seq(Keys) /\ answers \in Seq(Outcomes)
      /\ Len(answers) \in {Len(asked), Len(asked) - 1}
  BY DEF Inductive, TypeOK, QueriesSound
<1>3. Len(asked) \in Nat /\ Len(answers) = Len(asked)
  BY <1>1, <1>2 DEF Running
<1>4. /\ asked' \in Seq(Keys) /\ Len(asked') = Len(asked) + 1
      /\ \A i \in 1..Len(asked) : asked'[i] = asked[i]
  BY <1>1, <1>2, AppendProperties
<1>5. stack = <<>> /\ tasks = <<>>
  BY <1>1 DEF Inductive, StackSound, TasksSound
<1>6. TypeOK'
  BY <1>1, <1>4 DEF Inductive, TypeOK
<1>7. CacheSound'
  BY <1>1 DEF Inductive, CacheSound
<1>8. StackSound' /\ TasksSound'
  BY <1>1, <1>5 DEF StackSound, TasksSound
<1>9. QueriesSound'
  BY <1>1, <1>3, <1>4 DEF QueriesSound
<1>10. AnswersOrCycle'
  BY <1>1, <1>3, <1>4 DEF Inductive, AnswersOrCycle
<1> QED BY <1>6, <1>7, <1>8, <1>9, <1>10 DEF Inductive

(* A step that leaves the values alone and whose driver part is sound.     *)
LEMMA Assemble ==
    ASSUME Inductive, TraceTyped(trace'),
           UNCHANGED <<program, suspend_depth, cache, pre_rounding, asked>>,
           stack' \in Seq(FrameType), tasks' \in Seq(Keys),
           waiting' \in SUBSET Keys, answers' \in Seq(Outcomes),
           StackSound', TasksSound', QueriesSound', AnswersOrCycle'
    PROVE  Inductive'
<1>1. TypeOK'
  BY DEF Inductive, TypeOK, TraceTyped
<1>2. CacheSound'
  BY DEF Inductive, CacheSound
<1> QED BY <1>1, <1>2 DEF Inductive

(* The driver keeps its soundness when only the stack changes.             *)
LEMMA DriverUnchanged ==
    ASSUME Inductive, UNCHANGED <<program, tasks, waiting, asked, answers>>
    PROVE  /\ tasks' \in Seq(Keys) /\ waiting' \in SUBSET Keys
           /\ answers' \in Seq(Outcomes)
           /\ TasksSound' /\ QueriesSound' /\ AnswersOrCycle'
<1>1. TasksSound'
  BY DEF Inductive, TasksSound, Running, Surfaces, Root
<1>2. QueriesSound' /\ AnswersOrCycle'
  BY DEF Inductive, QueriesSound, AnswersOrCycle
<1> QED BY <1>1, <1>2 DEF Inductive, TypeOK

LEMMA AttemptCachedStep ==
    ASSUME Inductive, AttemptCached
    PROVE  Inductive'
<1>1. /\ Running /\ Goal \in DOMAIN cache /\ CompleteGoal(cache[Goal])
      /\ UNCHANGED <<program, suspend_depth, cache, pre_rounding, trace, asked>>
  BY DEF AttemptCached, state
<1>2. cache[Goal] \in Values /\ Meaning(program, Goal) = Ok(cache[Goal])
  BY <1>1 DEF Inductive, TypeOK, CacheSound
<1>3. TraceTyped(trace')
  BY <1>1 DEF Inductive, TypeOK, TraceTyped
<1> QED BY <1>1, <1>2, <1>3, CompleteGoalStep, Assemble

LEMMA OpenedUnlessAbsentTyped ==
    ASSUME NEW t, TraceTyped(t), NEW k \in Keys
    PROVE  TraceTyped(OpenedUnlessAbsent(t, k))
<1>1. k.rule \in Rules
  BY DEF Keys
<1> QED BY <1>1, OpenedTyped DEF OpenedUnlessAbsent

LEMMA AttemptRefusedStep ==
    ASSUME Inductive, AttemptRefused
    PROVE  Inductive'
<1> DEFINE o == Err(Refusal(program, Goal))
<1>1. /\ Running /\ Refusal(program, Goal) # "none" /\ Finished(o)
      /\ trace' = OpenedUnlessAbsent(trace, Goal)
      /\ UNCHANGED <<program, suspend_depth, cache, pre_rounding, asked>>
  BY DEF AttemptRefused
<1>2. program \in Programs /\ Goal \in Keys /\ Surfaces(Meaning(program, Goal))
  BY <1>1, RunningFacts DEF Inductive, TypeOK
<1>3. Meaning(program, Goal) = o /\ o \in Outcomes
  BY <1>1, <1>2, MeaningRule, RefusalType
<1>4. Meaning(program, Root) = o
  BY <1>2, <1>3 DEF Surfaces, Err
<1>5. TraceTyped(trace')
  BY <1>1, <1>2, OpenedUnlessAbsentTyped DEF Inductive, TypeOK, TraceTyped
<1> HIDE DEF o
<1> QED BY <1>1, <1>3, <1>4, <1>5, FinishedStep, Assemble

LEMMA AttemptStep ==
    ASSUME Inductive, Attempt
    PROVE  Inductive'
<1> DEFINE f == Frame(Goal, Body(program, Goal.rule), TRUE)
<1>1. /\ Running /\ Refusal(program, Goal) = "none"
      /\ stack' = <<f>> /\ trace' = Opened(trace, Goal.rule)
      /\ UNCHANGED <<program, suspend_depth, cache, pre_rounding, tasks, waiting, asked, answers>>
  BY DEF Attempt
<1>2. program \in Programs /\ Goal \in Keys /\ Surfaces(Meaning(program, Goal))
  BY <1>1, RunningFacts DEF Inductive, TypeOK
<1>3. Body(program, Goal.rule) \in Exprs /\ Goal.rule \in Rules
  BY <1>2, BodyType DEF Keys
<1>4. /\ f \in FrameType /\ f.vals = <<>> /\ f.body /\ f.key = Goal
      /\ f.expr = Body(program, Goal.rule)
  BY <1>2, <1>3 DEF Frame, FrameType
<1>5. Surfaces(Rest(program, f.expr, <<>>))
  BY <1>1, <1>2, <1>4, MeaningRule DEF Surfaces
<1>6. <<>> \in Partial(f.expr)
  BY <1>3, <1>4, EmptyPartial
<1> HIDE DEF f
<1>7. Running' /\ Goal' = Goal
  BY <1>1 DEF Running, Goal, Root
<1>8. stack' \in Seq(FrameType) /\ Len(stack') = 1 /\ stack'[1] = f
  BY <1>1, <1>4
<1>9. StackSound'
  <2>3. ASSUME NEW i \in 1..Len(stack')
        PROVE  FrameSound(stack[i])' /\ Surfaces(Rest(program, stack[i].expr, <<>>))'
    <3>1. stack'[i] = f
      BY <1>8
    <3> QED BY <3>1, <1>1, <1>4, <1>5, <1>6 DEF FrameSound, Surfaces, Root
  <2>4. \A i \in 1..(Len(stack') - 1) : Follows(stack[i+1], stack[i])'
    BY <1>8
  <2> QED BY <1>4, <1>7, <1>8, <2>3, <2>4 DEF StackSound, Follows
<1>10. TraceTyped(trace')
  BY <1>1, <1>3, OpenedTyped DEF Inductive, TypeOK, TraceTyped
<1> QED BY <1>1, <1>8, <1>9, <1>10, DriverUnchanged, Assemble

LEMMA DescendStep ==
    ASSUME Inductive, Descend
    PROVE  Inductive'
<1> DEFINE f == Frame(Top.key, Operand(Top.expr, Top.vals), FALSE)
<1>1. /\ stack # <<>> /\ Wants(Top.expr, Top.vals) /\ stack' = Append(stack, f)
      /\ UNCHANGED <<program, suspend_depth, cache, pre_rounding, trace>>
      /\ UNCHANGED <<tasks, waiting, asked, answers>>
  BY DEF Descend, state
<1>2. /\ program \in Programs /\ Top.key \in Keys /\ Top.expr \in Exprs
      /\ Top.vals \in Partial(Top.expr)
      /\ Rest(program, Top.expr, Top.vals) = Rest(program, Top.expr, <<>>)
      /\ Surfaces(Rest(program, Top.expr, <<>>))
  BY <1>1, TopFacts
<1>3. Operand(Top.expr, Top.vals) \in Exprs
  BY <1>1, <1>2, WantsFacts
<1>4. /\ f \in FrameType /\ f.vals = <<>> /\ ~f.body /\ f.key = Top.key
      /\ f.expr = Operand(Top.expr, Top.vals)
  BY <1>2, <1>3 DEF Frame, FrameType
<1> HIDE DEF f
<1>5. Surfaces(Rest(program, f.expr, <<>>))
  <2>1. CASE Rest(program, f.expr, <<>>).ok
    BY <2>1 DEF Surfaces
  <2>2. CASE ~Rest(program, f.expr, <<>>).ok
    <3>1. Rest(program, Top.expr, Top.vals) = Rest(program, f.expr, <<>>)
      BY <2>2, <1>1, <1>2, <1>4, RestWants
    <3> QED BY <3>1, <1>2
  <2> QED BY <2>1, <2>2
<1>6. Follows(f, Top)
  BY <1>1, <1>4 DEF Follows
<1>7. stack' \in Seq(FrameType) /\ StackSound'
  BY <1>1, <1>4, <1>5, <1>6, PushStep
<1>8. TraceTyped(trace')
  BY <1>1 DEF Inductive, TypeOK, TraceTyped
<1> QED BY <1>1, <1>7, <1>8, DriverUnchanged, Assemble

LEMMA ReadUnknownStep ==
    ASSUME Inductive, ReadUnknown
    PROVE  Inductive'
<1> DEFINE o == Err("unknown_derived")
<1>1. /\ Reading /\ Status(program, Read.rule) = "unknown_derived" /\ Finished(o)
      /\ UNCHANGED <<program, suspend_depth, cache, pre_rounding, trace, asked>>
  BY DEF ReadUnknown, state
<1>2. /\ program \in Programs /\ Running /\ Read \in Keys
      /\ Surfaces(Meaning(program, Read))
  BY <1>1, TopFacts, ReadFacts DEF Reading
<1>3. Refusal(program, Read) = "unknown_derived"
  BY <1>1 DEF Refusal
<1>4. Meaning(program, Read) = o /\ o \in Outcomes
  BY <1>2, <1>3, MeaningRule, RefusalType
<1>5. Meaning(program, Root) = o
  BY <1>2, <1>4 DEF Surfaces, Err
<1>6. TraceTyped(trace')
  BY <1>1 DEF Inductive, TypeOK, TraceTyped
<1> HIDE DEF o
<1> QED BY <1>1, <1>2, <1>4, <1>5, <1>6, FinishedStep, Assemble

LEMMA ReadRefusedStep ==
    ASSUME Inductive, ReadRefused
    PROVE  Inductive'
<1> DEFINE o == Err(Refusal(program, Read))
<1>1. /\ Reading /\ Refusal(program, Read) # "none" /\ Finished(o)
      /\ trace' = OpenedUnlessAbsent(ReadRecorded, Read)
      /\ UNCHANGED <<program, suspend_depth, cache, pre_rounding, asked>>
  BY DEF ReadRefused, Known
<1>2. /\ program \in Programs /\ Running /\ Read \in Keys
      /\ Surfaces(Meaning(program, Read)) /\ TraceTyped(ReadRecorded)
  BY <1>1, TopFacts, ReadFacts DEF Reading
<1>3. Meaning(program, Read) = o /\ o \in Outcomes
  BY <1>1, <1>2, MeaningRule, RefusalType
<1>4. Meaning(program, Root) = o
  BY <1>2, <1>3 DEF Surfaces, Err
<1>5. TraceTyped(trace')
  BY <1>1, <1>2, OpenedUnlessAbsentTyped
<1> HIDE DEF o
<1> QED BY <1>1, <1>2, <1>3, <1>4, <1>5, FinishedStep, Assemble

LEMMA ReadCycleStep ==
    ASSUME Inductive, ReadCycle
    PROVE  Inductive'
<1> DEFINE o == Endless
<1>1. /\ Reading /\ Finished(o) /\ trace' = ReadRecorded
      /\ UNCHANGED <<program, suspend_depth, cache, pre_rounding, asked>>
  BY DEF ReadCycle, Known, Endless
<1>2. Running /\ TraceTyped(trace')
  BY <1>1, TopFacts, ReadFacts DEF Reading
<1>3. o \in Outcomes
  BY DEF Outcomes, Endless
<1> HIDE DEF o
<1>4. o \in {Meaning(program, Root), Endless}
  BY DEF o
<1> QED BY <1>1, <1>2, <1>3, <1>4, FinishedStep, Assemble

LEMMA ReadDeferredStep ==
    ASSUME Inductive, ReadDeferred
    PROVE  Inductive'
<1>1. /\ Reading /\ stack' = <<>> /\ tasks' = Append(tasks, Read)
      /\ waiting' = waiting \cup {Read} /\ trace' = ReadRecorded
      /\ UNCHANGED <<program, suspend_depth, cache, pre_rounding, asked, answers>>
  BY DEF ReadDeferred, Known
<1>2. /\ Running /\ Read \in Keys /\ TraceTyped(trace')
      /\ Surfaces(Meaning(program, Read))
  BY <1>1, TopFacts, ReadFacts DEF Reading
<1>3. /\ tasks \in Seq(Keys) /\ waiting \in SUBSET Keys /\ answers \in Seq(Outcomes)
  BY DEF Inductive, TypeOK
<1>4. /\ Len(tasks) \in Nat /\ tasks' \in Seq(Keys) /\ Len(tasks') = Len(tasks) + 1
      /\ \A i \in 1..Len(tasks) : tasks'[i] = tasks[i]
      /\ tasks'[Len(tasks) + 1] = Read
  BY <1>1, <1>2, <1>3, AppendProperties
<1>5. TasksSound'
  <2>1. ASSUME NEW i \in 1..Len(tasks')
        PROVE  Surfaces(Meaning(program, tasks[i]))'
    <3>1. CASE i \in 1..Len(tasks)
      BY <3>1, <1>1, <1>4 DEF Inductive, TasksSound, Surfaces, Root
    <3>2. CASE i = Len(tasks) + 1
      BY <3>2, <1>1, <1>2, <1>4 DEF Surfaces, Root
    <3> QED BY <1>4, <3>1, <3>2
  <2>2. Running'
    BY <1>1, <1>2 DEF Running
  <2> QED BY <2>1, <2>2 DEF TasksSound
<1>6. StackSound' /\ QueriesSound' /\ AnswersOrCycle'
  BY <1>1 DEF StackSound, Inductive, QueriesSound, AnswersOrCycle
<1>7. stack' \in Seq(FrameType) /\ waiting' \in SUBSET Keys /\ answers' \in Seq(Outcomes)
  BY <1>1, <1>2, <1>3
<1> QED BY <1>1, <1>2, <1>4, <1>5, <1>6, <1>7, Assemble

LEMMA ReadRecursesStep ==
    ASSUME Inductive, ReadRecurses
    PROVE  Inductive'
<1> DEFINE f == Frame(Read, Body(program, Read.rule), TRUE)
<1>1. /\ Reading /\ Refusal(program, Read) = "none"
      /\ stack' = Append(stack, f) /\ trace' = Opened(ReadRecorded, Read.rule)
      /\ UNCHANGED <<program, suspend_depth, cache, pre_rounding, tasks, waiting, asked, answers>>
  BY DEF ReadRecurses, Known
<1>2. /\ program \in Programs /\ Read \in Keys /\ Read.rule \in Rules
      /\ TraceTyped(ReadRecorded) /\ Surfaces(Meaning(program, Read))
  BY <1>1, TopFacts, ReadFacts DEF Reading
<1>3. Body(program, Read.rule) \in Exprs
  BY <1>2, BodyType
<1>4. /\ f \in FrameType /\ f.vals = <<>> /\ f.body /\ f.key = Read
      /\ f.expr = Body(program, Read.rule)
  BY <1>2, <1>3 DEF Frame, FrameType
<1> HIDE DEF f
<1>5. Surfaces(Rest(program, f.expr, <<>>))
  BY <1>1, <1>2, <1>4, MeaningRule DEF Surfaces
<1>6. stack # <<>> /\ Follows(f, Top)
  BY <1>1, <1>4 DEF Follows, Reading, Read
<1>7. f.body => f.expr = Body(program, f.key.rule) /\ Refusal(program, f.key) = "none"
  BY <1>1, <1>4
<1>8. stack' \in Seq(FrameType) /\ StackSound'
  BY <1>1, <1>4, <1>5, <1>6, <1>7, PushStep
<1>9. TraceTyped(trace')
  BY <1>1, <1>2, OpenedTyped
<1> QED BY <1>1, <1>8, <1>9, DriverUnchanged, Assemble

LEMMA WholeStack ==
    ASSUME NEW S, NEW s \in Seq(S)
    PROVE  SubSeq(s, 1, Len(s)) = s
OBVIOUS

LEMMA ReadCachedStep ==
    ASSUME Inductive, ReadCached
    PROVE  Inductive'
<1> DEFINE vals == <<cache[Read]>>
           n == Len(stack)
<1>1. /\ Reading /\ Read \in DOMAIN cache
      /\ stack' = [stack EXCEPT ![n].vals = vals] /\ trace' = ReadRecorded
      /\ UNCHANGED <<program, suspend_depth, cache, pre_rounding, tasks, waiting, asked, answers>>
  BY DEF ReadCached, Known
<1>2. /\ program \in Programs /\ n \in 1..Len(stack) /\ Top = stack[n]
      /\ Top.expr \in Exprs /\ Top.expr.op = "derived"
      /\ Rest(program, Top.expr, <<>>) = Meaning(program, Read)
      /\ TraceTyped(ReadRecorded)
  BY <1>1, TopFacts, ReadFacts DEF Reading, Top
<1>3. cache[Read] \in Values /\ Meaning(program, Read) = Ok(cache[Read])
  BY <1>1 DEF Inductive, TypeOK, CacheSound
<1>4. Arity(Top.expr) = 1
  BY <1>2 DEF Arity
<1>5. vals \in Partial(Top.expr)
  <2>1. <<>> \in Partial(Top.expr) /\ Len(<<>>) < Arity(Top.expr)
    BY <1>2, <1>4, EmptyPartial
  <2>2. vals = Append(<<>>, cache[Read])
    OBVIOUS
  <2> HIDE DEF vals
  <2> QED BY <2>1, <2>2, <1>2, <1>3, AppendPartial
<1>6. Rest(program, Top.expr, vals) = Rest(program, Top.expr, <<>>)
  <2>1. vals # <<>> /\ vals[1] = cache[Read]
    OBVIOUS
  <2>2. ~Wants(Top.expr, vals)
    BY <1>2, <1>5, WantsFacts
  <2>3. Rest(program, Top.expr, vals) = Finish(Top.expr, vals)
    BY <2>1, <2>2, <1>2, <1>5, RestFinish
  <2>4. Finish(Top.expr, vals) = Ok(cache[Read])
    BY <2>1, <1>2 DEF Finish
  <2> QED BY <2>3, <2>4, <1>2, <1>3
<1> HIDE DEF vals, n
<1>7. stack' = [SubSeq(stack, 1, n) EXCEPT ![n].vals = vals]
  BY <1>1, WholeStack DEF n, Inductive, TypeOK
<1>8. stack' \in Seq(FrameType) /\ StackSound'
  BY <1>1, <1>2, <1>5, <1>6, <1>7, FillStep
<1> QED BY <1>1, <1>2, <1>8, DriverUnchanged, Assemble

LEMMA CompleteFacts ==
    ASSUME Inductive, Complete
    PROVE  /\ Running /\ Outcome \in Outcomes
           /\ Outcome = Rest(program, Top.expr, <<>>)
<1>1. /\ stack # <<>> /\ ~Wants(Top.expr, Top.vals)
      /\ ~(Top.expr.op = "derived" /\ Top.vals = <<>>)
  BY DEF Complete, Reading
<1>2. /\ Running /\ program \in Programs /\ Top.expr \in Exprs
      /\ Top.vals \in Partial(Top.expr)
      /\ Rest(program, Top.expr, Top.vals) = Rest(program, Top.expr, <<>>)
  BY <1>1, TopFacts
<1> QED BY <1>1, <1>2, FinishType, RestFinish DEF Outcome

LEMMA FailStep ==
    ASSUME Inductive, Fail
    PROVE  Inductive'
<1>1. /\ Complete /\ ~Outcome.ok /\ Finished(Outcome) /\ stack # <<>>
      /\ UNCHANGED <<program, suspend_depth, cache, pre_rounding, trace, asked>>
  BY DEF Fail, state, Complete
<1>2. /\ Running /\ Outcome \in Outcomes /\ Outcome = Rest(program, Top.expr, <<>>)
      /\ Surfaces(Rest(program, Top.expr, <<>>))
  BY <1>1, CompleteFacts, TopFacts
<1>3. Meaning(program, Root) = Outcome
  BY <1>1, <1>2 DEF Surfaces
<1>4. TraceTyped(trace')
  BY <1>1 DEF Inductive, TypeOK, TraceTyped
<1> QED BY <1>1, <1>2, <1>3, <1>4, FinishedStep, Assemble

(* The frame below the innermost one, when there is one.                   *)
LEMMA CallerFacts ==
    ASSUME Inductive, stack # <<>>, Len(stack) # 1
    PROVE  /\ Len(stack) - 1 \in 1..Len(stack)
           /\ Caller.expr \in Exprs /\ Caller.vals \in Partial(Caller.expr)
           /\ Rest(program, Caller.expr, Caller.vals) = Rest(program, Caller.expr, <<>>)
           /\ Follows(Top, Caller)
           /\ \A v : Deliver(v) => stack' = [SubSeq(stack, 1, Len(stack) - 1)
                          EXCEPT ![Len(stack) - 1].vals = Append(Caller.vals, v)]
<1> DEFINE m == Len(stack) - 1
<1>1. stack \in Seq(FrameType) /\ Len(stack) \in Nat \ {0}
  BY TopFacts DEF Inductive, TypeOK
<1>2. m \in Nat /\ m \in 1..Len(stack) /\ m \in 1..(Len(stack) - 1) /\ m + 1 = Len(stack)
  <2>1. \A n \in Nat \ {0} : n # 1 => /\ n - 1 \in Nat /\ n - 1 \in 1..n
                                     /\ n - 1 \in 1..(n - 1) /\ (n - 1) + 1 = n
    OBVIOUS
  <2> QED BY <1>1, <2>1
<1>3. stack[m] \in FrameType /\ FrameSound(stack[m])
  BY <1>1, <1>2 DEF Inductive, StackSound
<1>4. Follows(stack[m+1], stack[m])
  BY <1>2 DEF Inductive, StackSound
<1>5. Follows(Top, Caller)
  <2> HIDE DEF m
  <2>1. Top = stack[m+1] /\ Caller = stack[m]
    BY <1>2 DEF Top, Caller, m
  <2> QED BY <2>1, <1>4
<1>6. Pop(stack) = SubSeq(stack, 1, m) /\ Pop(stack)[m] = stack[m]
  BY <1>1, <1>2, PopFacts DEF Pop
<1>7. ASSUME NEW v, Deliver(v)
      PROVE  stack' = [SubSeq(stack, 1, m) EXCEPT ![m].vals = Append(Caller.vals, v)]
  <2>1. stack' = [Pop(stack) EXCEPT ![m].vals = Append(@, v)]
    BY <1>7 DEF Deliver
  <2>2. Caller.vals = Pop(stack)[m].vals
    BY <1>6 DEF Caller
  <2> HIDE DEF m
  <2>3. [Pop(stack) EXCEPT ![m].vals = Append(@, v)]
          = [Pop(stack) EXCEPT ![m].vals = Append(Pop(stack)[m].vals, v)]
    OBVIOUS
  <2> QED BY <2>1, <2>2, <2>3, <1>6
<1> QED BY <1>2, <1>3, <1>5, <1>7 DEF Caller, FrameType, FrameSound

LEMMA ReturnStep ==
    ASSUME Inductive, Return
    PROVE  Inductive'
<1> DEFINE v == Outcome.val
           vals == Append(Caller.vals, v)
<1>1. /\ Complete /\ Outcome.ok /\ ~Top.body /\ Deliver(v) /\ stack # <<>>
      /\ trace' = RecordSkipped(trace, Top.key.rule, Caller.expr, vals)
      /\ UNCHANGED <<program, suspend_depth, cache, pre_rounding, tasks, waiting, asked, answers>>
  BY DEF Return, Complete
<1>2. /\ Outcome \in Outcomes /\ Outcome = Rest(program, Top.expr, <<>>)
      /\ v \in Values
  BY <1>1, CompleteFacts, OutcomeCases
<1>3. Len(stack) # 1
  BY <1>1 DEF Inductive, StackSound, Top
<1>4. /\ Len(stack) - 1 \in 1..Len(stack) /\ program \in Programs
      /\ Caller.expr \in Exprs /\ Caller.vals \in Partial(Caller.expr)
      /\ Rest(program, Caller.expr, Caller.vals) = Rest(program, Caller.expr, <<>>)
      /\ Wants(Caller.expr, Caller.vals) /\ Top.expr = Operand(Caller.expr, Caller.vals)
  BY <1>1, <1>3, CallerFacts, TopFacts DEF Follows
<1>5. stack' = [SubSeq(stack, 1, Len(stack) - 1) EXCEPT ![Len(stack) - 1].vals = vals]
  BY <1>1, <1>3, CallerFacts
<1>6. vals \in Partial(Caller.expr)
  BY <1>2, <1>4, WantsFacts, AppendPartial
<1>7. Rest(program, Caller.expr, vals) = Rest(program, Caller.expr, <<>>)
  <2>1. Rest(program, Caller.expr, Caller.vals) = Rest(program, Caller.expr, vals)
    BY <1>1, <1>2, <1>4, RestWants
  <2> QED BY <2>1, <1>4
<1> HIDE DEF vals, v
<1>8. stack' \in Seq(FrameType) /\ StackSound'
  BY <1>1, <1>4, <1>5, <1>6, <1>7, FillStep DEF Caller
<1>9. TraceTyped(trace')
  BY <1>1, <1>4, <1>6, RecordSkippedTyped DEF Inductive, TypeOK, TraceTyped
<1> QED BY <1>1, <1>8, <1>9, DriverUnchanged, Assemble

(* A read given the value its rule means goes on to mean what it did.      *)
LEMMA ReadFilled ==
    ASSUME NEW p \in Programs, NEW e \in Exprs, e.op = "derived",
           NEW v \in Values, Meaning(p, e.key) = Ok(v)
    PROVE  /\ Append(<<>>, v) \in Partial(e)
           /\ Rest(p, e, Append(<<>>, v)) = Rest(p, e, <<>>)
<1> DEFINE vals == Append(<<>>, v)
<1>1. vals # <<>> /\ vals[1] = v
  OBVIOUS
<1>2. <<>> \in Partial(e) /\ Len(<<>>) < Arity(e)
  BY EmptyPartial DEF Arity
<1>3. vals \in Partial(e)
  BY <1>2, AppendPartial
<1> HIDE DEF vals
<1>4. ~Wants(e, vals)
  BY <1>3, WantsFacts
<1>5. Rest(p, e, vals) = Finish(e, vals)
  BY <1>1, <1>3, <1>4, RestFinish
<1>6. Finish(e, vals) = Ok(v)
  BY <1>1 DEF Finish
<1>7. Rest(p, e, vals) = Rest(p, e, <<>>)
  BY <1>5, <1>6, RestRead
<1> QED BY <1>3, <1>7 DEF vals

LEMMA ReturnFromRuleStep ==
    ASSUME Inductive, ReturnFromRule
    PROVE  Inductive'
<1> DEFINE v == Outcome.val
           w == Rounded(program, Top.key, v)
<1>1. /\ Complete /\ Outcome.ok /\ Top.body /\ stack # <<>>
      /\ cache' = Insert(cache, Top.key, w)
      /\ pre_rounding' = IF w # v THEN Insert(pre_rounding, Top.key, v) ELSE pre_rounding
      /\ IF Len(stack) = 1 THEN CompleteGoal(w)
         ELSE Deliver(w) /\ UNCHANGED <<tasks, waiting, answers>>
      /\ UNCHANGED <<program, suspend_depth, trace, asked>>
  BY DEF ReturnFromRule, Stored, Complete, Depth
<1>2. /\ Outcome \in Outcomes /\ Outcome = Rest(program, Top.expr, <<>>)
      /\ v \in Values /\ Running
  BY <1>1, CompleteFacts, OutcomeCases
<1>3. /\ program \in Programs /\ Top.key \in Keys
      /\ Top.expr = Body(program, Top.key.rule) /\ Refusal(program, Top.key) = "none"
  BY <1>1, TopFacts
<1>4. w \in Values /\ Meaning(program, Top.key) = Ok(w)
  BY <1>1, <1>2, <1>3, MeaningRule, RoundedType
<1> HIDE DEF w, v
<1>5. /\ DOMAIN cache' \subseteq Keys
      /\ \A k \in DOMAIN cache' : cache'[k] \in Values /\ Meaning(program, k) = Ok(cache'[k])
  <2>1. /\ DOMAIN cache' = DOMAIN cache \cup {Top.key} /\ cache'[Top.key] = w
        /\ \A k \in DOMAIN cache : k # Top.key => cache'[k] = cache[k]
    <3>1. cache' = Insert(cache, Top.key, w)
      BY <1>1
    <3> QED BY <3>1 DEF Insert
  <2>2. /\ DOMAIN cache \subseteq Keys
        /\ \A k \in DOMAIN cache : cache[k] \in Values /\ Meaning(program, k) = Ok(cache[k])
    BY DEF Inductive, TypeOK, CacheSound
  <2>3. ASSUME NEW k \in DOMAIN cache'
        PROVE  cache'[k] \in Values /\ Meaning(program, k) = Ok(cache'[k])
    BY <2>1, <2>2, <1>4
  <2> QED BY <2>1, <2>2, <2>3, <1>3
<1>6. /\ DOMAIN pre_rounding' \subseteq Keys
      /\ \A k \in DOMAIN pre_rounding' : pre_rounding'[k] \in Values
  <2>1. /\ DOMAIN pre_rounding \subseteq Keys
        /\ \A k \in DOMAIN pre_rounding : pre_rounding[k] \in Values
    BY DEF Inductive, TypeOK
  <2>2. CASE w # v
    <3>1. /\ DOMAIN pre_rounding' = DOMAIN pre_rounding \cup {Top.key}
          /\ pre_rounding'[Top.key] = v
          /\ \A k \in DOMAIN pre_rounding : k # Top.key => pre_rounding'[k] = pre_rounding[k]
      <4>1. pre_rounding' = Insert(pre_rounding, Top.key, v)
        BY <2>2, <1>1
      <4> QED BY <4>1 DEF Insert
    <3>2. ASSUME NEW k \in DOMAIN pre_rounding'
          PROVE  pre_rounding'[k] \in Values
      BY <2>1, <3>1, <1>2
    <3> QED BY <2>1, <3>1, <3>2, <1>3
  <2>3. CASE w = v
    BY <2>1, <2>3, <1>1
  <2> QED BY <2>2, <2>3
<1>7. /\ stack' \in Seq(FrameType) /\ tasks' \in Seq(Keys)
      /\ waiting' \in SUBSET Keys /\ answers' \in Seq(Outcomes)
      /\ StackSound' /\ TasksSound' /\ QueriesSound' /\ AnswersOrCycle'
  <2>1. CASE Len(stack) = 1
    <3>1. Top.key = Goal
      BY <2>1, <1>1 DEF Inductive, StackSound, Top
    <3> QED BY <2>1, <3>1, <1>1, <1>2, <1>4, CompleteGoalStep
  <2>2. CASE Len(stack) # 1
    <3>1. /\ Len(stack) - 1 \in 1..Len(stack)
          /\ Caller.expr \in Exprs /\ Caller.vals = <<>>
          /\ Caller.expr.op = "derived" /\ Top.key = Caller.expr.key
          /\ stack' = [SubSeq(stack, 1, Len(stack) - 1)
                         EXCEPT ![Len(stack) - 1].vals = Append(Caller.vals, w)]
      BY <2>2, <1>1, CallerFacts DEF Follows
    <3>2. /\ Append(Caller.vals, w) \in Partial(Caller.expr)
          /\ Rest(program, Caller.expr, Append(Caller.vals, w)) = Rest(program, Caller.expr, <<>>)
      BY <3>1, <1>3, <1>4, ReadFilled
    <3>3. stack' \in Seq(FrameType) /\ StackSound'
      BY <2>2, <3>1, <3>2, <1>1, FillStep DEF Caller
    <3> QED BY <2>2, <3>3, <1>1, DriverUnchanged
  <2> QED BY <2>1, <2>2
<1>8. TypeOK'
  BY <1>1, <1>5, <1>6, <1>7 DEF Inductive, TypeOK
<1>9. CacheSound'
  BY <1>1, <1>5 DEF CacheSound
<1> QED BY <1>7, <1>8, <1>9 DEF Inductive

-----------------------------------------------------------------------------
LEMMA InitInductive ==
    ASSUME Init
    PROVE  Inductive
<1>1. suspend_depth \in Nat \ {0}
  BY ProgramAssumption DEF Init, Threshold
<1>2. TypeOK
  BY <1>1 DEF Init, TypeOK
<1>3. CacheSound /\ StackSound /\ TasksSound /\ QueriesSound /\ AnswersOrCycle
  BY DEF Init, CacheSound, StackSound, TasksSound, QueriesSound, AnswersOrCycle
<1> QED BY <1>2, <1>3 DEF Inductive

LEMMA NextInductive ==
    ASSUME Inductive, [Next]_vars
    PROVE  Inductive'
<1>1. CASE UNCHANGED vars
  <2>1. /\ UNCHANGED <<program, suspend_depth, cache, pre_rounding, trace>>
        /\ UNCHANGED <<stack, tasks, waiting, asked, answers>>
    BY <1>1 DEF vars, state, driver
  <2> QED BY <2>1 DEF Inductive, TypeOK, CacheSound, StackSound, TasksSound, QueriesSound,
             AnswersOrCycle, Running, Goal, Root, FrameSound, Surfaces, Follows
<1>2. CASE \E k \in Keys : Ask(k)
  BY <1>2, AskStep
<1>3. CASE Step
  BY <1>3, AttemptCachedStep, AttemptRefusedStep, AttemptStep, DescendStep,
     ReadUnknownStep, ReadCachedStep, ReadDeferredStep, ReadCycleStep, ReadRefusedStep,
     ReadRecursesStep, FailStep, ReturnStep, ReturnFromRuleStep DEF Step
<1> QED BY <1>1, <1>2, <1>3 DEF Next

(* The invariant the theorems rest on: every frame of every                *)
(* retry stands for an evaluation whose outcome the reference shares.      *)
THEOREM InductiveHolds == Spec => []Inductive
<1>1. Init => Inductive
  BY InitInductive
<1>2. Inductive /\ [Next]_vars => Inductive'
  BY NextInductive
<1> QED BY <1>1, <1>2, PTL DEF Spec

(* Every variable of the interpreter keeps its type in every program: no   *)
(* value past the decimals is cached or delivered, `tasks` and `waiting`   *)
(* hold rules only (engine.rs, `drive`).                                   *)
THEOREM TypeCorrect == Spec => []TypeOK
BY InductiveHolds, PTL DEF Inductive

(* Whatever the threshold, a value left in the caches by a segment, a      *)
(* retry, a query that failed or an earlier query is the rule's meaning    *)
(* (engine.rs, `scalar_rule` and `judgment_rule`).                         *)
THEOREM CacheCorrect == Spec => []CacheSound
BY InductiveHolds, PTL DEF Inductive

-----------------------------------------------------------------------------
(***************************************************************************)
(* Deferral implements the safety part of Evaluation, on a stack that      *)
(* stays bounded. CacheCorrect leaves one answer open: the report of a     *)
(* cycle. It is right because evaluations whose recursion ends take ever   *)
(* fewer steps from the query down through the tasks and the frames, and a *)
(* rule that waits for itself would have to take fewer steps than it takes.*)
(***************************************************************************)

(* What the reference says of a node whose recursion ends.                 *)
LEMMA NodeSteps ==
    ASSUME NEW p \in Programs, NEW e \in Exprs, NEW vals \in Partial(e)
    PROVE  Steps(p, e, vals) \in Nat
BY EndAssumption

LEMMA RuleStepsType ==
    ASSUME NEW p \in Programs, NEW k \in Keys
    PROVE  RuleSteps(p, k) \in Nat
<1>1. Steps(p, Body(p, k.rule), <<>>) \in Nat
  BY BodyType, EmptyPartial, NodeSteps
<1> QED BY <1>1 DEF RuleSteps

LEMMA ReadEnds ==
    ASSUME NEW p \in Programs, NEW e \in Exprs, e.op = "derived",
           Rest(p, e, <<>>) # Endless
    PROVE  /\ RuleSteps(p, e.key) < Steps(p, e, <<>>)
           /\ \A v \in Values : Meaning(p, e.key) = Ok(v) =>
                                   Steps(p, e, <<v>>) < Steps(p, e, <<>>)
BY EmptyPartial, EndAssumption

LEMMA OperandEnds ==
    ASSUME NEW p \in Programs, NEW e \in Exprs, NEW vals \in Partial(e),
           Wants(e, vals), Rest(p, e, vals) # Endless
    PROVE  /\ Steps(p, Operand(e, vals), <<>>) < Steps(p, e, vals)
           /\ \A v \in Values : Rest(p, Operand(e, vals), <<>>) = Ok(v) =>
                                   Steps(p, e, Append(vals, v)) < Steps(p, e, vals)
BY EndAssumption

-----------------------------------------------------------------------------
(* The invariant, over given values of the variables.                      *)
FramesEnd(p, s, n) == \A i \in 1..Len(s) : Steps(p, s[i].expr, s[i].vals) <= n

LEMMA PushEnds ==
    ASSUME NEW p, NEW n, NEW s \in Seq(FrameType), FramesEnd(p, s, n),
           NEW f \in FrameType, Steps(p, f.expr, f.vals) <= n
    PROVE  FramesEnd(p, Append(s, f), n)
<1>1. /\ Len(Append(s, f)) = Len(s) + 1 /\ Len(s) \in Nat
      /\ \A i \in 1..Len(s) : Append(s, f)[i] = s[i]
      /\ Append(s, f)[Len(s) + 1] = f
  BY AppendProperties
<1>2. ASSUME NEW i \in 1..Len(Append(s, f))
      PROVE  Steps(p, Append(s, f)[i].expr, Append(s, f)[i].vals) <= n
  <2>1. i \in 1..Len(s) \/ i = Len(s) + 1
    BY <1>1
  <2> QED BY <2>1, <1>1 DEF FramesEnd
<1> QED BY <1>2 DEF FramesEnd

LEMMA FillEnds ==
    ASSUME NEW p, NEW n, NEW s \in Seq(FrameType), FramesEnd(p, s, n),
           NEW m \in 1..Len(s), NEW vals \in Seq(Values),
           Steps(p, s[m].expr, vals) <= n
    PROVE  FramesEnd(p, CutBack(s, m, vals), n)
<1>0. PICK t : t = CutBack(s, m, vals)
  OBVIOUS
<1>1. /\ Len(t) = m /\ m \in Nat /\ t[m].expr = s[m].expr /\ t[m].vals = vals
      /\ \A i \in 1..m : i # m => t[i] = s[i]
  BY <1>0, FillElements
<1>2. ASSUME NEW i \in 1..Len(t)
      PROVE  Steps(p, t[i].expr, t[i].vals) <= n
  <2>1. CASE i = m
    BY <2>1, <1>1
  <2>2. CASE i # m
    <3>1. t[i] = s[i] /\ i \in 1..Len(s)
      BY <2>2, <1>1
    <3> QED BY <3>1 DEF FramesEnd
  <2> QED BY <2>1, <2>2
<1> QED BY <1>0, <1>2 DEF FramesEnd

-----------------------------------------------------------------------------
(* The second layer of the invariant. Inductive holds throughout, so the   *)
(* lemmas below assume it and need not show it again.                      *)
Ending == QueryEnds /\ WaitingOpen /\ AnswersSound

(* No frame or task of a query that ends is itself endless.                *)
LEMMA NothingEndless ==
    ASSUME Inductive, Ending, stack # <<>>, Meaning(program, Root) # Endless
    PROVE  /\ Rest(program, Top.expr, <<>>) # Endless
           /\ FramesEnd(program, stack, RuleSteps(program, Goal))
           /\ TasksEnd
           /\ Steps(program, Top.expr, Top.vals) <= RuleSteps(program, Goal)
           /\ Steps(program, Top.expr, Top.vals) \in Nat
           /\ RuleSteps(program, Goal) \in Nat
<1>1. /\ program \in Programs /\ Running /\ Len(stack) \in Nat \ {0}
      /\ Top.expr \in Exprs /\ Top.vals \in Partial(Top.expr)
      /\ Surfaces(Rest(program, Top.expr, <<>>))
  BY TopFacts
<1>2. Rest(program, Top.expr, <<>>) # Endless
  <2>1. Endless.ok = FALSE
    BY DEF Endless, Err
  <2> QED BY <2>1, <1>1 DEF Surfaces
<1>3. StackEnds /\ TasksEnd
  BY <1>1 DEF Ending, QueryEnds
<1>4. FramesEnd(program, stack, RuleSteps(program, Goal))
  BY <1>3 DEF StackEnds, FramesEnd
<1>5. Len(stack) \in 1..Len(stack) /\ Top = stack[Len(stack)]
  BY <1>1 DEF Top
<1>6. Steps(program, Top.expr, Top.vals) <= RuleSteps(program, Goal)
  BY <1>4, <1>5 DEF FramesEnd
<1>7. RuleSteps(program, Goal) \in Nat
  BY <1>1, RunningFacts, RuleStepsType
<1> QED BY <1>1, <1>2, <1>3, <1>4, <1>6, <1>7, NodeSteps

(* A step that changes neither the query nor the tasks.                    *)
LEMMA KeepsEnding ==
    ASSUME Inductive, Ending, UNCHANGED <<program, tasks, waiting, asked, answers>>,
           Running /\ Meaning(program, Root) # Endless =>
              FramesEnd(program, stack', RuleSteps(program, Goal))
    PROVE  Ending'
<1>1. Goal' = Goal /\ Root' = Root /\ Running' = Running
  BY DEF Goal, Root, Running
<1>2. QueryEnds'
  <2>1. SUFFICES ASSUME Running', Meaning(program', Root') # Endless
                 PROVE  StackEnds' /\ TasksEnd'
    BY DEF QueryEnds
  <2>2. Running /\ Meaning(program, Root) # Endless
    BY <1>1, <2>1
  <2>3. TasksEnd'
    BY <2>2 DEF Ending, QueryEnds, TasksEnd
  <2>4. StackEnds'
    BY <2>2, <1>1 DEF FramesEnd, StackEnds
  <2> QED BY <2>3, <2>4
<1>3. WaitingOpen' /\ AnswersSound'
  BY DEF Ending, WaitingOpen, AnswersSound
<1> QED BY <1>2, <1>3 DEF Ending

(* The query ends with its meaning.                                        *)
LEMMA FinishedEnding ==
    ASSUME Inductive, Ending, Running, NEW o, o = Meaning(program, Root),
           Finished(o), program' = program, asked' = asked
    PROVE  Ending'
<1>1. /\ answers' = Append(answers, o)
      /\ stack' = <<>> /\ tasks' = <<>> /\ waiting' = {}
  BY DEF Finished
<1>2. /\ answers \in Seq(Outcomes) /\ Len(asked) \in Nat \ {0}
      /\ Len(answers) = Len(asked) - 1
  BY RunningFacts
<1>3. /\ Len(answers') = Len(asked) /\ answers'[Len(asked)] = o
      /\ \A i \in 1..Len(answers) : answers'[i] = answers[i]
  <2>1. /\ Len(Append(answers, o)) = Len(answers) + 1
        /\ Append(answers, o)[Len(answers) + 1] = o
        /\ \A i \in 1..Len(answers) : Append(answers, o)[i] = answers[i]
    BY <1>2
  <2>2. Len(answers) + 1 = Len(asked)
    BY <1>2
  <2> QED BY <1>1, <2>1, <2>2
<1>4. AnswersSound'
  <2>1. ASSUME NEW i \in 1..Len(answers')
        PROVE  answers'[i] = Meaning(program, asked[i])
    <3>1. CASE i = Len(asked)
      BY <3>1, <1>3 DEF Root
    <3>2. CASE i # Len(asked)
      <4>1. i \in 1..Len(answers)
        BY <3>2, <1>2, <1>3
      <4> QED BY <4>1, <1>3 DEF Ending, AnswersSound
    <3> QED BY <3>1, <3>2
  <2> QED BY <2>1 DEF AnswersSound
<1>5. QueryEnds' /\ WaitingOpen'
  BY <1>1 DEF QueryEnds, StackEnds, TasksEnd, WaitingOpen
<1> QED BY <1>4, <1>5 DEF Ending

(* A task, or the query, is completed with the value it was asked for.     *)
LEMMA CompleteGoalEnding ==
    ASSUME Inductive, Ending, Running, NEW v \in Values, Meaning(program, Goal) = Ok(v),
           CompleteGoal(v), program' = program, asked' = asked
    PROVE  Ending'
<1>1. CASE tasks = <<>>
  BY <1>1, FinishedEnding DEF CompleteGoal, Goal
<1>2. CASE tasks # <<>>
  <2>1. /\ stack' = <<>> /\ tasks' = Pop(tasks)
        /\ waiting' = waiting \ {Goal} /\ answers' = answers
    BY <1>2 DEF CompleteGoal
  <2>2. tasks \in Seq(Keys) /\ Len(tasks) \in Nat /\ Len(tasks) > 0
    BY <1>2 DEF Inductive, TypeOK
  <2>3. /\ Len(tasks') = Len(tasks) - 1
        /\ \A i \in 1..Len(tasks') : i \in 1..Len(tasks) /\ tasks'[i] = tasks[i]
    BY <2>1, <2>2, PopFacts
  <2>4. WaitingOpen'
    <3>1. ASSUME NEW k \in waiting'
          PROVE  \E i \in 1..Len(tasks') : tasks'[i] = k
      <4>1. PICK i \in 1..Len(tasks) : tasks[i] = k
        BY <3>1, <2>1 DEF Ending, WaitingOpen
      <4>2. i # Len(tasks)
        BY <4>1, <3>1, <2>1, <1>2 DEF Goal
      <4>3. i \in 1..Len(tasks')
        BY <4>2, <2>2, <2>3
      <4> QED BY <4>1, <4>3, <2>3
    <3> QED BY <3>1 DEF WaitingOpen
  <2>5. QueryEnds'
    <3>1. StackEnds'
      BY <2>1 DEF StackEnds
    <3>2. Running' = Running /\ Root' = Root
      BY <2>1 DEF Running, Root
    <3>3. TasksEnd => TasksEnd'
      BY <2>3 DEF TasksEnd
    <3> QED BY <3>1, <3>2, <3>3 DEF Ending, QueryEnds
  <2>6. AnswersSound'
    BY <2>1 DEF Ending, AnswersSound
  <2> QED BY <2>4, <2>5, <2>6 DEF Ending
<1> QED BY <1>1, <1>2

-----------------------------------------------------------------------------
(* One lemma per action, or per group of actions that end the query alike. *)
LEMMA AskEnding ==
    ASSUME Inductive, Ending, NEW k \in Keys, Ask(k)
    PROVE  Ending'
<1>1. /\ ~Running /\ asked' = Append(asked, k)
      /\ UNCHANGED <<program, stack, tasks, waiting, answers>>
  BY DEF Ask, driver
<1>2. /\ asked \in Seq(Keys) /\ answers \in Seq(Outcomes)
      /\ Len(answers) \in {Len(asked), Len(asked) - 1}
  BY DEF Inductive, TypeOK, QueriesSound
<1>3. Len(asked) \in Nat /\ Len(answers) = Len(asked)
  BY <1>1, <1>2 DEF Running
<1>4. stack = <<>> /\ tasks = <<>>
  BY <1>1 DEF Inductive, StackSound, TasksSound
<1>5. QueryEnds' /\ WaitingOpen'
  BY <1>1, <1>4 DEF QueryEnds, StackEnds, TasksEnd, Ending, WaitingOpen
<1>6. \A i \in 1..Len(asked) : asked'[i] = asked[i]
  BY <1>1, <1>2, AppendProperties
<1>7. AnswersSound'
  BY <1>1, <1>3, <1>6 DEF Ending, AnswersSound
<1> QED BY <1>5, <1>7 DEF Ending

LEMMA AttemptsEnding ==
    ASSUME Inductive, Ending, AttemptCached \/ AttemptRefused \/ Attempt
    PROVE  Ending'
<1>1. CASE AttemptCached
  <2>1. /\ Running /\ Goal \in DOMAIN cache /\ CompleteGoal(cache[Goal])
        /\ UNCHANGED <<program, asked>>
    BY <1>1 DEF AttemptCached
  <2>2. cache[Goal] \in Values /\ Meaning(program, Goal) = Ok(cache[Goal])
    BY <2>1 DEF Inductive, TypeOK, CacheSound
  <2> QED BY <2>1, <2>2, CompleteGoalEnding
<1>2. CASE AttemptRefused
  <2>1. /\ Running /\ Finished(Err(Refusal(program, Goal)))
        /\ Refusal(program, Goal) # "none" /\ UNCHANGED <<program, asked>>
    BY <1>2 DEF AttemptRefused
  <2>2. Goal \in Keys /\ program \in Programs /\ Surfaces(Meaning(program, Goal))
    BY <2>1, RunningFacts DEF Inductive, TypeOK
  <2>3. Meaning(program, Goal) = Err(Refusal(program, Goal))
    BY <2>1, <2>2, MeaningRule
  <2>4. Meaning(program, Root) = Err(Refusal(program, Goal))
    BY <2>2, <2>3 DEF Surfaces, Err
  <2> QED BY <2>1, <2>4, FinishedEnding
<1>3. CASE Attempt
  <2> DEFINE f == Frame(Goal, Body(program, Goal.rule), TRUE)
  <2>1. /\ Running /\ stack = <<>> /\ stack' = <<f>> /\ Refusal(program, Goal) = "none"
        /\ UNCHANGED <<program, tasks, waiting, asked, answers>>
    BY <1>3 DEF Attempt
  <2>2. Goal \in Keys /\ program \in Programs
    BY <2>1, RunningFacts DEF Inductive, TypeOK
  <2>3. /\ Steps(program, f.expr, f.vals) = RuleSteps(program, Goal)
        /\ RuleSteps(program, Goal) \in Nat
    BY <2>1, <2>2, RuleStepsType DEF RuleSteps, Frame
  <2>4. FramesEnd(program, stack', RuleSteps(program, Goal))
    <3> HIDE DEF f
    <3>1. Len(stack') = 1 /\ stack'[1] = f
      BY <2>1
    <3> QED BY <3>1, <2>3 DEF FramesEnd
  <2> QED BY <2>1, <2>4, KeepsEnding
<1> QED BY <1>1, <1>2, <1>3

(* The node or rule the innermost frame waits for takes fewer steps.       *)
LEMMA PushEnding ==
    ASSUME Inductive, Ending, stack # <<>>, NEW f \in FrameType,
           stack' = Append(stack, f), UNCHANGED <<program, tasks, waiting, asked, answers>>,
           Rest(program, Top.expr, <<>>) # Endless =>
              /\ Steps(program, f.expr, f.vals) \in Nat
              /\ Steps(program, f.expr, f.vals) < Steps(program, Top.expr, Top.vals)
    PROVE  Ending'
<1>1. ASSUME Running, Meaning(program, Root) # Endless
      PROVE  FramesEnd(program, stack', RuleSteps(program, Goal))
  <2> DEFINE n == RuleSteps(program, Goal)
             t == Steps(program, Top.expr, Top.vals)
             u == Steps(program, f.expr, f.vals)
  <2>1. FramesEnd(program, stack, n) /\ t <= n /\ t \in Nat /\ n \in Nat
    BY <1>1, NothingEndless
  <2>2. u \in Nat /\ u < t
    BY <1>1, NothingEndless
  <2>3. stack \in Seq(FrameType)
    BY DEF Inductive, TypeOK
  <2>4. u <= n
    <3> HIDE DEF n, t, u
    <3> QED BY <2>1, <2>2
  <2> QED BY <2>1, <2>3, <2>4, PushEnds
<1> QED BY <1>1, KeepsEnding

LEMMA DescendEnding ==
    ASSUME Inductive, Ending, Descend
    PROVE  Ending'
<1> DEFINE f == Frame(Top.key, Operand(Top.expr, Top.vals), FALSE)
<1>1. /\ stack # <<>> /\ Wants(Top.expr, Top.vals) /\ stack' = Append(stack, f)
      /\ UNCHANGED <<program, tasks, waiting, asked, answers>>
  BY DEF Descend
<1>2. /\ program \in Programs /\ Top.key \in Keys /\ Top.expr \in Exprs
      /\ Top.vals \in Partial(Top.expr)
      /\ Rest(program, Top.expr, Top.vals) = Rest(program, Top.expr, <<>>)
  BY <1>1, TopFacts
<1>3. Operand(Top.expr, Top.vals) \in Exprs
  BY <1>1, <1>2, WantsFacts
<1>4. f \in FrameType /\ f.expr = Operand(Top.expr, Top.vals) /\ f.vals = <<>>
  BY <1>2, <1>3 DEF Frame, FrameType
<1> HIDE DEF f
<1>5. ASSUME Rest(program, Top.expr, <<>>) # Endless
      PROVE  /\ Steps(program, f.expr, f.vals) \in Nat
             /\ Steps(program, f.expr, f.vals) < Steps(program, Top.expr, Top.vals)
  <2>1. Steps(program, Operand(Top.expr, Top.vals), <<>>) < Steps(program, Top.expr, Top.vals)
    BY <1>1, <1>2, <1>5, OperandEnds
  <2>2. Steps(program, Operand(Top.expr, Top.vals), <<>>) \in Nat
    BY <1>2, <1>3, EmptyPartial, NodeSteps
  <2> QED BY <2>1, <2>2, <1>4
<1> QED BY <1>1, <1>4, <1>5, PushEnding

LEMMA ReadRecursesEnding ==
    ASSUME Inductive, Ending, ReadRecurses
    PROVE  Ending'
<1> DEFINE f == Frame(Read, Body(program, Read.rule), TRUE)
<1>1. /\ Reading /\ stack # <<>> /\ Refusal(program, Read) = "none"
      /\ stack' = Append(stack, f)
      /\ UNCHANGED <<program, tasks, waiting, asked, answers>>
  BY DEF ReadRecurses, Known, Reading
<1>2. /\ program \in Programs /\ Read \in Keys /\ Top.expr \in Exprs
      /\ Top.expr.op = "derived" /\ Top.vals = <<>> /\ Read = Top.expr.key
  BY <1>1, TopFacts, ReadFacts DEF Reading, Read
<1>3. Body(program, Read.rule) \in Exprs
  BY <1>2, BodyType
<1>4. f \in FrameType /\ f.expr = Body(program, Read.rule) /\ f.vals = <<>>
  BY <1>2, <1>3 DEF Frame, FrameType
<1> HIDE DEF f
<1>5. ASSUME Rest(program, Top.expr, <<>>) # Endless
      PROVE  /\ Steps(program, f.expr, f.vals) \in Nat
             /\ Steps(program, f.expr, f.vals) < Steps(program, Top.expr, Top.vals)
  <2>1. RuleSteps(program, Read) < Steps(program, Top.expr, <<>>)
    BY <1>2, <1>5, ReadEnds
  <2>2. RuleSteps(program, Read) = Steps(program, f.expr, f.vals)
    BY <1>1, <1>4 DEF RuleSteps
  <2>3. RuleSteps(program, Read) \in Nat
    BY <1>2, RuleStepsType
  <2> QED BY <2>1, <2>2, <2>3, <1>2
<1> QED BY <1>1, <1>4, <1>5, PushEnding

(* The innermost frame left has fewer steps to take than it had.           *)
LEMMA FillEnding ==
    ASSUME Inductive, Ending, NEW m \in 1..Len(stack), NEW vals \in Seq(Values),
           stack' = CutBack(stack, m, vals), UNCHANGED <<program, tasks, waiting, asked, answers>>,
           Rest(program, stack[m].expr, <<>>) # Endless =>
              /\ Steps(program, stack[m].expr, vals) \in Nat
              /\ Steps(program, stack[m].expr, stack[m].vals) \in Nat
              /\ Steps(program, stack[m].expr, vals)
                    < Steps(program, stack[m].expr, stack[m].vals)
    PROVE  Ending'
<1>1. ASSUME Running, Meaning(program, Root) # Endless
      PROVE  FramesEnd(program, stack', RuleSteps(program, Goal))
  <2> DEFINE n == RuleSteps(program, Goal)
             t == Steps(program, stack[m].expr, stack[m].vals)
             u == Steps(program, stack[m].expr, vals)
  <2>1. stack \in Seq(FrameType) /\ stack # <<>>
    BY DEF Inductive, TypeOK
  <2>2. FramesEnd(program, stack, n) /\ n \in Nat
    BY <1>1, <2>1, NothingEndless
  <2>3. Surfaces(Rest(program, stack[m].expr, <<>>))
    BY DEF Inductive, StackSound
  <2>4. Rest(program, stack[m].expr, <<>>) # Endless
    BY <1>1, <2>3 DEF Surfaces, Endless, Err
  <2>5. t <= n
    BY <2>2 DEF FramesEnd
  <2>6. t \in Nat /\ u \in Nat /\ u < t
    BY <2>4
  <2>7. u <= n
    <3> HIDE DEF n, t, u
    <3> QED BY <2>2, <2>5, <2>6
  <2>8. FramesEnd(program, CutBack(stack, m, vals), n)
    <3> HIDE DEF n
    <3> QED BY <2>1, <2>2, <2>7, FillEnds
  <2> QED BY <2>8
<1> QED BY <1>1, KeepsEnding

LEMMA ReadCachedEnding ==
    ASSUME Inductive, Ending, ReadCached
    PROVE  Ending'
<1> DEFINE v == cache[Read]
           n == Len(stack)
<1>1. /\ Reading /\ Read \in DOMAIN cache
      /\ stack' = [stack EXCEPT ![n].vals = <<v>>]
      /\ UNCHANGED <<program, tasks, waiting, asked, answers>>
  BY DEF ReadCached, Known
<1>2. /\ program \in Programs /\ n \in 1..Len(stack) /\ Top = stack[n]
      /\ Top.expr \in Exprs /\ Top.expr.op = "derived" /\ Top.vals = <<>>
      /\ Read = Top.expr.key
  BY <1>1, TopFacts DEF Reading, Top, Read
<1>3. v \in Values /\ Meaning(program, Read) = Ok(v)
  BY <1>1 DEF Inductive, TypeOK, CacheSound
<1>4. <<v>> \in Seq(Values)
  BY <1>3
<1>5. /\ Append(<<>>, v) \in Partial(Top.expr) /\ <<>> \in Partial(Top.expr)
      /\ Append(<<>>, v) = <<v>>
  BY <1>2, <1>3, ReadFilled, EmptyPartial
<1>6. stack' = CutBack(stack, n, <<v>>)
  BY <1>1, WholeStack DEF Inductive, TypeOK, CutBack
<1>7. ASSUME Rest(program, Top.expr, <<>>) # Endless
      PROVE  /\ Steps(program, Top.expr, <<v>>) \in Nat
             /\ Steps(program, Top.expr, <<>>) \in Nat
             /\ Steps(program, Top.expr, <<v>>) < Steps(program, Top.expr, <<>>)
  BY <1>2, <1>3, <1>5, <1>7, NodeSteps, ReadEnds
<1> HIDE DEF n, v
<1> QED BY <1>1, <1>2, <1>4, <1>6, <1>7, FillEnding

LEMMA CutBackDeliver ==
    ASSUME Inductive, stack # <<>>, Len(stack) # 1, NEW v, Deliver(v)
    PROVE  stack' = CutBack(stack, Len(stack) - 1, Append(Caller.vals, v))
BY CallerFacts DEF CutBack

LEMMA ReturnEnding ==
    ASSUME Inductive, Ending, Return
    PROVE  Ending'
<1> DEFINE v == Outcome.val
           m == Len(stack) - 1
           vals == Append(Caller.vals, v)
<1>1. /\ Complete /\ Outcome.ok /\ ~Top.body /\ Deliver(v) /\ stack # <<>>
      /\ UNCHANGED <<program, tasks, waiting, asked, answers>>
  BY DEF Return, Complete
<1>2. /\ Outcome \in Outcomes /\ Outcome = Rest(program, Top.expr, <<>>)
      /\ v \in Values /\ Outcome = Ok(v)
  BY <1>1, CompleteFacts, OutcomeCases
<1>3. Len(stack) # 1
  BY <1>1 DEF Inductive, StackSound, Top
<1>4. /\ m \in 1..Len(stack) /\ program \in Programs /\ Caller = stack[m]
      /\ Caller.expr \in Exprs /\ Caller.vals \in Partial(Caller.expr)
      /\ Rest(program, Caller.expr, Caller.vals) = Rest(program, Caller.expr, <<>>)
      /\ Wants(Caller.expr, Caller.vals) /\ Top.expr = Operand(Caller.expr, Caller.vals)
  BY <1>1, <1>3, CallerFacts, TopFacts DEF Follows, Caller
<1>5. stack' = CutBack(stack, m, vals)
  BY <1>1, <1>3, CutBackDeliver
<1>6. vals \in Partial(Caller.expr) /\ vals \in Seq(Values)
  BY <1>2, <1>4, WantsFacts, AppendPartial, PartialFacts
<1>7. ASSUME Rest(program, Caller.expr, <<>>) # Endless
      PROVE  /\ Steps(program, Caller.expr, vals) \in Nat
             /\ Steps(program, Caller.expr, Caller.vals) \in Nat
             /\ Steps(program, Caller.expr, vals) < Steps(program, Caller.expr, Caller.vals)
  <2>1. Rest(program, Operand(Caller.expr, Caller.vals), <<>>) = Ok(v)
    BY <1>2, <1>4
  <2>2. Steps(program, Caller.expr, vals) < Steps(program, Caller.expr, Caller.vals)
    BY <2>1, <1>2, <1>4, <1>7, OperandEnds
  <2> QED BY <2>2, <1>4, <1>6, NodeSteps
<1> HIDE DEF m, v, vals
<1> QED BY <1>1, <1>4, <1>5, <1>6, <1>7, FillEnding

LEMMA ReturnFromRuleEnding ==
    ASSUME Inductive, Ending, ReturnFromRule
    PROVE  Ending'
<1> DEFINE v == Outcome.val
           w == Rounded(program, Top.key, v)
           m == Len(stack) - 1
<1>1. /\ Complete /\ Outcome.ok /\ Top.body /\ stack # <<>>
      /\ IF Len(stack) = 1 THEN CompleteGoal(w)
         ELSE Deliver(w) /\ UNCHANGED <<tasks, waiting, answers>>
      /\ UNCHANGED <<program, asked>>
  BY DEF ReturnFromRule, Complete, Depth
<1>2. /\ Outcome \in Outcomes /\ Outcome = Rest(program, Top.expr, <<>>)
      /\ v \in Values /\ Running
  BY <1>1, CompleteFacts, OutcomeCases
<1>3. /\ program \in Programs /\ Top.key \in Keys
      /\ Top.expr = Body(program, Top.key.rule) /\ Refusal(program, Top.key) = "none"
  BY <1>1, TopFacts
<1>4. w \in Values /\ Meaning(program, Top.key) = Ok(w)
  BY <1>1, <1>2, <1>3, MeaningRule, RoundedType
<1> HIDE DEF w, v
<1>5. CASE Len(stack) = 1
  <2>1. Top.key = Goal
    BY <1>5, <1>1 DEF Inductive, StackSound, Top
  <2> QED BY <1>5, <2>1, <1>1, <1>2, <1>4, CompleteGoalEnding
<1>6. CASE Len(stack) # 1
  <2>1. /\ m \in 1..Len(stack) /\ Caller = stack[m]
        /\ Caller.expr \in Exprs /\ Caller.vals = <<>>
        /\ Caller.expr.op = "derived" /\ Top.key = Caller.expr.key
    BY <1>6, <1>1, CallerFacts DEF Follows, Caller
  <2>2. stack' = CutBack(stack, m, <<w>>)
    <3>1. Append(Caller.vals, w) = <<w>>
      BY <2>1
    <3> QED BY <3>1, <1>6, <1>1, CutBackDeliver
  <2>3. /\ Append(<<>>, w) \in Partial(Caller.expr) /\ <<>> \in Partial(Caller.expr)
        /\ Append(<<>>, w) = <<w>> /\ <<w>> \in Seq(Values)
    BY <2>1, <1>3, <1>4, ReadFilled, EmptyPartial
  <2>4. ASSUME Rest(program, Caller.expr, <<>>) # Endless
        PROVE  /\ Steps(program, Caller.expr, <<w>>) \in Nat
               /\ Steps(program, Caller.expr, <<>>) \in Nat
               /\ Steps(program, Caller.expr, <<w>>) < Steps(program, Caller.expr, <<>>)
    BY <2>1, <2>3, <2>4, <1>3, <1>4, NodeSteps, ReadEnds
  <2> HIDE DEF m
  <2> QED BY <2>1, <2>2, <2>3, <2>4, <1>1, <1>6, FillEnding
<1> QED BY <1>5, <1>6

(* An error is the error unbounded recursion gives the query.              *)
LEMMA ErrorsEnding ==
    ASSUME Inductive, Ending, ReadUnknown \/ ReadRefused \/ Fail
    PROVE  Ending'
<1>1. CASE ReadUnknown \/ ReadRefused
  <2>1. /\ Reading /\ stack # <<>> /\ Refusal(program, Read) # "none"
        /\ Finished(Err(Refusal(program, Read))) /\ UNCHANGED <<program, asked>>
    BY <1>1 DEF ReadUnknown, ReadRefused, Known, Reading, Refusal
  <2>2. /\ program \in Programs /\ Running /\ Read \in Keys
        /\ Surfaces(Meaning(program, Read))
    BY <2>1, TopFacts, ReadFacts
  <2>3. Meaning(program, Read) = Err(Refusal(program, Read))
    BY <2>1, <2>2, MeaningRule
  <2>4. Meaning(program, Root) = Err(Refusal(program, Read))
    BY <2>2, <2>3 DEF Surfaces, Err
  <2> QED BY <2>1, <2>2, <2>4, FinishedEnding
<1>2. CASE Fail
  <2>1. /\ Complete /\ ~Outcome.ok /\ Finished(Outcome) /\ stack # <<>>
        /\ UNCHANGED <<program, asked>>
    BY <1>2 DEF Fail, Complete
  <2>2. /\ Running /\ Outcome = Rest(program, Top.expr, <<>>)
        /\ Surfaces(Rest(program, Top.expr, <<>>))
    BY <2>1, CompleteFacts, TopFacts
  <2>3. Meaning(program, Root) = Outcome
    BY <2>1, <2>2 DEF Surfaces
  <2> QED BY <2>1, <2>2, <2>3, FinishedEnding
<1> QED BY <1>1, <1>2

(* A rule read below the last task takes fewer steps than any open task.   *)
LEMMA ReadBelowTasks ==
    ASSUME Inductive, Ending, Reading, Meaning(program, Root) # Endless
    PROVE  /\ TasksEnd
           /\ \A i \in 1..Len(tasks) :
                 RuleSteps(program, Read) < RuleSteps(program, tasks[i])
<1> DEFINE r == RuleSteps(program, Read)
           t == Steps(program, Top.expr, <<>>)
           n == RuleSteps(program, Goal)
<1>1. /\ stack # <<>> /\ program \in Programs /\ Read \in Keys
      /\ Top.expr \in Exprs /\ Top.expr.op = "derived" /\ Top.vals = <<>>
      /\ Read = Top.expr.key
  BY TopFacts, ReadFacts DEF Reading, Read
<1>2. /\ Rest(program, Top.expr, <<>>) # Endless /\ TasksEnd
      /\ t <= n /\ t \in Nat /\ n \in Nat
  BY <1>1, NothingEndless
<1>3. r < t /\ r \in Nat
  BY <1>1, <1>2, ReadEnds, RuleStepsType
<1>4. tasks \in Seq(Keys) /\ Len(tasks) \in Nat
  BY DEF Inductive, TypeOK
<1>5. ASSUME NEW i \in 1..Len(tasks)
      PROVE  r < RuleSteps(program, tasks[i])
  <2> DEFINE m == RuleSteps(program, tasks[i])
  <2>1. m \in Nat
    BY <1>1, <1>4, <1>5, RuleStepsType
  <2>2. Goal = tasks[Len(tasks)]
    BY <1>4, <1>5 DEF Goal
  <2>3. n <= m
    <3>1. CASE i = Len(tasks)
      BY <3>1, <2>2, <1>2
    <3>2. CASE i # Len(tasks)
      <4>1. i < Len(tasks) /\ Len(tasks) \in 1..Len(tasks)
        BY <3>2, <1>4
      <4>2. n < m
        BY <4>1, <2>2, <1>2 DEF TasksEnd
      <4> HIDE DEF n, m
      <4> QED BY <4>2, <2>1, <1>2
    <3> QED BY <3>1, <3>2
  <2> HIDE DEF r, t, n, m
  <2>4. r < m
    BY <2>1, <2>3, <1>2, <1>3
  <2> QED BY <2>4 DEF m, r
<1> QED BY <1>2, <1>5

LEMMA ReadDeferredEnding ==
    ASSUME Inductive, Ending, ReadDeferred
    PROVE  Ending'
<1>1. /\ Reading /\ stack' = <<>> /\ tasks' = Append(tasks, Read)
      /\ waiting' = waiting \cup {Read} /\ UNCHANGED <<program, asked, answers>>
  BY DEF ReadDeferred, Known
<1>2. tasks \in Seq(Keys) /\ Len(tasks) \in Nat /\ Read \in Keys
  BY <1>1, ReadFacts DEF Inductive, TypeOK
<1>3. /\ Len(tasks') = Len(tasks) + 1 /\ tasks'[Len(tasks) + 1] = Read
      /\ \A i \in 1..Len(tasks) : tasks'[i] = tasks[i]
  BY <1>1, <1>2, AppendProperties
<1>4. WaitingOpen'
  <2>1. ASSUME NEW k \in waiting'
        PROVE  \E i \in 1..Len(tasks') : tasks'[i] = k
    <3>1. CASE k = Read
      <4>1. Len(tasks) + 1 \in 1..Len(tasks')
        BY <1>2, <1>3
      <4> QED BY <3>1, <4>1, <1>3
    <3>2. CASE k \in waiting
      <4>1. PICK i \in 1..Len(tasks) : tasks[i] = k
        BY <3>2 DEF Ending, WaitingOpen
      <4>2. i \in 1..Len(tasks')
        BY <1>2, <1>3
      <4> QED BY <4>1, <4>2, <1>3
    <3> QED BY <2>1, <3>1, <3>2, <1>1
  <2> QED BY <2>1 DEF WaitingOpen
<1>5. QueryEnds'
  <2>1. Root' = Root /\ StackEnds'
    BY <1>1 DEF Root, StackEnds
  <2>2. ASSUME Meaning(program, Root) # Endless
        PROVE  TasksEnd'
    <3>1. /\ TasksEnd
          /\ \A i \in 1..Len(tasks) : RuleSteps(program, Read) < RuleSteps(program, tasks[i])
      BY <1>1, <2>2, ReadBelowTasks
    <3>2. ASSUME NEW i \in 1..Len(tasks'), NEW j \in 1..Len(tasks'), i < j
          PROVE  RuleSteps(program, tasks'[j]) < RuleSteps(program, tasks'[i])
      <4>1. i \in 1..Len(tasks)
        BY <3>2, <1>2, <1>3
      <4>2. CASE j \in 1..Len(tasks)
        BY <4>1, <4>2, <3>1, <3>2, <1>3 DEF TasksEnd
      <4>3. CASE j \notin 1..Len(tasks)
        <5>1. j = Len(tasks) + 1
          BY <4>3, <1>2, <1>3
        <5> QED BY <4>1, <5>1, <3>1, <1>3
      <4> QED BY <4>2, <4>3
    <3> QED BY <3>2, <1>1 DEF TasksEnd
  <2> QED BY <2>1, <2>2, <1>1 DEF QueryEnds
<1>6. AnswersSound'
  BY <1>1 DEF Ending, AnswersSound
<1> QED BY <1>4, <1>5, <1>6 DEF Ending

(* A rule waited for is an open task: it would take fewer steps than it    *)
(* takes, so the query does not end, and the cycle reported is its own.    *)
LEMMA ReadCycleEnding ==
    ASSUME Inductive, Ending, ReadCycle
    PROVE  Ending'
<1>1. /\ Reading /\ stack # <<>> /\ Read \in waiting
      /\ Finished(Endless) /\ UNCHANGED <<program, asked>>
  BY DEF ReadCycle, Known, Endless, Reading
<1>2. Running /\ program \in Programs /\ Read \in Keys
  BY <1>1, TopFacts, ReadFacts
<1>3. Meaning(program, Root) = Endless
  <2>1. SUFFICES ASSUME Meaning(program, Root) # Endless
                 PROVE  FALSE
    OBVIOUS
  <2>2. PICK i \in 1..Len(tasks) : tasks[i] = Read
    BY <1>1 DEF Ending, WaitingOpen
  <2>3. RuleSteps(program, Read) < RuleSteps(program, Read)
    BY <2>1, <2>2, <1>1, ReadBelowTasks
  <2> QED BY <2>3, <1>2, RuleStepsType
<1> QED BY <1>1, <1>2, <1>3, FinishedEnding

-----------------------------------------------------------------------------
LEMMA InitEnding ==
    ASSUME Init
    PROVE  Ending
BY DEF Init, Ending, QueryEnds, StackEnds, TasksEnd, WaitingOpen, AnswersSound

LEMMA NextEnding ==
    ASSUME Inductive, Ending, [Next]_vars
    PROVE  Ending'
<1>1. CASE UNCHANGED vars
  <2>1. UNCHANGED <<program, stack, tasks, waiting, asked, answers>>
    BY <1>1 DEF vars, driver
  <2> QED BY <2>1 DEF Ending, QueryEnds, StackEnds, TasksEnd, WaitingOpen, AnswersSound,
             Running, Root, Goal
<1>2. CASE \E k \in Keys : Ask(k)
  BY <1>2, AskEnding
<1>3. CASE Step
  BY <1>3, AttemptsEnding, DescendEnding, ErrorsEnding, ReadCachedEnding, ReadDeferredEnding,
     ReadCycleEnding, ReadRecursesEnding, ReturnEnding, ReturnFromRuleEnding DEF Step
<1> QED BY <1>1, <1>2, <1>3 DEF Next

(* The query's tasks and frames take ever fewer steps, all along.          *)
THEOREM EndingHolds == Spec => []Ending
<1>1. Init => Ending
  BY InitEnding
<1>2. Inductive /\ Ending /\ [Next]_vars => Ending'
  BY NextEnding
<1> QED BY <1>1, <1>2, InductiveHolds, PTL DEF Spec

(* Every answer is the meaning of the rule asked for, for every program,   *)
(* threshold and sequence of queries; a dependency cycle is reported       *)
(* exactly where unbounded recursion has no end (engine.rs, `drive`).      *)
THEOREM AnswersCorrect == Spec => []AnswersSound
BY EndingHolds, PTL DEF Ending

-----------------------------------------------------------------------------
(* A step answers the query at most, or asks one.                          *)
LEMMA StepAnswers ==
    ASSUME Step
    PROVE  /\ program' = program /\ asked' = asked
           /\ \/ answers' = answers
              \/ \E o : answers' = Append(answers, o)
<1>1. CASE AttemptCached
  BY <1>1 DEF AttemptCached, CompleteGoal, Finished
<1>2. CASE AttemptRefused
  BY <1>2 DEF AttemptRefused, Finished
<1>3. CASE Attempt \/ Descend \/ ReadCached \/ ReadDeferred \/ ReadRecurses \/ Return
  BY <1>3 DEF Attempt, Descend, ReadCached, ReadDeferred, ReadRecurses, Return
<1>4. CASE ReadUnknown \/ ReadCycle \/ ReadRefused \/ Fail
  BY <1>4 DEF ReadUnknown, ReadCycle, ReadRefused, Fail, Finished
<1>5. CASE ReturnFromRule
  <2>1. PICK w : /\ IF Depth = 1 THEN CompleteGoal(w)
                    ELSE Deliver(w) /\ UNCHANGED <<tasks, waiting, answers>>
                 /\ UNCHANGED <<program, asked>>
    BY <1>5 DEF ReturnFromRule
  <2> QED BY <2>1 DEF CompleteGoal, Finished
<1> QED BY <1>1, <1>2, <1>3, <1>4, <1>5 DEF Step

(* A step of the interpreter is a step of what the engine promises.        *)
LEMMA StepImplements ==
    ASSUME Inductive, Inductive', AnswersSound', [Next]_vars
    PROVE  [Promise!Next]_(Promise!vars)
<1>1. CASE UNCHANGED vars
  BY <1>1 DEF vars, Promise!vars
<1>2. ASSUME NEW k \in Keys, Ask(k)
      PROVE  Promise!Ask(k)
  <2>1. /\ asked \in Seq(Keys) /\ answers \in Seq(Outcomes)
        /\ Len(answers) \in {Len(asked), Len(asked) - 1}
    BY DEF Inductive, TypeOK, QueriesSound
  <2>2. Len(asked) = Len(answers)
    BY <1>2, <2>1 DEF Ask, Running
  <2> QED BY <1>2, <2>2 DEF Ask, Promise!Ask
<1>3. CASE Step
  <2>1. CASE answers' = answers
    BY <1>3, <2>1, StepAnswers DEF Promise!vars
  <2>2. CASE \E o : answers' = Append(answers, o)
    <3>1. PICK o : answers' = Append(answers, o)
      BY <2>2
    <3>2. program' = program /\ asked' = asked
      BY <1>3, StepAnswers
    <3>3. /\ asked \in Seq(Keys) /\ answers \in Seq(Outcomes)
          /\ Len(answers) \in {Len(asked), Len(asked) - 1}
          /\ Len(answers') \in {Len(asked), Len(asked) - 1}
      BY <3>2 DEF Inductive, TypeOK, QueriesSound
    <3>4. /\ Len(answers') = Len(answers) + 1 /\ Len(answers) \in Nat /\ Len(asked) \in Nat
          /\ answers'[Len(answers) + 1] = o
      BY <3>1, <3>3
    <3>5. Len(answers) < Len(asked) /\ Len(asked) = Len(answers) + 1
      BY <3>3, <3>4
    <3>6. o = Meaning(program, asked[Len(asked)])
      <4>1. Len(asked) \in 1..Len(answers')
        BY <3>4, <3>5
      <4>2. answers'[Len(asked)] = Meaning(program, asked[Len(asked)])
        BY <4>1, <3>2 DEF AnswersSound
      <4> QED BY <4>2, <3>4, <3>5
    <3>7. Promise!Answer
      BY <3>1, <3>2, <3>5, <3>6 DEF Promise!Answer
    <3> QED BY <3>7 DEF Promise!Next
  <2> QED BY <1>3, <2>1, <2>2, StepAnswers
<1> QED BY <1>1, <1>2, <1>3 DEF Next, Promise!Next

(* The interpreter with its driver, caches, retries and threshold answers  *)
(* each query as the abstract engine of Evaluation does: every step is one *)
(* of Evaluation's or changes nothing a caller sees (engine.rs,            *)
(* `evaluate_scalar`, `evaluate_judgment` and `drive`).                    *)
THEOREM ImplementsSafely == Spec => Promise!SafeSpec
<1>1. Init => Promise!Init
  BY DEF Init, Promise!Init
<1>2. /\ Inductive /\ Inductive' /\ AnswersSound' /\ [Next]_vars
      => [Promise!Next]_(Promise!vars)
  BY StepImplements
<1> QED BY <1>1, <1>2, InductiveHolds, AnswersCorrect, PTL DEF Spec, Promise!SafeSpec

-----------------------------------------------------------------------------
(* The bound on the stack. The invariant, over given values: no frame's    *)
(* levels reach past `n` and the nesting of one rule.                      *)
Reaches(p, i, e, n) == \E r \in Rules : i + Height[e] <= n + Height[Body(p, r)]

LEMMA HeightFacts ==
    ASSUME NEW e \in Exprs
    PROVE  /\ Height[e] \in Nat /\ Height[e] >= 1
           /\ \A i \in 1..Len(e.args) : Height[e.args[i]] < Height[e]
BY FormulaAssumption

LEMMA PositionFacts ==
    ASSUME NEW e \in Exprs, NEW vals \in Partial(e), Wants(e, vals)
    PROVE  Position(e, vals) \in 1..Len(e.args)
<1>1. /\ Len(vals) \in Nat /\ Len(e.args) \in Nat
      /\ e.op = "div" => Len(e.args) = 2
      /\ e.op = "if" => Len(e.args) = 3
  BY NodeFacts, PartialFacts
<1>2. CASE e.op = "div"
  <2>1. Position(e, vals) \in {1, 2}
    BY <1>2 DEF Position
  <2>2. Len(e.args) = 2
    BY <1>1, <1>2
  <2> QED BY <2>1, <2>2
<1>3. CASE e.op = "if"
  <2>1. Position(e, vals) \in {1, 2, 3}
    BY <1>3 DEF Position
  <2>2. Len(e.args) = 3
    BY <1>1, <1>3
  <2> QED BY <2>1, <2>2
<1>4. CASE e.op \notin {"div", "if"}
  <2>1. Len(vals) < Len(e.args)
    BY <1>4 DEF Wants
  <2>2. Position(e, vals) = Len(vals) + 1
    BY <1>4 DEF Position
  <2> QED BY <1>1, <2>1, <2>2
<1> QED BY <1>2, <1>3, <1>4

LEMMA OperandHeight ==
    ASSUME NEW e \in Exprs, NEW vals \in Partial(e), Wants(e, vals)
    PROVE  /\ Operand(e, vals) \in Exprs
           /\ Height[Operand(e, vals)] \in Nat
           /\ Height[Operand(e, vals)] + 1 <= Height[e]
<1>1. Height[Operand(e, vals)] < Height[e]
  BY PositionFacts, HeightFacts DEF Operand
<1> QED BY <1>1, WantsFacts, HeightFacts

FramesWithin(p, s, n) == \A i \in 1..Len(s) : Reaches(p, i, s[i].expr, n)

LEMMA PushWithin ==
    ASSUME NEW p, NEW n, NEW s \in Seq(FrameType), FramesWithin(p, s, n),
           NEW f \in FrameType, Reaches(p, Len(s) + 1, f.expr, n)
    PROVE  FramesWithin(p, Append(s, f), n)
<1>1. /\ Len(Append(s, f)) = Len(s) + 1 /\ Len(s) \in Nat
      /\ \A i \in 1..Len(s) : Append(s, f)[i] = s[i]
      /\ Append(s, f)[Len(s) + 1] = f
  BY AppendProperties
<1>2. ASSUME NEW i \in 1..Len(Append(s, f))
      PROVE  Reaches(p, i, Append(s, f)[i].expr, n)
  <2>1. i \in 1..Len(s) \/ i = Len(s) + 1
    BY <1>1
  <2> QED BY <2>1, <1>1 DEF FramesWithin
<1> QED BY <1>2 DEF FramesWithin

LEMMA FillWithin ==
    ASSUME NEW p, NEW n, NEW s \in Seq(FrameType), FramesWithin(p, s, n),
           NEW m \in 1..Len(s), NEW vals \in Seq(Values)
    PROVE  FramesWithin(p, CutBack(s, m, vals), n)
<1>0. PICK t : t = CutBack(s, m, vals)
  OBVIOUS
<1>1. /\ Len(t) = m /\ m \in Nat /\ t[m].expr = s[m].expr
      /\ \A i \in 1..m : i # m => t[i] = s[i]
  BY <1>0, FillElements
<1>2. ASSUME NEW i \in 1..Len(t)
      PROVE  Reaches(p, i, t[i].expr, n)
  <2>1. i \in 1..Len(s) /\ t[i].expr = s[i].expr
    <3>1. CASE i = m
      BY <3>1, <1>1
    <3>2. CASE i # m
      BY <3>2, <1>1
    <3> QED BY <3>1, <3>2
  <2> QED BY <2>1 DEF FramesWithin
<1> QED BY <1>0, <1>2 DEF FramesWithin

-----------------------------------------------------------------------------
LEMMA WithinIsBounded ==
    FramesBounded <=> FramesWithin(program, stack, suspend_depth)
BY DEF FramesBounded, FramesWithin, Reaches

LEMMA DescendWithin ==
    ASSUME Inductive, FramesWithin(program, stack, suspend_depth), Descend
    PROVE  FramesWithin(program, stack', suspend_depth)
<1> DEFINE e == Operand(Top.expr, Top.vals)
           f == Frame(Top.key, e, FALSE)
           n == Len(stack)
<1>1. stack # <<>> /\ Wants(Top.expr, Top.vals) /\ stack' = Append(stack, f)
  BY DEF Descend
<1>2. /\ program \in Programs /\ n \in Nat \ {0} /\ Top.key \in Keys
      /\ Top.expr \in Exprs /\ Top.vals \in Partial(Top.expr)
  BY <1>1, TopFacts
<1>3. e \in Exprs /\ Height[e] \in Nat /\ Height[e] + 1 <= Height[Top.expr]
  BY <1>1, <1>2, OperandHeight
<1>4. f \in FrameType /\ f.expr = e
  BY <1>2, <1>3 DEF Frame, FrameType
<1>5. n \in 1..Len(stack) /\ Top = stack[n]
  BY <1>2 DEF Top
<1>6. PICK r \in Rules : n + Height[Top.expr] <= suspend_depth + Height[Body(program, r)]
  BY <1>5 DEF FramesWithin, Reaches
<1>7. Body(program, r) \in Exprs
  BY <1>2, ProgramAssumption
<1>8. /\ Height[Body(program, r)] \in Nat /\ Height[Top.expr] \in Nat
      /\ suspend_depth \in Nat
  BY <1>2, <1>7, HeightFacts DEF Inductive, TypeOK
<1> HIDE DEF e, f, n
<1>9. n + 1 + Height[e] <= suspend_depth + Height[Body(program, r)]
  BY <1>2, <1>3, <1>6, <1>8
<1>10. Reaches(program, n + 1, f.expr, suspend_depth)
  BY <1>4, <1>9 DEF Reaches
<1>11. stack \in Seq(FrameType)
  BY DEF Inductive, TypeOK
<1> QED BY <1>1, <1>4, <1>10, <1>11, PushWithin DEF n

(* A rule is entered on fewer levels than the threshold.                   *)
LEMMA EntersWithin ==
    ASSUME Inductive, FramesWithin(program, stack, suspend_depth), ReadRecurses
    PROVE  FramesWithin(program, stack', suspend_depth)
<1> DEFINE f == Frame(Read, Body(program, Read.rule), TRUE)
           n == Len(stack)
<1>1. /\ Reading /\ stack # <<>> /\ stack' = Append(stack, f)
      /\ ~(n >= suspend_depth)
  BY DEF ReadRecurses, Known, Reading, Recurses, Defers, Depth
<1>2. /\ program \in Programs /\ Read \in Keys /\ Read.rule \in Rules /\ n \in Nat
  BY <1>1, TopFacts, ReadFacts
<1>3. Body(program, Read.rule) \in Exprs
  BY <1>2, BodyType
<1>4. f \in FrameType /\ f.expr = Body(program, Read.rule)
  BY <1>2, <1>3 DEF Frame, FrameType
<1>5. Height[f.expr] \in Nat /\ suspend_depth \in Nat
  BY <1>3, <1>4, HeightFacts DEF Inductive, TypeOK
<1> HIDE DEF f, n
<1>6. n + 1 + Height[f.expr] <= suspend_depth + Height[Body(program, Read.rule)]
  BY <1>1, <1>2, <1>4, <1>5
<1>7. Reaches(program, n + 1, f.expr, suspend_depth)
  BY <1>2, <1>6 DEF Reaches
<1>8. stack \in Seq(FrameType)
  BY DEF Inductive, TypeOK
<1> QED BY <1>1, <1>4, <1>7, <1>8, PushWithin DEF n

LEMMA AttemptWithin ==
    ASSUME Inductive, Attempt
    PROVE  FramesWithin(program, stack', suspend_depth)
<1> DEFINE e == Body(program, Goal.rule)
           f == Frame(Goal, e, TRUE)
<1>1. Running /\ stack' = <<f>>
  BY DEF Attempt
<1>2. Goal \in Keys /\ Goal.rule \in Rules /\ program \in Programs
  BY <1>1, RunningFacts DEF Inductive, TypeOK, Keys
<1>3. Height[e] \in Nat /\ suspend_depth \in Nat \ {0}
  BY <1>2, BodyType, HeightFacts DEF Inductive, TypeOK
<1>4. 1 + Height[e] <= suspend_depth + Height[e]
  <2> HIDE DEF e
  <2> QED BY <1>3
<1>5. Reaches(program, 1, e, suspend_depth)
  BY <1>2, <1>4 DEF Reaches
<1>6. Len(stack') = 1 /\ stack'[1] = f /\ f.expr = e
  BY <1>1 DEF Frame
<1> HIDE DEF e, f
<1> QED BY <1>5, <1>6 DEF FramesWithin

(* A step that gives a frame operand values leaves its levels as they are. *)
LEMMA FillsWithin ==
    ASSUME Inductive, FramesWithin(program, stack, suspend_depth), ReadCached \/ Return
    PROVE  FramesWithin(program, stack', suspend_depth)
<1>0. stack \in Seq(FrameType)
  BY DEF Inductive, TypeOK
<1>1. CASE ReadCached
  <2> DEFINE v == cache[Read]
             n == Len(stack)
  <2>1. /\ Reading /\ Read \in DOMAIN cache /\ stack # <<>>
        /\ stack' = [stack EXCEPT ![n].vals = <<v>>]
    BY <1>1 DEF ReadCached, Known, Reading
  <2>2. <<v>> \in Seq(Values)
    BY <2>1 DEF Inductive, TypeOK
  <2>3. stack' = CutBack(stack, n, <<v>>)
    BY <2>1, <1>0, WholeStack DEF CutBack
  <2>4. n \in 1..Len(stack)
    BY <2>1, <1>0
  <2> HIDE DEF n, v
  <2> QED BY <2>2, <2>3, <2>4, <1>0, FillWithin
<1>2. CASE Return
  <2> DEFINE v == Outcome.val
             m == Len(stack) - 1
             vals == Append(Caller.vals, v)
  <2>1. Complete /\ Outcome.ok /\ ~Top.body /\ Deliver(v) /\ stack # <<>>
    BY <1>2 DEF Return, Complete
  <2>2. v \in Values
    BY <2>1, CompleteFacts, OutcomeCases
  <2>3. Len(stack) # 1
    BY <2>1 DEF Inductive, StackSound, Top
  <2>4. m \in 1..Len(stack) /\ Caller.expr \in Exprs /\ Caller.vals \in Partial(Caller.expr)
    BY <2>1, <2>3, CallerFacts
  <2>5. vals \in Seq(Values)
    BY <2>2, <2>4, PartialFacts
  <2>6. stack' = CutBack(stack, m, vals)
    BY <2>1, <2>3, CutBackDeliver
  <2> HIDE DEF m, v, vals
  <2> QED BY <2>4, <2>5, <2>6, <1>0, FillWithin
<1> QED BY <1>1, <1>2

LEMMA EmptyWithin ==
    ASSUME NEW p, NEW n, NEW s, s = <<>>
    PROVE  FramesWithin(p, s, n)
BY DEF FramesWithin

LEMMA ReturnFromRuleWithin ==
    ASSUME Inductive, FramesWithin(program, stack, suspend_depth), ReturnFromRule
    PROVE  FramesWithin(program, stack', suspend_depth)
<1> DEFINE w == Rounded(program, Top.key, Outcome.val)
           m == Len(stack) - 1
<1>1. /\ Complete /\ Outcome.ok /\ Top.body /\ stack # <<>>
      /\ IF Len(stack) = 1 THEN CompleteGoal(w)
         ELSE Deliver(w) /\ UNCHANGED <<tasks, waiting, answers>>
  BY DEF ReturnFromRule, Complete, Depth
<1>2. w \in Values
  BY <1>1, CompleteFacts, OutcomeCases, RoundedType
<1> HIDE DEF w
<1>3. CASE Len(stack) = 1
  <2>1. stack' = <<>>
    BY <1>1, <1>3 DEF CompleteGoal, Finished
  <2> QED BY <2>1, EmptyWithin
<1>4. CASE Len(stack) # 1
  <2>1. m \in 1..Len(stack) /\ Caller.vals \in Partial(Caller.expr) /\ Caller.expr \in Exprs
    BY <1>1, <1>4, CallerFacts
  <2>2. stack' = CutBack(stack, m, Append(Caller.vals, w))
    BY <1>1, <1>4, CutBackDeliver
  <2>3. Append(Caller.vals, w) \in Seq(Values)
    BY <1>2, <2>1, PartialFacts
  <2>4. stack \in Seq(FrameType)
    BY DEF Inductive, TypeOK
  <2> HIDE DEF m
  <2> QED BY <2>1, <2>2, <2>3, <2>4, FillWithin
<1> QED BY <1>3, <1>4

LEMMA StepWithin ==
    ASSUME Inductive, FramesWithin(program, stack, suspend_depth), [Next]_vars
    PROVE  FramesWithin(program, stack', suspend_depth)
<1>1. CASE stack' = stack
  BY <1>1
<1>2. CASE AttemptCached \/ AttemptRefused \/ ReadUnknown \/ ReadDeferred \/ ReadCycle
           \/ ReadRefused \/ Fail
  <2>1. stack' = <<>>
    BY <1>2 DEF AttemptCached, CompleteGoal, AttemptRefused, ReadUnknown, ReadDeferred,
       ReadCycle, ReadRefused, Fail, Finished
  <2> QED BY <2>1, EmptyWithin
<1>3. CASE Attempt \/ Descend \/ ReadRecurses \/ ReadCached \/ Return \/ ReturnFromRule
  BY <1>3, AttemptWithin, DescendWithin, EntersWithin, FillsWithin, ReturnFromRuleWithin
<1>4. CASE UNCHANGED vars \/ \E k \in Keys : Ask(k)
  <2>1. stack' = stack
    BY <1>4 DEF vars, driver, Ask
  <2> QED BY <2>1
<1> QED BY <1>2, <1>3, <1>4 DEF Next, Step

LEMMA NextBounded ==
    ASSUME Inductive, FramesBounded, [Next]_vars
    PROVE  FramesBounded'
<1>1. FramesWithin(program, stack', suspend_depth)
  BY WithinIsBounded, StepWithin
<1>2. program' = program /\ suspend_depth' = suspend_depth
  BY DEF Next, vars, Ask, Step, AttemptCached, AttemptRefused, Attempt, Descend, ReadUnknown,
     ReadCached, ReadDeferred, ReadCycle, ReadRefused, ReadRecurses, Fail, Return, ReturnFromRule
<1> QED BY <1>1, <1>2 DEF FramesBounded, FramesWithin, Reaches

(* The innermost frame has a level of its own.                             *)
LEMMA BoundedStack ==
    ASSUME Inductive, FramesBounded
    PROVE  StackBound
<1>1. SUFFICES ASSUME stack # <<>>
               PROVE  \E r \in Rules : Depth <= suspend_depth - 1 + Height[Body(program, r)]
  BY DEF StackBound
<1>2. Len(stack) \in Nat \ {0} /\ program \in Programs /\ Top.expr \in Exprs
  BY <1>1, TopFacts
<1>3. PICK r \in Rules :
         Len(stack) + Height[Top.expr] <= suspend_depth + Height[Body(program, r)]
  BY <1>2 DEF FramesBounded, Top
<1>4. Body(program, r) \in Exprs
  BY <1>2, ProgramAssumption
<1>5. /\ Height[Top.expr] \in Nat /\ Height[Top.expr] >= 1
      /\ Height[Body(program, r)] \in Nat /\ suspend_depth \in Nat
  BY <1>2, <1>4, HeightFacts DEF Inductive, TypeOK
<1>6. Len(stack) <= suspend_depth - 1 + Height[Body(program, r)]
  BY <1>2, <1>3, <1>5
<1> QED BY <1>6 DEF Depth

(* However long the chain of rules a program makes, and whatever was asked *)
(* before, the interpreter's stack stays within the threshold and the      *)
(* nesting of one rule's formula (depth.rs and engine.rs, `defer_rule`).   *)
THEOREM StackBounded == Spec => []StackBound
<1>1. Init => FramesBounded
  BY DEF Init, FramesBounded
<1>2. Inductive /\ FramesBounded /\ [Next]_vars => FramesBounded'
  BY NextBounded
<1>3. Inductive /\ FramesBounded => StackBound
  BY BoundedStack
<1> QED BY <1>1, <1>2, <1>3, InductiveHolds, PTL DEF Spec

-----------------------------------------------------------------------------
(***************************************************************************)
(* The trace of a finished rule is exact. An attempt that is cut short     *)
(* leaves a beginning of the rule's trace, and the attempts after it list  *)
(* nothing twice and nothing early: a read is recorded when all the reads  *)
(* before it are listed, so a new edge is the next first occurrence.       *)
(***************************************************************************)

LEMMA ConcatListed ==
    ASSUME NEW S, NEW s \in Seq(S), NEW t \in Seq(S)
    PROVE  Listed(s \o t) = Listed(s) \cup Listed(t)
<1>1. /\ Len(s) \in Nat /\ Len(t) \in Nat
      /\ Len(s \o t) = Len(s) + Len(t)
      /\ \A i \in 1..(Len(s) + Len(t)) :
            (s \o t)[i] = IF i <= Len(s) THEN s[i] ELSE t[i - Len(s)]
  BY ConcatProperties
<1>2. ASSUME NEW i \in 1..Len(s \o t)
      PROVE  (s \o t)[i] \in Listed(s) \cup Listed(t)
  <2>1. i \in Nat /\ i \in 1..(Len(s) + Len(t))
    BY <1>1
  <2>2. CASE i <= Len(s)
    <3>1. i \in 1..Len(s) /\ (s \o t)[i] = s[i]
      BY <1>1, <2>1, <2>2
    <3> QED BY <3>1 DEF Listed
  <2>3. CASE ~(i <= Len(s))
    <3>1. i - Len(s) \in 1..Len(t) /\ (s \o t)[i] = t[i - Len(s)]
      BY <1>1, <2>1, <2>3
    <3> QED BY <3>1 DEF Listed
  <2> QED BY <2>2, <2>3
<1>3. ASSUME NEW i \in 1..Len(s)
      PROVE  s[i] \in Listed(s \o t)
  <2>1. i \in 1..Len(s \o t) /\ (s \o t)[i] = s[i]
    BY <1>1
  <2> QED BY <2>1 DEF Listed
<1>4. ASSUME NEW i \in 1..Len(t)
      PROVE  t[i] \in Listed(s \o t)
  <2>1. /\ i + Len(s) \in 1..(Len(s) + Len(t)) /\ ~(i + Len(s) <= Len(s))
        /\ (i + Len(s)) - Len(s) = i
    BY <1>1
  <2>2. i + Len(s) \in 1..Len(s \o t) /\ (s \o t)[i + Len(s)] = t[i]
    BY <1>1, <2>1
  <2> QED BY <2>2 DEF Listed
<1> QED BY <1>2, <1>3, <1>4 DEF Listed

LEMMA AppendListed ==
    ASSUME NEW S, NEW s \in Seq(S), NEW x \in S
    PROVE  /\ Len(s) \in Nat /\ Append(s, x) \in Seq(S)
           /\ Len(Append(s, x)) = Len(s) + 1
           /\ Append(s, x)[Len(s) + 1] = x
           /\ \A i \in 1..Len(s) : Append(s, x)[i] = s[i]
           /\ Listed(Append(s, x)) = Listed(s) \cup {x}
           /\ Before(Append(s, x), Len(s) + 1) = Listed(s)
           /\ \A i \in 1..Len(s) : Before(Append(s, x), i) = Before(s, i)
<1> DEFINE u == Append(s, x)
<1>1. /\ Len(s) \in Nat /\ u \in Seq(S) /\ Len(u) = Len(s) + 1
      /\ u[Len(s) + 1] = x
      /\ \A i \in 1..Len(s) : u[i] = s[i]
  BY AppendProperties, LenProperties
<1> HIDE DEF u
<1>2. ASSUME NEW i \in 1..(Len(s) + 1)
      PROVE  Before(u, i) = Before(s, i)
  <2>1. \A j \in 1..(i - 1) : u[j] = s[j]
    BY <1>1
  <2> QED BY <2>1 DEF Before
<1>3. Before(u, Len(s) + 1) = Listed(s)
  <2>1. Len(s) + 1 \in 1..(Len(s) + 1) /\ (Len(s) + 1) - 1 = Len(s)
    BY <1>1
  <2>2. Before(s, Len(s) + 1) = Listed(s)
    BY <2>1 DEF Before, Listed
  <2> QED BY <2>1, <2>2, <1>2
<1>4. Listed(u) = Listed(s) \cup {x}
  <2>1. \A j : j \in 1..(Len(s) + 1) <=> j \in 1..Len(s) \/ j = Len(s) + 1
    BY <1>1
  <2>2. Listed(u) = {u[j] : j \in 1..(Len(s) + 1)}
    BY <1>1 DEF Listed
  <2> QED BY <2>1, <2>2, <1>1 DEF Listed
<1>5. \A i \in 1..Len(s) : i \in 1..(Len(s) + 1)
  BY <1>1
<1> QED BY <1>1, <1>2, <1>3, <1>4, <1>5 DEF u

(* The next read of all, once those before it are listed, goes on with the *)
(* list of first occurrences.                                              *)
LEMMA AppendFirsts ==
    ASSUME NEW S, NEW list \in Seq(S), NEW all \in Seq(S), FirstsOf(list, all),
           NEW n \in 1..Len(all), Before(all, n) \subseteq Listed(list),
           all[n] \notin Listed(list)
    PROVE  FirstsOf(Append(list, all[n]), all)
<1> DEFINE u == Append(list, all[n])
<1>1. all[n] \in S
  BY ElementOfSeq
<1>2. /\ Len(list) \in Nat /\ Len(u) = Len(list) + 1 /\ u[Len(list) + 1] = all[n]
      /\ \A i \in 1..Len(list) : u[i] = list[i]
      /\ Before(u, Len(list) + 1) = Listed(list)
      /\ \A i \in 1..Len(list) : Before(u, i) = Before(list, i)
  BY <1>1, AppendListed
<1> HIDE DEF u
<1>3. Listed(list) \subseteq Before(all, n)
  <2>1. SUFFICES ASSUME NEW i \in 1..Len(list)
                 PROVE  list[i] \in Before(all, n)
    BY DEF Listed
  <2>2. PICK j \in 1..Len(all) : list[i] = all[j] /\ Before(all, j) = Before(list, i)
    BY DEF FirstsOf
  <2>3. Before(list, i) \subseteq Listed(list)
    <3>1. \A k \in 1..(i - 1) : k \in 1..Len(list)
      BY <1>2
    <3> QED BY <3>1 DEF Before, Listed
  <2>4. list[i] \in Listed(list)
    BY DEF Listed
  <2>5. j # n
    BY <2>2, <2>4
  <2>6. ~(n < j)
    <3>1. SUFFICES ASSUME n < j PROVE FALSE
      OBVIOUS
    <3>2. n \in 1..(j - 1)
      BY <3>1
    <3>3. all[n] \in Before(all, j)
      BY <3>2 DEF Before
    <3> QED BY <3>3, <2>2, <2>3
  <2>7. j \in 1..(n - 1)
    BY <2>5, <2>6
  <2> QED BY <2>2, <2>7 DEF Before
<1>4. ASSUME NEW i \in 1..Len(u)
      PROVE  \E j \in 1..Len(all) :
                u[i] = all[j] /\ all[j] \notin Before(all, j) /\ Before(all, j) = Before(u, i)
  <2>1. i \in 1..Len(list) \/ i = Len(list) + 1
    BY <1>2
  <2>2. CASE i \in 1..Len(list)
    BY <2>2, <1>2 DEF FirstsOf
  <2>3. CASE i = Len(list) + 1
    <3>1. u[i] = all[n] /\ Before(u, i) = Listed(list)
      BY <2>3, <1>2
    <3>2. Before(all, n) = Listed(list)
      BY <1>3
    <3> QED BY <3>1, <3>2
  <2> QED BY <2>1, <2>2, <2>3
<1> QED BY <1>4 DEF FirstsOf, u

-----------------------------------------------------------------------------
(* Where a piece lies in a sequence.                                       *)
LEMMA LiesWhole ==
    ASSUME NEW S, NEW s \in Seq(S)
    PROVE  0 \in 0..Len(s) /\ LiesAt(s, s, 0) /\ Before(s, 0 + 1) = {}
<1>1. Len(s) \in Nat
  BY LenProperties
<1>2. \A i \in 1..Len(s) : 0 + i = i
  BY <1>1
<1>3. \A i : i \notin 1..((0 + 1) - 1)
  OBVIOUS
<1> QED BY <1>1, <1>2, <1>3 DEF LiesAt, Before

LEMMA LiesPart ==
    ASSUME NEW S, NEW all \in Seq(S), NEW s \in Seq(S), NEW t \in Seq(S),
           NEW n \in 0..Len(all), LiesAt(s \o t, all, n)
    PROVE  /\ LiesAt(s, all, n)
           /\ n + Len(s) \in 0..Len(all)
           /\ LiesAt(t, all, n + Len(s))
           /\ Before(all, (n + Len(s)) + 1) = Before(all, n + 1) \cup Listed(s)
<1> DEFINE u == s \o t
<1>1. /\ Len(s) \in Nat /\ Len(t) \in Nat /\ Len(all) \in Nat /\ n \in Nat
      /\ Len(u) = Len(s) + Len(t)
      /\ \A i \in 1..(Len(s) + Len(t)) : u[i] = IF i <= Len(s) THEN s[i] ELSE t[i - Len(s)]
  BY ConcatProperties, LenProperties
<1>2. n + Len(u) <= Len(all) /\ \A i \in 1..Len(u) : all[n + i] = u[i]
  BY DEF LiesAt
<1> HIDE DEF u
<1>3. n + Len(s) \in 0..Len(all) /\ (n + Len(s)) + Len(t) <= Len(all)
  BY <1>1, <1>2
<1>4. ASSUME NEW i \in 1..Len(s)
      PROVE  all[n + i] = s[i]
  <2>1. i \in 1..Len(u) /\ i <= Len(s) /\ i \in 1..(Len(s) + Len(t))
    BY <1>1
  <2> QED BY <2>1, <1>1, <1>2
<1>5. ASSUME NEW i \in 1..Len(t)
      PROVE  all[(n + Len(s)) + i] = t[i]
  <2> DEFINE j == Len(s) + i
  <2>1. /\ j \in 1..Len(u) /\ ~(j <= Len(s)) /\ j \in 1..(Len(s) + Len(t))
        /\ j - Len(s) = i /\ n + j = (n + Len(s)) + i
    BY <1>1
  <2> HIDE DEF j
  <2>2. all[n + j] = t[j - Len(s)]
    BY <2>1, <1>1, <1>2
  <2> QED BY <2>1, <2>2
<1>6. Before(all, (n + Len(s)) + 1) = Before(all, n + 1) \cup Listed(s)
  <2>1. /\ Before(all, (n + Len(s)) + 1) = {all[j] : j \in 1..(n + Len(s))}
        /\ Before(all, n + 1) = {all[j] : j \in 1..n}
    <3>1. ((n + Len(s)) + 1) - 1 = n + Len(s) /\ (n + 1) - 1 = n
      BY <1>1
    <3> QED BY <3>1 DEF Before
  <2>2. ASSUME NEW j \in 1..(n + Len(s))
        PROVE  all[j] \in {all[k] : k \in 1..n} \cup Listed(s)
    <3>1. CASE j <= n
      <4>1. j \in 1..n
        BY <3>1, <1>1
      <4> QED BY <4>1
    <3>2. CASE ~(j <= n)
      <4>1. j - n \in 1..Len(s) /\ n + (j - n) = j
        BY <3>2, <1>1
      <4>2. all[j] = s[j - n]
        BY <4>1, <1>4
      <4> QED BY <4>1, <4>2 DEF Listed
    <3> QED BY <3>1, <3>2
  <2>3. ASSUME NEW j \in 1..n
        PROVE  all[j] \in {all[k] : k \in 1..(n + Len(s))}
    <3>1. j \in 1..(n + Len(s))
      BY <1>1
    <3> QED BY <3>1
  <2>4. ASSUME NEW i \in 1..Len(s)
        PROVE  s[i] \in {all[k] : k \in 1..(n + Len(s))}
    <3>1. n + i \in 1..(n + Len(s))
      BY <1>1
    <3> QED BY <3>1, <1>4
  <2> QED BY <2>1, <2>2, <2>3, <2>4 DEF Listed
<1> QED BY <1>3, <1>4, <1>5, <1>6 DEF LiesAt

LEMMA LiesRead ==
    ASSUME NEW S, NEW all \in Seq(S), NEW x, NEW n \in 0..Len(all), LiesAt(<<x>>, all, n)
    PROVE  /\ n + 1 \in 1..Len(all) /\ n + 1 \in 0..Len(all) /\ all[n + 1] = x
           /\ LiesAt(<<>>, all, n + 1)
           /\ Before(all, (n + 1) + 1) = Before(all, n + 1) \cup {x}
<1>1. Len(all) \in Nat /\ n \in Nat /\ Len(<<x>>) = 1 /\ Len(<<>>) = 0 /\ <<x>>[1] = x
  BY LenProperties
<1>2. n + 1 <= Len(all) /\ all[n + 1] = x
  BY <1>1 DEF LiesAt
<1>3. LiesAt(<<>>, all, n + 1)
  BY <1>1, <1>2 DEF LiesAt
<1>4. \A j : j \in 1..(((n + 1) + 1) - 1) <=> j \in 1..((n + 1) - 1) \/ j = n + 1
  BY <1>1
<1>5. Before(all, (n + 1) + 1) = Before(all, n + 1) \cup {x}
  BY <1>2, <1>4 DEF Before
<1> QED BY <1>1, <1>2, <1>3, <1>5

-----------------------------------------------------------------------------
(* What the reference reads and passes over, from one node.                *)
LEMMA ReadsType ==
    ASSUME NEW p \in Programs, NEW e \in Exprs, NEW vals \in Partial(e)
    PROVE  Reads(p, e, vals) \in Seq(Rules)
BY TraceAssumption

LEMMA RuleReadsType ==
    ASSUME NEW p \in Programs, NEW r \in Rules
    PROVE  /\ RuleReads(p, r) \in Seq(Rules)
           /\ Len(RuleReads(p, r)) \in Nat
<1>1. Body(p, r) \in Exprs
  BY ProgramAssumption
<1>2. RuleReads(p, r) \in Seq(Rules)
  BY <1>1, EmptyPartial, ReadsType DEF RuleReads
<1> QED BY <1>2, LenProperties

LEMMA ReadsRead ==
    ASSUME NEW p \in Programs, NEW e \in Exprs, e.op = "derived"
    PROVE  Reads(p, e, <<>>) = <<e.key.rule>>
BY EmptyPartial, TraceAssumption

(* A node that waits for an operand reads what the operand does, then what *)
(* is left once the operand has a value.                                   *)
ReadsAfter(p, e, vals) ==
    LET o == Rest(p, Operand(e, vals), <<>>)
    IN  IF o.ok THEN Reads(p, e, Append(vals, o.val)) ELSE <<>>
PassedAfter(p, e, vals) ==
    LET o == Rest(p, Operand(e, vals), <<>>)
    IN  IF o.ok THEN Passed(p, e, Append(vals, o.val)) ELSE {}

LEMMA ReadsWants ==
    ASSUME NEW p \in Programs, NEW e \in Exprs, NEW vals \in Partial(e), Wants(e, vals)
    PROVE  /\ Reads(p, Operand(e, vals), <<>>) \in Seq(Rules)
           /\ ReadsAfter(p, e, vals) \in Seq(Rules)
           /\ Reads(p, e, vals) = Reads(p, Operand(e, vals), <<>>) \o ReadsAfter(p, e, vals)
           /\ Passed(p, e, vals) = Skipped(e, vals) \cup
                   (Passed(p, Operand(e, vals), <<>>) \cup PassedAfter(p, e, vals))
<1> DEFINE x == Operand(e, vals)
           o == Rest(p, x, <<>>)
<1>1. e.op # "derived" /\ x \in Exprs /\ Len(vals) < Arity(e)
  BY WantsFacts
<1>2. <<>> \in Partial(x)
  BY <1>1, EmptyPartial
<1>3. o.ok => o.val \in Values
  BY <1>1, <1>2, TraceAssumption
<1>4. Reads(p, e, vals) = Reads(p, x, <<>>) \o ReadsAfter(p, e, vals)
  BY <1>1, TraceAssumption DEF ReadsAfter
<1>5. Passed(p, e, vals) = Skipped(e, vals) \cup (Passed(p, x, <<>>) \cup PassedAfter(p, e, vals))
  BY <1>1, TraceAssumption DEF PassedAfter
<1>6. ReadsAfter(p, e, vals) \in Seq(Rules)
  <2>1. CASE o.ok
    <3>1. Append(vals, o.val) \in Partial(e)
      BY <2>1, <1>1, <1>3, AppendPartial
    <3>2. Reads(p, e, Append(vals, o.val)) \in Seq(Rules)
      BY <3>1, ReadsType
    <3> QED BY <2>1, <3>2 DEF ReadsAfter
  <2>2. CASE ~o.ok
    BY <2>2 DEF ReadsAfter
  <2> QED BY <2>1, <2>2
<1>7. Reads(p, x, <<>>) \in Seq(Rules)
  BY <1>1, <1>2, ReadsType
<1> QED BY <1>4, <1>5, <1>6, <1>7

LEMMA AfterValue ==
    ASSUME NEW p, NEW e, NEW vals, NEW v, Rest(p, Operand(e, vals), <<>>) = Ok(v)
    PROVE  /\ ReadsAfter(p, e, vals) = Reads(p, e, Append(vals, v))
           /\ PassedAfter(p, e, vals) = Passed(p, e, Append(vals, v))
<1>1. Ok(v).ok = TRUE /\ Ok(v).val = v
  BY DEF Ok
<1> QED BY <1>1 DEF ReadsAfter, PassedAfter

(* A node that waits for nothing reads nothing more.                       *)
LEMMA ReadsDone ==
    ASSUME NEW p \in Programs, NEW e \in Exprs, NEW vals \in Partial(e),
           ~Wants(e, vals), ~(e.op = "derived" /\ vals = <<>>)
    PROVE  Reads(p, e, vals) = <<>> /\ Passed(p, e, vals) = Skipped(e, vals)
<1>1. Reads(p, e, vals) = <<>>
  BY TraceAssumption
<1> DEFINE o == Rest(p, Operand(e, vals), <<>>)
           more == IF Wants(e, vals)
                   THEN Passed(p, Operand(e, vals), <<>>) \cup
                        IF o.ok THEN Passed(p, e, Append(vals, o.val)) ELSE {}
                   ELSE {}
<1>2. Passed(p, e, vals) = Skipped(e, vals) \cup more
  BY TraceAssumption
<1>3. more = {}
  OBVIOUS
<1> HIDE DEF more
<1> QED BY <1>1, <1>2, <1>3

LEMMA NothingListed == Listed(<<>>) = {}
BY DEF Listed

(* Before its first operand a node has skipped nothing.                    *)
LEMMA NothingSkipped ==
    ASSUME NEW e \in Exprs
    PROVE  Skipped(e, <<>>) = {}
<1>1. Len(<<>>) = 0 /\ Len(e.args) \in Nat
  BY NodeFacts
<1>2. CASE e.op \in {"and", "or"}
  <2>1. CASE Wants(e, <<>>)
    BY <1>1, <1>2, <2>1 DEF Skipped
  <2>2. CASE ~Wants(e, <<>>)
    <3>1. Len(e.args) = 0
      BY <1>1, <1>2, <2>2 DEF Wants
    <3>2. \A i : i \notin (Len(<<>>) + 1)..Len(e.args)
      BY <1>1, <3>1
    <3> QED BY <1>1, <1>2, <3>2 DEF Skipped
  <2> QED BY <2>1, <2>2
<1>3. CASE e.op \notin {"and", "or"}
  BY <1>1, <1>3 DEF Skipped
<1> QED BY <1>2, <1>3

LEMMA ReadSkipsNothing ==
    ASSUME NEW e, e.op = "derived", NEW vals
    PROVE  Skipped(e, vals) = {}
BY DEF Skipped

-----------------------------------------------------------------------------
(* The invariant, over given traces and stacks.                            *)
AllBegun(p, t) == \A r \in DOMAIN t : Begun(p, t[r], r)

FramesTraced(p, t, s) ==
    /\ \A i \in 1..Len(s) : FrameTraced(p, t, s[i])
    /\ \A i \in 1..(Len(s) - 1) : Entered(t, s[i+1], s[i])

(* A trace only grows, and every finding about it but Begun is kept.       *)
Grows(t, u) ==
    \A r \in DOMAIN t : /\ r \in DOMAIN u
                        /\ Listed(t[r].deps) \subseteq Listed(u[r].deps)
                        /\ t[r].skipped \subseteq u[r].skipped

LEMMA GrowsFurther ==
    ASSUME NEW t, NEW u, NEW w, Grows(t, u), Grows(u, w)
    PROVE  Grows(t, w)
BY DEF Grows

LEMMA FrameKept ==
    ASSUME NEW p, NEW t, NEW u, Grows(t, u), NEW f, FrameTraced(p, t, f)
    PROVE  FrameTraced(p, u, f)
<1> DEFINE r == f.key.rule
<1>1. /\ r \in DOMAIN t /\ r \in DOMAIN u
      /\ Listed(t[r].deps) \subseteq Listed(u[r].deps)
      /\ t[r].skipped \subseteq u[r].skipped
      /\ ReadUpTo(p, t[r], f) /\ PassedUpTo(p, t[r], f)
  BY DEF FrameTraced, Grows
<1>2. ReadUpTo(p, u[r], f)
  <2>1. PICK n \in 0..Len(RuleReads(p, r)) :
           /\ LiesAt(Reads(p, f.expr, f.vals), RuleReads(p, r), n)
           /\ Before(RuleReads(p, r), n + 1) \subseteq Listed(t[r].deps)
    BY <1>1 DEF ReadUpTo
  <2>2. Before(RuleReads(p, r), n + 1) \subseteq Listed(u[r].deps)
    BY <1>1, <2>1
  <2>3. Listed(Reads(p, f.expr, <<>>))
          \subseteq Listed(u[r].deps) \cup Listed(Reads(p, f.expr, f.vals))
    BY <1>1 DEF ReadUpTo
  <2> QED BY <2>1, <2>2, <2>3 DEF ReadUpTo
<1>3. PassedUpTo(p, u[r], f)
  BY <1>1 DEF PassedUpTo
<1> QED BY <1>1, <1>2, <1>3 DEF FrameTraced

LEMMA FramesKept ==
    ASSUME NEW p, NEW t, NEW u, Grows(t, u), NEW s, Len(s) \in Nat, FramesTraced(p, t, s)
    PROVE  FramesTraced(p, u, s)
<1>1. \A i \in 1..Len(s) : FrameTraced(p, u, s[i])
  BY FrameKept DEF FramesTraced
<1>2. ASSUME NEW i \in 1..(Len(s) - 1)
      PROVE  Entered(u, s[i+1], s[i])
  <2>1. i \in 1..Len(s)
    OBVIOUS
  <2>2. s[i].key.rule \in DOMAIN t /\ Entered(t, s[i+1], s[i])
    BY <2>1 DEF FramesTraced, FrameTraced
  <2> QED BY <2>2 DEF Entered, Grows
<1> QED BY <1>1, <1>2 DEF FramesTraced

(* A new innermost frame.                                                  *)
LEMMA FramesPushed ==
    ASSUME NEW p, NEW t, NEW s \in Seq(FrameType), Len(s) # 0, FramesTraced(p, t, s),
           NEW f \in FrameType, FrameTraced(p, t, f), Entered(t, f, s[Len(s)])
    PROVE  FramesTraced(p, t, Append(s, f))
<1>1. PICK u : u = Append(s, f)
  OBVIOUS
<1>2. /\ Len(s) \in Nat \ {0} /\ Len(u) = Len(s) + 1 /\ u[Len(s) + 1] = f
      /\ \A i \in 1..Len(s) : u[i] = s[i]
  BY <1>1, AppendProperties, LenProperties
<1>3. ASSUME NEW i \in 1..Len(u)
      PROVE  FrameTraced(p, t, u[i])
  <2>1. i \in 1..Len(s) \/ i = Len(s) + 1
    BY <1>2
  <2> QED BY <2>1, <1>2 DEF FramesTraced
<1>4. ASSUME NEW i \in 1..(Len(u) - 1)
      PROVE  Entered(t, u[i+1], u[i])
  <2>1. i \in 1..Len(s) /\ ((i \in 1..(Len(s) - 1) /\ i + 1 \in 1..Len(s)) \/ i = Len(s))
    BY <1>2
  <2>2. CASE i = Len(s)
    BY <2>1, <2>2, <1>2
  <2>3. CASE i \in 1..(Len(s) - 1) /\ i + 1 \in 1..Len(s)
    <3>1. u[i] = s[i] /\ u[i+1] = s[i+1]
      BY <2>1, <2>3, <1>2
    <3> QED BY <2>3, <3>1 DEF FramesTraced
  <2> QED BY <2>1, <2>2, <2>3
<1> QED BY <1>1, <1>3, <1>4 DEF FramesTraced

(* A frame given operand values, those above it gone.                      *)
LEMMA FramesFilled ==
    ASSUME NEW p, NEW t, NEW s \in Seq(FrameType), FramesTraced(p, t, s),
           NEW m \in 1..Len(s), NEW vals \in Seq(Values),
           ReadUpTo(p, t[s[m].key.rule], [s[m] EXCEPT !.vals = vals]),
           PassedUpTo(p, t[s[m].key.rule], [s[m] EXCEPT !.vals = vals])
    PROVE  FramesTraced(p, t, CutBack(s, m, vals))
<1> DEFINE g == [s[m] EXCEPT !.vals = vals]
<1>1. PICK u : u = CutBack(s, m, vals)
  OBVIOUS
<1>2. /\ Len(u) = m /\ m \in Nat /\ Len(s) \in Nat
      /\ u[m].vals = vals /\ u[m].key = s[m].key
      /\ u[m].expr = s[m].expr /\ u[m].body = s[m].body
      /\ \A i \in 1..m : i # m => u[i] = s[i]
  BY <1>1, FillElements, LenProperties
<1>3. g.vals = vals /\ g.key = s[m].key /\ g.expr = s[m].expr
  <2>1. s[m] \in FrameType
    BY ElementOfSeq
  <2> QED BY <2>1 DEF FrameType
<1> HIDE DEF g
<1>4. FrameTraced(p, t, u[m])
  <2>1. ReadUpTo(p, t[s[m].key.rule], g) /\ PassedUpTo(p, t[s[m].key.rule], g)
    BY DEF g
  <2>2. ReadUpTo(p, t[s[m].key.rule], u[m])
    BY <2>1, <1>2, <1>3 DEF ReadUpTo
  <2>3. PassedUpTo(p, t[s[m].key.rule], u[m])
    BY <2>1, <1>2, <1>3 DEF PassedUpTo
  <2>4. s[m].key.rule \in DOMAIN t
    BY DEF FramesTraced, FrameTraced
  <2> QED BY <1>2, <2>2, <2>3, <2>4 DEF FrameTraced
<1>5. ASSUME NEW i \in 1..Len(u)
      PROVE  FrameTraced(p, t, u[i])
  <2>1. CASE i = m
    BY <2>1, <1>4
  <2>2. CASE i # m
    <3>1. u[i] = s[i] /\ i \in 1..Len(s)
      BY <2>2, <1>2
    <3> QED BY <3>1 DEF FramesTraced
  <2> QED BY <2>1, <2>2
<1>6. ASSUME NEW i \in 1..(Len(u) - 1)
      PROVE  Entered(t, u[i+1], u[i])
  <2>1. /\ i \in 1..m /\ i # m /\ i + 1 \in 1..m /\ i \in 1..(Len(s) - 1)
    BY <1>2
  <2>2. u[i] = s[i] /\ Entered(t, s[i+1], s[i])
    BY <2>1, <1>2 DEF FramesTraced
  <2>3. u[i+1].body = s[i+1].body /\ u[i+1].key = s[i+1].key
    <3>1. CASE i + 1 = m
      BY <3>1, <1>2
    <3>2. CASE i + 1 # m
      BY <3>2, <2>1, <1>2
    <3> QED BY <3>1, <3>2
  <2> QED BY <2>2, <2>3 DEF Entered
<1> QED BY <1>1, <1>5, <1>6 DEF FramesTraced

-----------------------------------------------------------------------------
(* What is written to the trace keeps it a beginning.                      *)
LEMMA OpenedBegun ==
    ASSUME NEW p, NEW t, AllBegun(p, t), NEW r
    PROVE  /\ Grows(t, Opened(t, r)) /\ AllBegun(p, Opened(t, r))
           /\ r \in DOMAIN Opened(t, r)
<1> DEFINE u == Insert(t, r, EmptyTrace)
<1>1. /\ DOMAIN u = DOMAIN t \cup {r} /\ u[r] = EmptyTrace
      /\ \A x \in DOMAIN t : x # r => u[x] = t[x]
  BY DEF Insert
<1>2. Begun(p, EmptyTrace, r)
  <2>1. EmptyTrace.deps = <<>> /\ EmptyTrace.skipped = {} /\ Len(<<>>) = 0
    BY DEF EmptyTrace
  <2> QED BY <2>1 DEF Begun, FirstsOf
<1> HIDE DEF u
<1>3. CASE r \in DOMAIN t
  BY <1>3 DEF Opened, Grows
<1>4. CASE r \notin DOMAIN t
  <2>1. Opened(t, r) = u
    BY <1>4 DEF Opened, u
  <2>2. Grows(t, u)
    BY <1>1, <1>4 DEF Grows
  <2>3. AllBegun(p, u)
    <3>1. ASSUME NEW x \in DOMAIN u
          PROVE  Begun(p, u[x], x)
      <4>1. CASE x = r
        BY <4>1, <1>1, <1>2
      <4>2. CASE x # r
        BY <4>2, <1>1 DEF AllBegun
      <4> QED BY <4>1, <4>2
    <3> QED BY <3>1 DEF AllBegun
  <2> QED BY <2>1, <2>2, <2>3, <1>1
<1> QED BY <1>3, <1>4

LEMMA OpenedUnlessAbsentBegun ==
    ASSUME NEW p, NEW t, AllBegun(p, t), NEW k
    PROVE  Grows(t, OpenedUnlessAbsent(t, k)) /\ AllBegun(p, OpenedUnlessAbsent(t, k))
<1>1. Grows(t, t)
  BY DEF Grows
<1> QED BY <1>1, OpenedBegun DEF OpenedUnlessAbsent

(* The read at position n of a rule is recorded after those before it.     *)
LEMMA RecordedBegun ==
    ASSUME NEW p \in Programs, NEW t, TraceTyped(t), AllBegun(p, t), NEW r \in DOMAIN t,
           NEW n \in 1..Len(RuleReads(p, r)), NEW x, x = RuleReads(p, r)[n],
           Before(RuleReads(p, r), n) \subseteq Listed(t[r].deps)
    PROVE  /\ Grows(t, RecordRead(t, r, x)) /\ AllBegun(p, RecordRead(t, r, x))
           /\ DOMAIN RecordRead(t, r, x) = DOMAIN t
           /\ x \in Listed(RecordRead(t, r, x)[r].deps)
<1> DEFINE list == t[r].deps
           all == RuleReads(p, r)
           u == [t EXCEPT ![r].deps = Append(@, x)]
<1>1. /\ r \in Rules /\ list \in Seq(Rules) /\ all \in Seq(Rules)
      /\ t[r] \in [deps : Seq(Rules), skipped : SUBSET Exprs]
  BY RuleReadsType DEF TraceTyped
<1>2. x \in Rules
  BY <1>1, ElementOfSeq
<1>3. FirstsOf(list, all) /\ t[r].skipped \subseteq RulePasses(p, r)
  BY DEF AllBegun, Begun
<1>4. CASE x \in Listed(list)
  <2>1. RecordRead(t, r, x) = t
    <3>1. \E i \in 1..Len(list) : list[i] = x
      BY <1>4 DEF Listed
    <3> QED BY <3>1 DEF RecordRead
  <2>2. Grows(t, t)
    BY DEF Grows
  <2> QED BY <2>1, <2>2, <1>4
<1>5. CASE x \notin Listed(list)
  <2>1. RecordRead(t, r, x) = u
    <3>1. ~\E i \in 1..Len(list) : list[i] = x
      BY <1>5 DEF Listed
    <3> QED BY <3>1 DEF RecordRead
  <2>2. /\ DOMAIN u = DOMAIN t
        /\ u[r].deps = Append(list, x) /\ u[r].skipped = t[r].skipped
        /\ \A y \in DOMAIN t : y # r => u[y] = t[y]
    BY <1>1
  <2>3. Listed(Append(list, x)) = Listed(list) \cup {x}
    BY <1>1, <1>2, AppendListed
  <2>4. FirstsOf(Append(list, x), all)
    BY <1>1, <1>3, <1>5, AppendFirsts
  <2> HIDE DEF u, list, all
  <2>5. Begun(p, u[r], r)
    BY <2>2, <2>4, <1>3 DEF Begun, all
  <2>6. AllBegun(p, u)
    <3>1. ASSUME NEW y \in DOMAIN u
          PROVE  Begun(p, u[y], y)
      <4>1. CASE y = r
        BY <4>1, <2>5
      <4>2. CASE y # r
        BY <4>2, <2>2 DEF AllBegun
      <4> QED BY <4>1, <4>2
    <3> QED BY <3>1 DEF AllBegun
  <2>7. Grows(t, u)
    <3>1. ASSUME NEW y \in DOMAIN t
          PROVE  /\ y \in DOMAIN u
                 /\ Listed(t[y].deps) \subseteq Listed(u[y].deps)
                 /\ t[y].skipped \subseteq u[y].skipped
      <4>1. CASE y = r
        BY <4>1, <2>2, <2>3 DEF list
      <4>2. CASE y # r
        BY <4>2, <2>2
      <4> QED BY <4>1, <4>2
    <3> QED BY <3>1 DEF Grows
  <2> QED BY <2>1, <2>2, <2>3, <2>6, <2>7
<1> QED BY <1>4, <1>5

LEMMA SkippedBegun ==
    ASSUME NEW p, NEW t, TraceTyped(t), AllBegun(p, t), NEW r \in DOMAIN t, NEW e, NEW vals,
           Skipped(e, vals) \subseteq RulePasses(p, r)
    PROVE  /\ Grows(t, RecordSkipped(t, r, e, vals))
           /\ AllBegun(p, RecordSkipped(t, r, e, vals))
           /\ Skipped(e, vals) \subseteq RecordSkipped(t, r, e, vals)[r].skipped
<1>1. PICK more : more = Skipped(e, vals)
  OBVIOUS
<1> DEFINE u == [t EXCEPT ![r].skipped = @ \cup more]
<1>2. t[r] \in [deps : Seq(Rules), skipped : SUBSET Exprs]
  BY DEF TraceTyped
<1>3. /\ DOMAIN u = DOMAIN t /\ u[r].deps = t[r].deps
      /\ u[r].skipped = t[r].skipped \cup more
      /\ \A y \in DOMAIN t : y # r => u[y] = t[y]
  BY <1>2
<1>4. RecordSkipped(t, r, e, vals) = u
  BY <1>1 DEF RecordSkipped
<1> HIDE DEF u
<1>5. Begun(p, u[r], r)
  BY <1>1, <1>3 DEF AllBegun, Begun
<1>6. AllBegun(p, u)
  <2>1. ASSUME NEW y \in DOMAIN u
        PROVE  Begun(p, u[y], y)
    <3>1. CASE y = r
      BY <3>1, <1>5
    <3>2. CASE y # r
      BY <3>2, <1>3 DEF AllBegun
    <3> QED BY <3>1, <3>2
  <2> QED BY <2>1 DEF AllBegun
<1>7. Grows(t, u)
  <2>1. ASSUME NEW y \in DOMAIN t
        PROVE  /\ y \in DOMAIN u
               /\ Listed(t[y].deps) \subseteq Listed(u[y].deps)
               /\ t[y].skipped \subseteq u[y].skipped
    <3>1. CASE y = r
      BY <3>1, <1>3
    <3>2. CASE y # r
      BY <3>2, <1>3
    <3> QED BY <3>1, <3>2
  <2> QED BY <2>1 DEF Grows
<1> QED BY <1>1, <1>3, <1>4, <1>6, <1>7

-----------------------------------------------------------------------------
(* One lemma per way a frame comes to be or goes on.                       *)
LEMMA BodyTraced ==
    ASSUME NEW p \in Programs, NEW t, NEW f \in FrameType, f.key.rule \in DOMAIN t,
           f.vals = <<>>, f.expr = Body(p, f.key.rule)
    PROVE  FrameTraced(p, t, f)
<1> DEFINE r == f.key.rule
<1>1. f.expr \in Exprs /\ r \in Rules
  BY DEF FrameType, Keys
<1>2. /\ Reads(p, f.expr, <<>>) = RuleReads(p, r) /\ RuleReads(p, r) \in Seq(Rules)
      /\ Passed(p, f.expr, <<>>) = RulePasses(p, r)
  BY <1>1, RuleReadsType DEF RuleReads, RulePasses
<1>3. /\ 0 \in 0..Len(RuleReads(p, r)) /\ LiesAt(RuleReads(p, r), RuleReads(p, r), 0)
      /\ Before(RuleReads(p, r), 0 + 1) = {}
  BY <1>2, LiesWhole
<1>4. ReadUpTo(p, t[r], f)
  <2>1. \E n \in 0..Len(RuleReads(p, r)) :
           /\ LiesAt(Reads(p, f.expr, f.vals), RuleReads(p, r), n)
           /\ Before(RuleReads(p, r), n + 1) \subseteq Listed(t[r].deps)
    BY <1>2, <1>3, Zenon
  <2> QED BY <2>1 DEF ReadUpTo
<1>5. PassedUpTo(p, t[r], f)
  BY <1>1, <1>2, NothingSkipped DEF PassedUpTo
<1> QED BY <1>4, <1>5 DEF FrameTraced

LEMMA OperandTraced ==
    ASSUME NEW p \in Programs, NEW t, NEW f \in FrameType, FrameTraced(p, t, f),
           f.vals \in Partial(f.expr), Wants(f.expr, f.vals),
           NEW g \in FrameType, g.key = f.key, g.vals = <<>>, g.expr = Operand(f.expr, f.vals)
    PROVE  FrameTraced(p, t, g)
<1> DEFINE r == f.key.rule
           all == RuleReads(p, r)
<1>1. f.expr \in Exprs /\ g.expr \in Exprs /\ r \in Rules
  BY DEF FrameType, Keys
<1>2. all \in Seq(Rules)
  BY <1>1, RuleReadsType
<1>3. /\ Reads(p, g.expr, <<>>) \in Seq(Rules)
      /\ ReadsAfter(p, f.expr, f.vals) \in Seq(Rules)
      /\ Reads(p, f.expr, f.vals) = Reads(p, g.expr, <<>>) \o ReadsAfter(p, f.expr, f.vals)
      /\ Passed(p, g.expr, <<>>) \subseteq Passed(p, f.expr, f.vals)
  <2>1. PICK e \in Exprs, vals \in Partial(f.expr) : e = f.expr /\ vals = f.vals
    BY <1>1
  <2>2. vals \in Partial(e) /\ Wants(e, vals) /\ g.expr = Operand(e, vals)
    BY <2>1
  <2>3. /\ Reads(p, g.expr, <<>>) \in Seq(Rules)
        /\ ReadsAfter(p, e, vals) \in Seq(Rules)
        /\ Reads(p, e, vals) = Reads(p, g.expr, <<>>) \o ReadsAfter(p, e, vals)
        /\ Passed(p, e, vals) = Skipped(e, vals) \cup
               (Passed(p, g.expr, <<>>) \cup PassedAfter(p, e, vals))
    BY <2>2, ReadsWants
  <2> QED BY <2>1, <2>3
<1>4. PICK n \in 0..Len(all) :
         /\ LiesAt(Reads(p, f.expr, f.vals), all, n)
         /\ Before(all, n + 1) \subseteq Listed(t[r].deps)
  BY DEF FrameTraced, ReadUpTo
<1>5. LiesAt(Reads(p, g.expr, <<>>), all, n)
  BY <1>2, <1>3, <1>4, LiesPart
<1>6. ReadUpTo(p, t[r], g)
  BY <1>4, <1>5 DEF ReadUpTo
<1>7. PassedUpTo(p, t[r], g)
  <2>1. Passed(p, g.expr, <<>>) \subseteq RulePasses(p, r)
    BY <1>3 DEF FrameTraced, PassedUpTo
  <2> QED BY <2>1, <1>1, NothingSkipped DEF PassedUpTo
<1>8. r \in DOMAIN t
  BY DEF FrameTraced
<1> HIDE DEF all
<1> QED BY <1>6, <1>7, <1>8 DEF FrameTraced

(* A frame that needs no more has listed and skipped all its node does.    *)
LEMMA DoneTraced ==
    ASSUME NEW p \in Programs, NEW t, NEW f \in FrameType, FrameTraced(p, t, f),
           f.vals \in Partial(f.expr), ~Wants(f.expr, f.vals),
           ~(f.expr.op = "derived" /\ f.vals = <<>>)
    PROVE  /\ Listed(Reads(p, f.expr, <<>>)) \subseteq Listed(t[f.key.rule].deps)
           /\ Passed(p, f.expr, <<>>) \subseteq t[f.key.rule].skipped
<1>1. f.expr \in Exprs
  BY DEF FrameType
<1>2. /\ Listed(Reads(p, f.expr, f.vals)) = {}
      /\ Passed(p, f.expr, f.vals) = Skipped(f.expr, f.vals)
  BY <1>1, ReadsDone, NothingListed
<1>3. Listed(Reads(p, f.expr, <<>>)) \subseteq Listed(t[f.key.rule].deps)
  BY <1>2 DEF FrameTraced, ReadUpTo
<1>4. Passed(p, f.expr, <<>>) \subseteq t[f.key.rule].skipped
  BY <1>2 DEF FrameTraced, PassedUpTo
<1> QED BY <1>3, <1>4

LEMMA OperandDone ==
    ASSUME NEW p \in Programs, NEW t, NEW f \in FrameType, FrameTraced(p, t, f),
           f.vals \in Partial(f.expr), Wants(f.expr, f.vals),
           NEW x, x = Operand(f.expr, f.vals),
           NEW v \in Values, Rest(p, x, <<>>) = Ok(v),
           Listed(Reads(p, x, <<>>)) \subseteq Listed(t[f.key.rule].deps),
           Passed(p, x, <<>>) \subseteq t[f.key.rule].skipped,
           Skipped(f.expr, Append(f.vals, v)) \subseteq t[f.key.rule].skipped
    PROVE  /\ ReadUpTo(p, t[f.key.rule], [f EXCEPT !.vals = Append(f.vals, v)])
           /\ PassedUpTo(p, t[f.key.rule], [f EXCEPT !.vals = Append(f.vals, v)])
<1> DEFINE r == f.key.rule
           all == RuleReads(p, r)
           g == [f EXCEPT !.vals = Append(f.vals, v)]
<1>1. f.expr \in Exprs /\ r \in Rules
  BY DEF FrameType, Keys
<1>2. g.vals = Append(f.vals, v) /\ g.key = f.key /\ g.expr = f.expr
  BY DEF FrameType
<1>3. all \in Seq(Rules)
  BY <1>1, RuleReadsType
<1> DEFINE rest == Reads(p, f.expr, Append(f.vals, v))
           more == Passed(p, f.expr, Append(f.vals, v))
<1>4. /\ Reads(p, x, <<>>) \in Seq(Rules) /\ rest \in Seq(Rules)
      /\ Reads(p, f.expr, f.vals) = Reads(p, x, <<>>) \o rest
      /\ Passed(p, f.expr, f.vals) = Skipped(f.expr, f.vals) \cup (Passed(p, x, <<>>) \cup more)
  BY <1>1, ReadsWants, AfterValue
<1>5. PICK n \in 0..Len(all) :
         /\ LiesAt(Reads(p, f.expr, f.vals), all, n)
         /\ Before(all, n + 1) \subseteq Listed(t[r].deps)
  BY DEF FrameTraced, ReadUpTo
<1> HIDE DEF g, all, rest, more
<1> DEFINE m == n + Len(Reads(p, x, <<>>))
<1>6. /\ m \in 0..Len(all) /\ LiesAt(rest, all, m)
      /\ Before(all, m + 1) = Before(all, n + 1) \cup Listed(Reads(p, x, <<>>))
  <2>1. PICK s \in Seq(Rules) : s = Reads(p, x, <<>>)
    BY <1>4
  <2>2. LiesAt(s \o rest, all, n)
    BY <2>1, <1>4, <1>5
  <2>3. /\ n + Len(s) \in 0..Len(all) /\ LiesAt(rest, all, n + Len(s))
        /\ Before(all, (n + Len(s)) + 1) = Before(all, n + 1) \cup Listed(s)
    BY <2>2, <1>3, <1>4, LiesPart
  <2> QED BY <2>1, <2>3
<1> HIDE DEF m
<1>7. ReadUpTo(p, t[r], g)
  <2>1. LiesAt(Reads(p, g.expr, g.vals), all, m)
    BY <1>2, <1>6 DEF rest
  <2>2. Before(all, m + 1) \subseteq Listed(t[r].deps)
    BY <1>5, <1>6
  <2>3. Listed(Reads(p, g.expr, <<>>))
          \subseteq Listed(t[r].deps) \cup Listed(Reads(p, g.expr, g.vals))
    <3>1. Listed(Reads(p, f.expr, f.vals)) = Listed(Reads(p, x, <<>>)) \cup Listed(rest)
      BY <1>4, ConcatListed
    <3>2. Listed(Reads(p, f.expr, <<>>))
            \subseteq Listed(t[r].deps) \cup Listed(Reads(p, f.expr, f.vals))
      BY DEF FrameTraced, ReadUpTo
    <3> QED BY <3>1, <3>2, <1>2 DEF rest
  <2> QED BY <2>1, <2>2, <2>3, <1>2, <1>6 DEF ReadUpTo, all
<1>8. PassedUpTo(p, t[r], g)
  <2>1. /\ Passed(p, f.expr, f.vals) \subseteq RulePasses(p, r)
        /\ Passed(p, f.expr, <<>>) \subseteq t[r].skipped \cup Passed(p, f.expr, f.vals)
        /\ Skipped(f.expr, f.vals) \subseteq t[r].skipped
    BY DEF FrameTraced, PassedUpTo
  <2>2. /\ more \subseteq RulePasses(p, r)
        /\ Passed(p, f.expr, <<>>) \subseteq t[r].skipped \cup more
    BY <2>1, <1>4
  <2> QED BY <2>2, <1>2 DEF PassedUpTo, more
<1> QED BY <1>7, <1>8 DEF g

LEMMA PassedRead ==
    ASSUME NEW p \in Programs, NEW e \in Exprs, e.op = "derived", NEW vals \in Partial(e)
    PROVE  Passed(p, e, vals) = {}
<1>1. ~Wants(e, vals)
  BY WantsFacts
<1>2. Passed(p, e, vals) = Skipped(e, vals) \cup {}
  <2> DEFINE o == Rest(p, Operand(e, vals), <<>>)
             more == IF Wants(e, vals)
                     THEN Passed(p, Operand(e, vals), <<>>) \cup
                          IF o.ok THEN Passed(p, e, Append(vals, o.val)) ELSE {}
                     ELSE {}
  <2>1. Passed(p, e, vals) = Skipped(e, vals) \cup more
    BY TraceAssumption
  <2>2. more = {}
    BY <1>1
  <2> HIDE DEF more
  <2> QED BY <2>1, <2>2
<1> QED BY <1>2, ReadSkipsNothing

LEMMA ReadDone ==
    ASSUME NEW p \in Programs, NEW t, NEW f \in FrameType, FrameTraced(p, t, f),
           f.expr.op = "derived", f.vals = <<>>,
           f.expr.key.rule \in Listed(t[f.key.rule].deps),
           NEW vals \in Partial(f.expr), vals # <<>>
    PROVE  /\ ReadUpTo(p, t[f.key.rule], [f EXCEPT !.vals = vals])
           /\ PassedUpTo(p, t[f.key.rule], [f EXCEPT !.vals = vals])
<1> DEFINE r == f.key.rule
           all == RuleReads(p, r)
           x == f.expr.key.rule
           g == [f EXCEPT !.vals = vals]
<1>1. f.expr \in Exprs /\ r \in Rules
  BY DEF FrameType, Keys
<1>2. g.vals = vals /\ g.key = f.key /\ g.expr = f.expr
  BY DEF FrameType
<1>3. all \in Seq(Rules) /\ Reads(p, f.expr, <<>>) = <<x>>
  BY <1>1, RuleReadsType, ReadsRead
<1>4. Reads(p, f.expr, vals) = <<>>
  <2>1. ~Wants(f.expr, vals)
    BY <1>1, WantsFacts
  <2> QED BY <2>1, <1>1, ReadsDone
<1>5. PICK n \in 0..Len(all) :
         /\ LiesAt(<<x>>, all, n)
         /\ Before(all, n + 1) \subseteq Listed(t[r].deps)
  BY <1>3 DEF FrameTraced, ReadUpTo
<1>6. /\ n + 1 \in 0..Len(all) /\ LiesAt(<<>>, all, n + 1)
      /\ Before(all, (n + 1) + 1) = Before(all, n + 1) \cup {x}
  BY <1>3, <1>5, LiesRead
<1>7. Listed(<<x>>) = {x}
  <2>1. Len(<<x>>) = 1 /\ <<x>>[1] = x /\ 1..1 = {1}
    OBVIOUS
  <2> QED BY <2>1 DEF Listed
<1> HIDE DEF g, x, all
<1>8. ReadUpTo(p, t[r], g)
  <2>1. PICK m \in 0..Len(all) : LiesAt(Reads(p, g.expr, g.vals), all, m)
                                   /\ Before(all, m + 1) \subseteq Listed(t[r].deps)
    <3>1. LiesAt(Reads(p, g.expr, g.vals), all, n + 1)
      BY <1>2, <1>4, <1>6
    <3>2. Before(all, (n + 1) + 1) \subseteq Listed(t[r].deps)
      BY <1>5, <1>6 DEF x
    <3> QED BY <3>1, <3>2, <1>6, Zenon
  <2>2. Listed(Reads(p, g.expr, <<>>)) \subseteq Listed(t[r].deps)
    BY <1>2, <1>3, <1>7 DEF x
  <2> QED BY <2>1, <2>2, <1>2 DEF ReadUpTo, all
<1>9. PassedUpTo(p, t[r], g)
  <2>1. <<>> \in Partial(f.expr)
    BY <1>1, EmptyPartial
  <2>2. /\ Passed(p, f.expr, vals) = {} /\ Passed(p, f.expr, <<>>) = {}
        /\ Skipped(f.expr, vals) = {}
    BY <2>1, <1>1, PassedRead, ReadSkipsNothing
  <2> QED BY <2>2, <1>2 DEF PassedUpTo
<1> QED BY <1>8, <1>9 DEF g

-----------------------------------------------------------------------------
(* How a step carries the invariant over.                                  *)
LEMMA TracedParts ==
    Traced <=> /\ AllBegun(program, trace)
               /\ FramesTraced(program, trace, stack)
               /\ \A k \in DOMAIN cache : /\ k.rule \in DOMAIN trace
                                          /\ Whole(program, trace[k.rule], k.rule)
BY DEF Traced, TraceBegun, TraceWhole, StackTraced, AllBegun, FramesTraced

LEMMA WholeKept ==
    ASSUME NEW p, NEW t, NEW u, Grows(t, u), NEW r \in DOMAIN t, Whole(p, t[r], r)
    PROVE  r \in DOMAIN u /\ Whole(p, u[r], r)
BY DEF Whole, Grows

LEMMA Retraced ==
    ASSUME Traced, program' = program, cache' = cache, Grows(trace, trace'),
           AllBegun(program, trace'), FramesTraced(program, trace', stack')
    PROVE  Traced'
<1>1. \A k \in DOMAIN cache : /\ k.rule \in DOMAIN trace'
                              /\ Whole(program, trace'[k.rule], k.rule)
  BY TracedParts, WholeKept
<1>2. /\ AllBegun(program', trace') /\ FramesTraced(program', trace', stack')
      /\ \A k \in DOMAIN cache' : /\ k.rule \in DOMAIN trace'
                                  /\ Whole(program', trace'[k.rule], k.rule)
  BY <1>1
<1> QED BY <1>2 DEF Traced, TraceBegun, TraceWhole, StackTraced, AllBegun, FramesTraced

LEMMA NoFrames ==
    ASSUME NEW p, NEW t
    PROVE  FramesTraced(p, t, <<>>)
<1>1. Len(<<>>) = 0 /\ \A i : i \notin 1..0 /\ i \notin 1..(0 - 1)
  OBVIOUS
<1> QED BY <1>1 DEF FramesTraced

(* The rule being read: its edge is the next of its reader's.              *)
LEMMA ReadTraced ==
    ASSUME Inductive, Traced, Reading
    PROVE  /\ Grows(trace, ReadRecorded) /\ AllBegun(program, ReadRecorded)
           /\ TraceTyped(ReadRecorded)
           /\ Top.key.rule \in DOMAIN ReadRecorded
           /\ Read.rule \in Listed(ReadRecorded[Top.key.rule].deps)
           /\ FramesTraced(program, ReadRecorded, stack)
<1> DEFINE r == Top.key.rule
           all == RuleReads(program, r)
           x == Read.rule
<1>1. /\ program \in Programs /\ Len(stack) \in Nat \ {0} /\ Top.expr \in Exprs
      /\ r \in Rules /\ Top.expr.op = "derived" /\ Top.vals = <<>>
      /\ Read = Top.expr.key
  BY TopFacts DEF Reading, Read, Keys
<1>2. TraceTyped(trace) /\ AllBegun(program, trace) /\ FramesTraced(program, trace, stack)
  BY TracedParts DEF Inductive, TypeOK, TraceTyped
<1>3. FrameTraced(program, trace, Top)
  BY <1>1, <1>2 DEF FramesTraced, Top
<1>4. /\ Reads(program, Top.expr, <<>>) = <<x>> /\ all \in Seq(Rules)
  BY <1>1, ReadsRead, RuleReadsType
<1>5. PICK n \in 0..Len(all) :
         /\ LiesAt(<<x>>, all, n)
         /\ Before(all, n + 1) \subseteq Listed(trace[r].deps)
  BY <1>1, <1>3, <1>4 DEF FrameTraced, ReadUpTo
<1>6. n + 1 \in 1..Len(all) /\ all[n + 1] = x
  BY <1>4, <1>5, LiesRead
<1>7. r \in DOMAIN trace
  BY <1>3 DEF FrameTraced
<1>8. /\ Grows(trace, ReadRecorded) /\ AllBegun(program, ReadRecorded)
      /\ DOMAIN ReadRecorded = DOMAIN trace
      /\ x \in Listed(ReadRecorded[r].deps)
  BY <1>1, <1>2, <1>5, <1>6, <1>7, RecordedBegun DEF ReadRecorded
<1>9. FramesTraced(program, ReadRecorded, stack)
  BY <1>1, <1>2, <1>8, FramesKept
<1> QED BY <1>7, <1>8, <1>9, ReadFacts

-----------------------------------------------------------------------------
(* One lemma per action, or per actions that leave the trace alike.        *)
LEMMA QuietTraced ==
    ASSUME Inductive, Traced, program' = program, cache' = cache, trace' = trace,
           stack' \in {stack, <<>>}
    PROVE  Traced'
<1>1. Grows(trace, trace')
  BY DEF Grows
<1>2. AllBegun(program, trace') /\ FramesTraced(program, trace', stack)
  BY TracedParts
<1>3. FramesTraced(program, trace', stack')
  BY <1>2, NoFrames
<1> QED BY <1>1, <1>2, <1>3, Retraced

LEMMA StoppedTraced ==
    ASSUME Inductive, Traced,
           \/ AttemptCached \/ ReadUnknown \/ Fail \/ \E k \in Keys : Ask(k)
    PROVE  Traced'
<1>1. program' = program /\ cache' = cache /\ trace' = trace
  BY DEF AttemptCached, ReadUnknown, Fail, Ask, state
<1>2. stack' \in {stack, <<>>}
  BY DEF AttemptCached, ReadUnknown, Fail, Ask, driver, CompleteGoal, Finished
<1> QED BY <1>1, <1>2, QuietTraced

LEMMA LoggedTraced ==
    ASSUME Inductive, Traced,
           \/ AttemptRefused \/ ReadDeferred \/ ReadCycle \/ ReadRefused
    PROVE  Traced'
<1>1. program' = program /\ cache' = cache /\ stack' = <<>>
  BY DEF AttemptRefused, ReadDeferred, ReadCycle, ReadRefused, Finished
<1>2. Grows(trace, trace') /\ AllBegun(program, trace')
  <2>1. CASE AttemptRefused
    <3>1. trace' = OpenedUnlessAbsent(trace, Goal)
      BY <2>1 DEF AttemptRefused
    <3> QED BY <3>1, TracedParts, OpenedUnlessAbsentBegun
  <2>2. CASE ReadDeferred \/ ReadCycle
    <3>1. Reading /\ trace' = ReadRecorded
      BY <2>2 DEF ReadDeferred, ReadCycle, Known
    <3> QED BY <3>1, ReadTraced
  <2>3. CASE ReadRefused
    <3>1. Reading /\ trace' = OpenedUnlessAbsent(ReadRecorded, Read)
      BY <2>3 DEF ReadRefused, Known
    <3>2. Grows(trace, ReadRecorded) /\ AllBegun(program, ReadRecorded)
      BY <3>1, ReadTraced
    <3>3. Grows(ReadRecorded, trace') /\ AllBegun(program, trace')
      BY <3>1, <3>2, OpenedUnlessAbsentBegun
    <3> QED BY <3>2, <3>3, GrowsFurther
  <2> QED BY <2>1, <2>2, <2>3
<1>3. FramesTraced(program, trace', stack')
  BY <1>1, NoFrames
<1> QED BY <1>1, <1>2, <1>3, Retraced

LEMMA AttemptTraced ==
    ASSUME Inductive, Traced, Attempt
    PROVE  Traced'
<1> DEFINE f == Frame(Goal, Body(program, Goal.rule), TRUE)
<1>1. /\ Running /\ stack' = <<f>> /\ trace' = Opened(trace, Goal.rule)
      /\ program' = program /\ cache' = cache
  BY DEF Attempt
<1>2. program \in Programs /\ Goal \in Keys
  BY <1>1, RunningFacts DEF Inductive, TypeOK
<1>3. /\ f \in FrameType /\ f.vals = <<>> /\ f.key = Goal
      /\ f.expr = Body(program, Goal.rule)
  BY <1>2, BodyType DEF Frame, FrameType
<1> HIDE DEF f
<1>4. /\ Grows(trace, trace') /\ AllBegun(program, trace')
      /\ Goal.rule \in DOMAIN trace'
  BY <1>1, TracedParts, OpenedBegun
<1>5. FrameTraced(program, trace', f)
  <2>1. PICK t : t = trace'
    OBVIOUS
  <2> QED BY <2>1, <1>2, <1>3, <1>4, BodyTraced
<1>6. FramesTraced(program, trace', stack')
  <2>1. Len(<<f>>) = 1 /\ <<f>>[1] = f /\ \A i : (i \in 1..1 => i = 1) /\ i \notin 1..(1 - 1)
    OBVIOUS
  <2> QED BY <2>1, <1>1, <1>5 DEF FramesTraced
<1> QED BY <1>1, <1>4, <1>6, Retraced

LEMMA DescendTraced ==
    ASSUME Inductive, Traced, Descend
    PROVE  Traced'
<1> DEFINE f == Frame(Top.key, Operand(Top.expr, Top.vals), FALSE)
<1>1. /\ stack # <<>> /\ Wants(Top.expr, Top.vals) /\ stack' = Append(stack, f)
      /\ program' = program /\ cache' = cache /\ trace' = trace
  BY DEF Descend, state
<1>2. /\ program \in Programs /\ Top \in FrameType /\ Top.key \in Keys /\ Top.expr \in Exprs
      /\ Top.vals \in Partial(Top.expr) /\ Len(stack) \in Nat \ {0}
  BY <1>1, TopFacts
<1>3. Operand(Top.expr, Top.vals) \in Exprs
  BY <1>1, <1>2, WantsFacts
<1>4. /\ f \in FrameType /\ f.vals = <<>> /\ f.key = Top.key /\ ~f.body
      /\ f.expr = Operand(Top.expr, Top.vals)
  BY <1>2, <1>3 DEF Frame, FrameType
<1> HIDE DEF f
<1>5. AllBegun(program, trace) /\ FramesTraced(program, trace, stack) /\ Grows(trace, trace)
  BY TracedParts DEF Grows
<1>6. FrameTraced(program, trace, Top)
  BY <1>2, <1>5 DEF FramesTraced, Top
<1>7. FrameTraced(program, trace, f)
  BY <1>1, <1>2, <1>4, <1>6, OperandTraced
<1>8. Entered(trace, f, stack[Len(stack)])
  BY <1>4 DEF Entered, Top
<1>9. FramesTraced(program, trace, stack')
  BY <1>1, <1>2, <1>4, <1>5, <1>7, <1>8, FramesPushed DEF Inductive, TypeOK
<1> QED BY <1>1, <1>5, <1>9, Retraced

LEMMA ReadRecursesTraced ==
    ASSUME Inductive, Traced, ReadRecurses
    PROVE  Traced'
<1> DEFINE f == Frame(Read, Body(program, Read.rule), TRUE)
<1>1. /\ Reading /\ stack # <<>> /\ stack' = Append(stack, f)
      /\ trace' = Opened(ReadRecorded, Read.rule)
      /\ program' = program /\ cache' = cache
  BY DEF ReadRecurses, Known, Reading
<1>2. /\ program \in Programs /\ Read \in Keys /\ Len(stack) \in Nat \ {0}
      /\ stack \in Seq(FrameType)
  BY <1>1, TopFacts, ReadFacts DEF Inductive, TypeOK
<1>3. /\ f \in FrameType /\ f.vals = <<>> /\ f.key = Read /\ f.body
      /\ f.expr = Body(program, Read.rule)
  BY <1>2, BodyType DEF Frame, FrameType
<1> HIDE DEF f
<1>4. /\ Grows(trace, ReadRecorded) /\ AllBegun(program, ReadRecorded)
      /\ Top.key.rule \in DOMAIN ReadRecorded
      /\ Read.rule \in Listed(ReadRecorded[Top.key.rule].deps)
      /\ FramesTraced(program, ReadRecorded, stack)
  BY <1>1, ReadTraced
<1>5. /\ Grows(ReadRecorded, trace') /\ AllBegun(program, trace')
      /\ Read.rule \in DOMAIN trace'
  BY <1>1, <1>4, OpenedBegun
<1>6. PICK t : t = trace'
  OBVIOUS
<1>7. Grows(trace, t)
  BY <1>4, <1>5, <1>6, GrowsFurther
<1>8. FramesTraced(program, t, stack)
  BY <1>2, <1>4, <1>5, <1>6, FramesKept
<1>9. FrameTraced(program, t, f)
  BY <1>2, <1>3, <1>5, <1>6, BodyTraced
<1>10. Entered(t, f, stack[Len(stack)])
  BY <1>3, <1>4, <1>5, <1>6 DEF Entered, Top, Grows
<1>11. FramesTraced(program, t, stack')
  BY <1>1, <1>2, <1>3, <1>8, <1>9, <1>10, FramesPushed
<1> QED BY <1>1, <1>5, <1>6, <1>7, <1>11, Retraced

-----------------------------------------------------------------------------
(* What a node skips on a value is among what it passes over.              *)
LEMMA SkippedPassed ==
    ASSUME NEW p \in Programs, NEW e \in Exprs, NEW vals \in Partial(e)
    PROVE  Skipped(e, vals) \subseteq Passed(p, e, vals)
<1> DEFINE o == Rest(p, Operand(e, vals), <<>>)
           more == IF Wants(e, vals)
                   THEN Passed(p, Operand(e, vals), <<>>) \cup
                        IF o.ok THEN Passed(p, e, Append(vals, o.val)) ELSE {}
                   ELSE {}
<1>1. Passed(p, e, vals) = Skipped(e, vals) \cup more
  BY TraceAssumption
<1> HIDE DEF more
<1> QED BY <1>1

LEMMA ReadCachedTraced ==
    ASSUME Inductive, Traced, ReadCached
    PROVE  Traced'
<1> DEFINE vals == <<cache[Read]>>
           n == Len(stack)
<1>1. /\ Reading /\ stack # <<>> /\ Read \in DOMAIN cache
      /\ stack' = [stack EXCEPT ![n].vals = vals] /\ trace' = ReadRecorded
      /\ program' = program /\ cache' = cache
  BY DEF ReadCached, Known, Reading
<1>2. /\ program \in Programs /\ n \in 1..Len(stack) /\ Top = stack[n] /\ Top \in FrameType
      /\ Top.expr \in Exprs /\ Top.expr.op = "derived" /\ Top.vals = <<>>
      /\ Read = Top.expr.key /\ stack \in Seq(FrameType)
  BY <1>1, TopFacts DEF Reading, Read, Top, Inductive, TypeOK
<1>3. cache[Read] \in Values /\ Meaning(program, Top.expr.key) = Ok(cache[Read])
  BY <1>1, <1>2 DEF Inductive, TypeOK, CacheSound
<1>4. vals \in Partial(Top.expr) /\ vals # <<>> /\ vals \in Seq(Values)
  <2>1. Append(<<>>, cache[Read]) \in Partial(Top.expr)
    BY <1>2, <1>3, ReadFilled
  <2>2. vals = Append(<<>>, cache[Read]) /\ vals # <<>>
    OBVIOUS
  <2> HIDE DEF vals
  <2> QED BY <2>1, <2>2, <1>2, PartialFacts
<1> HIDE DEF vals, n
<1>5. stack' = CutBack(stack, n, vals)
  BY <1>1, <1>2, WholeStack DEF n, CutBack
<1>6. PICK t : t = trace'
  OBVIOUS
<1>7. /\ Grows(trace, t) /\ AllBegun(program, t) /\ FramesTraced(program, t, stack)
      /\ Read.rule \in Listed(t[Top.key.rule].deps)
  BY <1>1, <1>6, ReadTraced
<1>8. FrameTraced(program, t, Top)
  BY <1>2, <1>7 DEF FramesTraced
<1>9. /\ ReadUpTo(program, t[Top.key.rule], [Top EXCEPT !.vals = vals])
      /\ PassedUpTo(program, t[Top.key.rule], [Top EXCEPT !.vals = vals])
  BY <1>2, <1>4, <1>7, <1>8, ReadDone
<1>10. FramesTraced(program, t, stack')
  BY <1>2, <1>4, <1>5, <1>7, <1>9, FramesFilled
<1> QED BY <1>1, <1>6, <1>7, <1>10, Retraced

LEMMA ReturnTraced ==
    ASSUME Inductive, Traced, Return
    PROVE  Traced'
<1> DEFINE v == Outcome.val
           m == Len(stack) - 1
           vals == Append(Caller.vals, v)
           r == Caller.key.rule
<1>1. /\ Complete /\ Outcome.ok /\ ~Top.body /\ Deliver(v) /\ stack # <<>>
      /\ ~Wants(Top.expr, Top.vals) /\ ~(Top.expr.op = "derived" /\ Top.vals = <<>>)
      /\ trace' = RecordSkipped(trace, Top.key.rule, Caller.expr, vals)
      /\ program' = program /\ cache' = cache
  BY DEF Return, Complete, Reading
<1>2. /\ Outcome = Rest(program, Top.expr, <<>>) /\ v \in Values /\ Outcome = Ok(v)
  BY <1>1, CompleteFacts, OutcomeCases
<1>3. Len(stack) # 1
  BY <1>1 DEF Inductive, StackSound, Top
<1>4. /\ m \in 1..Len(stack) /\ program \in Programs /\ Caller = stack[m]
      /\ Caller.expr \in Exprs /\ Caller.vals \in Partial(Caller.expr)
      /\ Wants(Caller.expr, Caller.vals) /\ Top.expr = Operand(Caller.expr, Caller.vals)
  BY <1>1, <1>3, CallerFacts, TopFacts DEF Follows, Caller
<1>5. stack' = CutBack(stack, m, vals)
  BY <1>1, <1>3, CutBackDeliver
<1>6. vals \in Partial(Caller.expr) /\ vals \in Seq(Values)
  BY <1>2, <1>4, WantsFacts, AppendPartial, PartialFacts
<1>7. /\ stack \in Seq(FrameType) /\ Len(stack) \in Nat \ {0} /\ Top = stack[m+1]
      /\ Caller \in FrameType /\ Top \in FrameType /\ Top.vals \in Partial(Top.expr)
      /\ m \in 1..(Len(stack) - 1)
  <2>1. stack \in Seq(FrameType) /\ Len(stack) \in Nat \ {0}
    BY <1>1, TopFacts DEF Inductive, TypeOK
  <2>2. m + 1 = Len(stack) /\ m \in 1..(Len(stack) - 1)
    <3>1. \A n \in Nat \ {0} : n # 1 => (n - 1) + 1 = n /\ n - 1 \in 1..(n - 1)
      OBVIOUS
    <3> QED BY <3>1, <2>1, <1>3
  <2>3. Caller \in FrameType
    BY <1>4, <2>1, ElementOfSeq
  <2> HIDE DEF m
  <2> QED BY <1>1, <2>1, <2>2, <2>3, TopFacts DEF Top
<1> HIDE DEF m, v, vals
<1>8. AllBegun(program, trace) /\ FramesTraced(program, trace, stack) /\ TraceTyped(trace)
  BY TracedParts DEF Inductive, TypeOK, TraceTyped
<1>9. /\ FrameTraced(program, trace, Caller) /\ FrameTraced(program, trace, Top)
      /\ Entered(trace, Top, Caller)
  BY <1>4, <1>7, <1>8 DEF FramesTraced, Top
<1>10. Top.key = Caller.key
  BY <1>1, <1>9 DEF Entered
<1>11. Skipped(Caller.expr, vals) \subseteq RulePasses(program, r)
  <2>1. Rest(program, Operand(Caller.expr, Caller.vals), <<>>) = Ok(v)
    BY <1>2, <1>4
  <2>2. Passed(program, Caller.expr, vals) = PassedAfter(program, Caller.expr, Caller.vals)
    BY <2>1, AfterValue DEF vals
  <2>3. PassedAfter(program, Caller.expr, Caller.vals)
          \subseteq Passed(program, Caller.expr, Caller.vals)
    BY <1>4, ReadsWants
  <2>4. Skipped(Caller.expr, vals) \subseteq Passed(program, Caller.expr, vals)
    BY <1>4, <1>6, SkippedPassed
  <2> QED BY <2>2, <2>3, <2>4, <1>9 DEF FrameTraced, PassedUpTo
<1>12. PICK t : t = trace'
  OBVIOUS
<1>13. /\ Grows(trace, t) /\ AllBegun(program, t)
       /\ Skipped(Caller.expr, vals) \subseteq t[r].skipped
  BY <1>1, <1>8, <1>9, <1>10, <1>11, <1>12, SkippedBegun DEF FrameTraced
<1>14. FramesTraced(program, t, stack)
  BY <1>7, <1>8, <1>13, FramesKept
<1>15. FrameTraced(program, t, Caller) /\ FrameTraced(program, t, Top)
  BY <1>9, <1>13, FrameKept
<1>16. /\ Listed(Reads(program, Top.expr, <<>>)) \subseteq Listed(t[r].deps)
       /\ Passed(program, Top.expr, <<>>) \subseteq t[r].skipped
  BY <1>1, <1>4, <1>7, <1>10, <1>15, DoneTraced
<1>17. /\ ReadUpTo(program, t[r], [Caller EXCEPT !.vals = vals])
       /\ PassedUpTo(program, t[r], [Caller EXCEPT !.vals = vals])
  <2>1. Rest(program, Top.expr, <<>>) = Ok(v)
    BY <1>2
  <2> QED BY <2>1, <1>2, <1>4, <1>7, <1>13, <1>15, <1>16, OperandDone DEF vals
<1>18. FramesTraced(program, t, stack')
  BY <1>4, <1>5, <1>6, <1>7, <1>14, <1>17, FramesFilled
<1> QED BY <1>1, <1>12, <1>13, <1>18, Retraced

LEMMA ReturnFromRuleTraced ==
    ASSUME Inductive, Traced, ReturnFromRule
    PROVE  Traced'
<1> DEFINE v == Outcome.val
           w == Rounded(program, Top.key, v)
           r == Top.key.rule
<1>1. /\ Complete /\ Outcome.ok /\ Top.body /\ stack # <<>>
      /\ ~Wants(Top.expr, Top.vals) /\ ~(Top.expr.op = "derived" /\ Top.vals = <<>>)
      /\ cache' = Insert(cache, Top.key, w)
      /\ IF Len(stack) = 1 THEN CompleteGoal(w) ELSE Deliver(w)
      /\ program' = program /\ trace' = trace
  BY DEF ReturnFromRule, Stored, Complete, Depth, Reading
<1>2. /\ Outcome = Rest(program, Top.expr, <<>>) /\ v \in Values
  BY <1>1, CompleteFacts, OutcomeCases
<1>3. /\ program \in Programs /\ Top.key \in Keys /\ Top \in FrameType
      /\ Top.expr = Body(program, r) /\ Refusal(program, Top.key) = "none"
      /\ Top.vals \in Partial(Top.expr) /\ Len(stack) \in Nat \ {0}
  BY <1>1, TopFacts
<1>4. w \in Values /\ Meaning(program, Top.key) = Ok(w)
  BY <1>1, <1>2, <1>3, MeaningRule, RoundedType
<1> HIDE DEF w, v
<1>5. /\ AllBegun(program, trace) /\ FramesTraced(program, trace, stack)
      /\ \A k \in DOMAIN cache : /\ k.rule \in DOMAIN trace
                                 /\ Whole(program, trace[k.rule], k.rule)
  BY TracedParts
<1>6. FrameTraced(program, trace, Top)
  BY <1>3, <1>5 DEF FramesTraced, Top
<1>7. r \in DOMAIN trace /\ Whole(program, trace[r], r)
  <2>1. /\ Listed(Reads(program, Top.expr, <<>>)) \subseteq Listed(trace[r].deps)
        /\ Passed(program, Top.expr, <<>>) \subseteq trace[r].skipped
    BY <1>1, <1>3, <1>6, DoneTraced
  <2> QED BY <2>1, <1>3, <1>6 DEF Whole, RuleReads, RulePasses, FrameTraced
<1>8. \A k \in DOMAIN cache' : /\ k.rule \in DOMAIN trace
                               /\ Whole(program, trace[k.rule], k.rule)
  <2>1. DOMAIN cache' = DOMAIN cache \cup {Top.key}
    BY <1>1 DEF Insert
  <2> QED BY <2>1, <1>5, <1>7
<1>9. FramesTraced(program, trace, stack')
  <2>1. CASE Len(stack) = 1
    <3>1. stack' = <<>>
      BY <2>1, <1>1 DEF CompleteGoal, Finished
    <3> QED BY <3>1, NoFrames
  <2>2. CASE Len(stack) # 1
    <3> DEFINE m == Len(stack) - 1
               vals == Append(Caller.vals, w)
    <3>1. /\ m \in 1..Len(stack) /\ Caller = stack[m]
          /\ Caller.expr \in Exprs /\ Caller.vals = <<>>
          /\ Caller.expr.op = "derived" /\ Top.key = Caller.expr.key
      BY <2>2, <1>1, CallerFacts DEF Follows, Caller
    <3>2. stack' = CutBack(stack, m, vals)
      BY <2>2, <1>1, CutBackDeliver
    <3>3. vals \in Partial(Caller.expr) /\ vals # <<>> /\ vals \in Seq(Values)
      <4>1. Append(<<>>, w) \in Partial(Caller.expr) /\ Append(<<>>, w) # <<>>
        BY <3>1, <1>3, <1>4, ReadFilled
      <4>2. vals = Append(<<>>, w)
        BY <3>1
      <4> HIDE DEF vals
      <4> QED BY <4>1, <4>2, <3>1, PartialFacts
    <3>4. /\ stack \in Seq(FrameType) /\ Caller \in FrameType
          /\ m \in 1..(Len(stack) - 1) /\ Top = stack[m+1]
      <4>1. stack \in Seq(FrameType)
        BY DEF Inductive, TypeOK
      <4>2. m + 1 = Len(stack) /\ m \in 1..(Len(stack) - 1)
        <5>1. \A n \in Nat \ {0} : n # 1 => (n - 1) + 1 = n /\ n - 1 \in 1..(n - 1)
          OBVIOUS
        <5> QED BY <5>1, <1>3, <2>2
      <4>3. Caller \in FrameType
        BY <3>1, <4>1, ElementOfSeq
      <4> HIDE DEF m
      <4> QED BY <4>1, <4>2, <4>3 DEF Top
    <3> HIDE DEF m, vals
    <3>5. FrameTraced(program, trace, Caller) /\ Entered(trace, Top, Caller)
      BY <3>1, <3>4, <1>5 DEF FramesTraced
    <3>6. Caller.expr.key.rule \in Listed(trace[Caller.key.rule].deps)
      BY <3>1, <3>5, <1>1 DEF Entered
    <3>7. /\ ReadUpTo(program, trace[Caller.key.rule], [Caller EXCEPT !.vals = vals])
          /\ PassedUpTo(program, trace[Caller.key.rule], [Caller EXCEPT !.vals = vals])
      BY <1>3, <3>1, <3>3, <3>4, <3>5, <3>6, ReadDone
    <3> QED BY <1>5, <3>1, <3>2, <3>3, <3>4, <3>7, FramesFilled
  <2> QED BY <2>1, <2>2
<1>10. /\ AllBegun(program', trace') /\ FramesTraced(program', trace', stack')
       /\ \A k \in DOMAIN cache' : /\ k.rule \in DOMAIN trace'
                                   /\ Whole(program', trace'[k.rule], k.rule)
  BY <1>1, <1>5, <1>8, <1>9
<1> QED BY <1>10 DEF Traced, TraceBegun, TraceWhole, StackTraced, AllBegun, FramesTraced

LEMMA InitTraced ==
    ASSUME Init
    PROVE  Traced
<1>1. cache = <<>> /\ trace = <<>> /\ stack = <<>>
  BY DEF Init
<1>2. DOMAIN cache = {} /\ DOMAIN trace = {}
  BY <1>1
<1>3. FramesTraced(program, trace, stack)
  BY <1>1, NoFrames
<1>4. AllBegun(program, trace)
  BY <1>2 DEF AllBegun
<1> QED BY <1>2, <1>3, <1>4, TracedParts

LEMMA NextTraced ==
    ASSUME Inductive, Traced, [Next]_vars
    PROVE  Traced'
<1>1. CASE UNCHANGED vars
  <2>1. program' = program /\ cache' = cache /\ trace' = trace /\ stack' = stack
    BY <1>1 DEF vars, state, driver
  <2> QED BY <2>1, QuietTraced
<1>2. CASE \E k \in Keys : Ask(k)
  BY <1>2, StoppedTraced
<1>3. CASE Step
  BY <1>3, StoppedTraced, LoggedTraced, AttemptTraced, DescendTraced, ReadCachedTraced,
     ReadRecursesTraced, ReturnTraced, ReturnFromRuleTraced DEF Step
<1> QED BY <1>1, <1>2, <1>3 DEF Next

(* A finished rule's trace is the one uninterrupted recursion records,     *)
(* however often its evaluation was cut short and begun again: no edge is  *)
(* lost, doubled or out of order, and what was passed over is what the     *)
(* values rule out (depth.rs; engine.rs, `record_on`).                     *)
THEOREM TraceCorrect == Spec => []TraceExact
<1>1. Init => Traced
  BY InitTraced
<1>2. Inductive /\ Traced /\ [Next]_vars => Traced'
  BY NextTraced
<1>3. Traced => TraceExact
  <2>1. SUFFICES ASSUME Traced, NEW k \in DOMAIN cache
                 PROVE  /\ ListsFirsts(trace[k.rule].deps, RuleReads(program, k.rule))
                        /\ RulesIn(trace[k.rule].skipped)
                             = RulesIn(RulePasses(program, k.rule))
    BY DEF TraceExact
  <2>2. /\ Whole(program, trace[k.rule], k.rule)
        /\ Begun(program, trace[k.rule], k.rule)
    BY <2>1 DEF Traced, TraceBegun, TraceWhole
  <2>3. trace[k.rule].skipped = RulePasses(program, k.rule)
    BY <2>2 DEF Whole, Begun
  <2>4. ListsFirsts(trace[k.rule].deps, RuleReads(program, k.rule))
    BY <2>2 DEF Whole, Begun, ListsFirsts
  <2> QED BY <2>3, <2>4
<1> QED BY <1>1, <1>2, <1>3, InductiveHolds, PTL DEF Spec
=============================================================================
