----------------------------- MODULE InputsProofs -----------------------------
(***************************************************************************)
(* Theorems about Inputs for every set of requests, default and year.      *)
(***************************************************************************)
EXTENDS Inputs, SequenceTheorems, TLAPS

(* Among the first n records, those of one entity and start agree.         *)
Settled(n) ==
    \A i, j \in 1..n : Key(data[i]) = Key(data[j]) => data[i].value = data[j].value

(* Validation remembers a record of each entity and start it has passed.   *)
Remembered(n) ==
    /\ \A i \in 1..n : Key(data[i]) \in DOMAIN first
    /\ \A k \in DOMAIN first : first[k] \in 1..n /\ Key(data[first[k]]) = k

(* Narrowing keeps, of the first n records, one per entity that covers the *)
(* period at all: a covering one no other covering one starts later than.  *)
Seen(n) == {data[i] : i \in 1..n}
Kept(n) ==
    /\ narrowed \in Seq(Seen(n))
    /\ \A i \in 1..Len(narrowed) : Covers(narrowed[i], request.periods[1])
    /\ \A i, j \in 1..Len(narrowed) : narrowed[i].of = narrowed[j].of => i = j
    /\ \A d \in 1..n : Covers(data[d], request.periods[1]) =>
           \E i \in 1..Len(narrowed) :
               narrowed[i].of = data[d].of /\ data[d].start <= narrowed[i].start

(* The queries before n have been answered, as explain answers them.       *)
Prefix(answers, n, vals) ==
    /\ n \in Nat
    /\ \A q \in DOMAIN answers : q < n => answers[q].ok
    /\ vals = [q \in 1..(n - 1) |-> answers[q].val]
Answered(n) == Prefix(Answers, n, values)

(* The reads in which the modes differ.                                    *)
YearThroughMember == request.read = "input_for_year" /\ request.through = "member"

Inductive ==
    /\ request \in Requests
    /\ phase \in {"validate", "narrow", "bulk", "explain", "done"}
    /\ next \in Nat \ {0}
    /\ phase = "validate" =>
           /\ next <= Len(data) + 1 /\ Remembered(next - 1) /\ Settled(next - 1)
           /\ narrowed = <<>> /\ values = <<>>
    /\ phase \in {"narrow", "bulk", "explain"} => Settled(Len(data))
    /\ phase \in {"narrow", "bulk"} => SharedPeriod
    /\ phase = "narrow" => next <= Len(data) + 1 /\ Kept(next - 1) /\ values = <<>>
    /\ phase = "bulk" => Kept(Len(data)) 
    /\ phase \in {"bulk", "explain"} =>
           next <= Len(request.periods) + 1 /\ (YearThroughMember \/ Answered(next))
    /\ PeriodReadsAgree
-----------------------------------------------------------------------------
(* What the assumption says of the request under execution.                *)
LEMMA RequestFacts ==
    ASSUME request \in Requests
    PROVE  /\ request.read \in ReadKinds /\ request.through \in {"rule", "member"}
           /\ Len(request.periods) \in Nat /\ Len(data) \in Nat
           /\ \A i \in 1..Len(data) : data[i].start \in Int
BY RequestsAssumption DEF data

(* Records that tie have one entity and one start, so once the records are *)
(* settled they state one value: `lookup_input` finds no ambiguity.        *)
LEMMA TiesAgree ==
    ASSUME request \in Requests, Settled(Len(data)), NEW entity, NEW period,
           NEW r \in LatestStart(Covering(data, entity, period)),
           NEW s \in LatestStart(Covering(data, entity, period))
    PROVE  r.value = s.value
<1>1. /\ r \in Covering(data, entity, period) /\ s \in Covering(data, entity, period)
      /\ r.start <= s.start /\ s.start <= r.start
  BY DEF LatestStart
<1>2. PICK i \in 1..Len(data) : data[i] = r
  BY <1>1 DEF Covering
<1>3. PICK j \in 1..Len(data) : data[j] = s
  BY <1>1 DEF Covering
<1>4. r.of = s.of
  BY <1>1 DEF Covering
<1>5. r.start = s.start
  BY <1>1, <1>2, <1>3, RequestFacts
<1> QED BY <1>2, <1>3, <1>4, <1>5 DEF Settled, Key

LEMMA NeverAmbiguous ==
    ASSUME request \in Requests, Settled(Len(data)), NEW entity, NEW period
    PROVE  Lookup(data, entity, period) # Err("ambiguous_input")
<1>1. ~ \E r, s \in LatestStart(Covering(data, entity, period)) : r.value # s.value
  BY TiesAgree
<1> QED BY <1>1 DEF Lookup, Err, Ok

(* The record narrowing keeps for an entity answers at the common period   *)
(* what all the records answer there.                                      *)
LEMMA NarrowedLookup ==
    ASSUME request \in Requests, Settled(Len(data)), Kept(Len(data)), NEW entity
    PROVE  Lookup(narrowed, entity, request.periods[1])
               = Lookup(data, entity, request.periods[1])
<1> DEFINE P == request.periods[1]
           all == Covering(data, entity, P)
           few == Covering(narrowed, entity, P)
<1>1. /\ Len(narrowed) \in Nat
      /\ \A i \in 1..Len(narrowed) :
            Covers(narrowed[i], P) /\ \E d \in 1..Len(data) : narrowed[i] = data[d]
      /\ \A i, j \in 1..Len(narrowed) : narrowed[i].of = narrowed[j].of => i = j
      /\ \A d \in 1..Len(data) : Covers(data[d], P) =>
             \E i \in 1..Len(narrowed) :
                 narrowed[i].of = data[d].of /\ data[d].start <= narrowed[i].start
  BY DEF Kept, Seen
<1>2. ASSUME NEW r \in few
      PROVE  /\ r \in all
             /\ \E i \in 1..Len(narrowed) : r = narrowed[i] /\ r.of = entity
  <2>1. PICK i \in 1..Len(narrowed) : r = narrowed[i] /\ r.of = entity
    BY DEF Covering
  <2>2. PICK d \in 1..Len(data) : r = data[d]
    BY <1>1, <2>1
  <2>3. Covers(r, P)
    BY <1>1, <2>1
  <2> QED BY <2>1, <2>2, <2>3 DEF Covering
<1>3. ASSUME NEW r \in few, NEW s \in few
      PROVE  r = s
  <2>1. PICK i \in 1..Len(narrowed) : r = narrowed[i] /\ r.of = entity
    BY <1>2
  <2>2. PICK j \in 1..Len(narrowed) : s = narrowed[j] /\ s.of = entity
    BY <1>2
  <2> QED BY <1>1, <2>1, <2>2
<1>4. ASSUME NEW d \in all
      PROVE  \E r \in few : d.start <= r.start
  <2>1. PICK i \in 1..Len(data) : data[i] = d /\ d.of = entity /\ Covers(d, P)
    BY DEF Covering
  <2>2. PICK j \in 1..Len(narrowed) :
            narrowed[j].of = d.of /\ d.start <= narrowed[j].start
    BY <1>1, <2>1
  <2>3. narrowed[j] \in few
    BY <1>1, <2>1, <2>2 DEF Covering
  <2> QED BY <2>2, <2>3
<1>5. CASE few = {}
  <2>1. all = {}
    BY <1>4, <1>5
  <2>2. LatestStart(few) = {} /\ LatestStart(all) = {}
    BY <2>1, <1>5 DEF LatestStart
  <2> QED BY <2>2 DEF Lookup
<1>6. CASE few # {}
  <2>1. PICK r \in few : few = {r}
    BY <1>3, <1>6
  <2>2. \A d \in all : d.start <= r.start
    BY <1>4, <2>1
  <2>3. r \in LatestStart(all)
    BY <1>2, <2>2 DEF LatestStart
  <2>4. r.start <= r.start
    BY <1>2, <2>2
  <2>5. LatestStart(few) = {r}
    BY <2>1, <2>4 DEF LatestStart
  <2>6. \A s \in LatestStart(all) : s.value = r.value
    BY <2>3, TiesAgree
  <2>7. (CHOOSE s \in LatestStart(all) : TRUE).value = r.value
    BY <2>3, <2>6
  <2>8. (CHOOSE s \in LatestStart(few) : TRUE).value = r.value
    BY <2>5
  <2>9. Lookup(data, entity, P) = Ok(r.value)
    BY <2>3, <2>6, <2>7 DEF Lookup
  <2>10. Lookup(narrowed, entity, P) = Ok(r.value)
    BY <2>5, <2>8 DEF Lookup
  <2> QED BY <2>9, <2>10
<1> QED BY <1>5, <1>6

(* A row fast mode answers is answered as explain answers its query.       *)
LEMMA RowAsExplain ==
    ASSUME request \in Requests, Settled(Len(data)), Kept(Len(data)), SharedPeriod,
           NEW q \in Queries, BulkRead(q).ok, ~YearThroughMember
    PROVE  BulkRead(q) = Answers[q]
<1>1. request.periods[q] = request.periods[1]
  BY DEF SharedPeriod
<1>2. Lookup(narrowed, q, request.periods[q]) = Lookup(data, q, request.periods[q])
  BY <1>1, NarrowedLookup
<1>3. ~(request.through = "rule" /\ request.read = "input_for_year")
  BY DEF BulkRead, Err
<1>4. BulkRead(q) = Read(narrowed, q, request.periods[q])
  BY <1>3 DEF BulkRead
<1>5. Answers[q] = Read(data, q, request.periods[q])
  BY DEF Answers
<1>6. CASE request.read = "input"
  BY <1>2, <1>4, <1>5, <1>6 DEF Read
<1>7. CASE request.read = "input_or_else"
  BY <1>2, <1>4, <1>5, <1>7 DEF Read
<1>8. request.read # "input_for_year"
  BY <1>3, RequestFacts DEF YearThroughMember
<1> QED BY <1>6, <1>7, <1>8, RequestFacts DEF ReadKinds
-----------------------------------------------------------------------------
(* A record that passes validation agrees with those before it.            *)
LEMMA ValidateStep ==
    ASSUME Inductive, ValidateRecord
    PROVE  Remembered(next - 1)' /\ Settled(next - 1)'
<1> DEFINE r == data[next]
<1>1. /\ next \in 1..Len(data) /\ Len(data) \in Nat
      /\ Remembered(next - 1) /\ Settled(next - 1) /\ UNCHANGED data
  BY RequestFacts DEF Inductive, ValidateRecord, Loop, data
<1>2. first' = [k \in DOMAIN first \cup {Key(r)} |-> IF k \in DOMAIN first THEN first[k] ELSE next]
  BY DEF ValidateRecord
<1>3. \A i \in 1..next : i = next \/ i \in 1..(next - 1)
  BY <1>1
<1>4. \A k \in DOMAIN first : first[k] \in 1..next /\ Key(data[first[k]]) = k
  BY <1>1 DEF Remembered
<1>5. ASSUME NEW i \in 1..(next - 1), Key(data[i]) = Key(r)
      PROVE  data[i].value = r.value
  <2>1. Key(r) \in DOMAIN first
    BY <1>1, <1>5 DEF Remembered
  <2>2. data[first[Key(r)]].value = r.value
    BY <2>1 DEF ValidateRecord, ConflictsAtStart, Conflicts
  <2>3. first[Key(r)] \in 1..(next - 1) /\ Key(data[first[Key(r)]]) = Key(r)
    BY <1>1, <2>1 DEF Remembered
  <2> QED BY <1>1, <1>5, <2>2, <2>3 DEF Settled
<1>6. Settled(next)
  BY <1>1, <1>3, <1>5 DEF Settled
<1>7. /\ \A i \in 1..next : Key(data[i]) \in DOMAIN first'
      /\ \A k \in DOMAIN first' : first'[k] \in 1..next /\ Key(data[first'[k]]) = k
  BY <1>1, <1>2, <1>3, <1>4 DEF Remembered
<1>8. next' - 1 = next
  BY <1>1 DEF ValidateRecord, Loop
<1>9. Settled(next - 1)'
  BY <1>1, <1>6, <1>8 DEF Settled, Key
<1>10. Remembered(next - 1)'
  BY <1>1, <1>7, <1>8 DEF Remembered, Key
<1> QED BY <1>9, <1>10

(* Narrowing keeps a record of an entity until one that starts later.      *)
LEMMA NarrowStep ==
    ASSUME Inductive, NarrowRecord
    PROVE  Kept(next - 1)'
<1> DEFINE r == data[next]
           P == request.periods[1]
           kept == {i \in 1..Len(narrowed) : narrowed[i].of = r.of}
<1>1. /\ next \in 1..Len(data) /\ Len(data) \in Nat /\ Kept(next - 1)
      /\ \A i \in 1..Len(data) : data[i].start \in Int
      /\ next' - 1 = next /\ UNCHANGED request
  BY RequestFacts DEF Inductive, NarrowRecord, Loop
<1>2. /\ narrowed \in Seq(Seen(next - 1)) /\ Len(narrowed) \in Nat
      /\ \A i \in 1..Len(narrowed) : narrowed[i] \in Seen(next - 1) /\ Covers(narrowed[i], P)
      /\ \A i, j \in 1..Len(narrowed) : narrowed[i].of = narrowed[j].of => i = j
      /\ \A d \in 1..(next - 1) : Covers(data[d], P) =>
             \E i \in 1..Len(narrowed) :
                 narrowed[i].of = data[d].of /\ data[d].start <= narrowed[i].start
  <2>1. /\ narrowed \in Seq(Seen(next - 1))
         /\ \A i \in 1..Len(narrowed) : Covers(narrowed[i], P)
    BY <1>1 DEF Kept
  <2>2. Len(narrowed) \in Nat /\ \A i \in 1..Len(narrowed) : narrowed[i] \in Seen(next - 1)
    BY <2>1, ElementOfSeq, LenProperties
  <2>3. \A d \in 1..(next - 1) : Covers(data[d], P) =>
            \E i \in 1..Len(narrowed) :
                narrowed[i].of = data[d].of /\ data[d].start <= narrowed[i].start
    BY <1>1 DEF Kept
  <2>4. \A i, j \in 1..Len(narrowed) : narrowed[i].of = narrowed[j].of => i = j
    BY <1>1 DEF Kept
  <2> QED BY <2>1, <2>2, <2>3, <2>4
<1>3. Seen(next - 1) \subseteq Seen(next) /\ r \in Seen(next) /\ \A s \in Seen(next) : s.start \in Int
  BY <1>1 DEF Seen
<1>4. \A d \in 1..next : d = next \/ d \in 1..(next - 1)
  BY <1>1
<1>5. CASE ~Covers(r, P)
  <2>1. narrowed' = narrowed
    BY <1>5 DEF NarrowRecord
  <2>2. narrowed \in Seq(Seen(next))
    BY <1>2, <1>3
  <2> QED BY <1>1, <1>2, <1>4, <1>5, <2>1, <2>2 DEF Kept, Seen, data
<1>6. CASE Covers(r, P) /\ kept = {}
  <2>1. narrowed' = Append(narrowed, r)
    BY <1>6 DEF NarrowRecord
  <2>2. narrowed \in Seq(Seen(next))
    BY <1>2, <1>3
  <2>3. /\ narrowed' \in Seq(Seen(next)) /\ Len(narrowed') = Len(narrowed) + 1
        /\ \A i \in 1..Len(narrowed) : narrowed'[i] = narrowed[i]
        /\ narrowed'[Len(narrowed) + 1] = r
    BY <1>3, <2>1, <2>2, AppendProperties
  <2>4. \A i \in 1..Len(narrowed') :
            \/ i \in 1..Len(narrowed) /\ narrowed'[i] = narrowed[i]
            \/ i = Len(narrowed) + 1 /\ narrowed'[i] = r
    BY <1>2, <2>3
  <2>5. \A i \in 1..Len(narrowed) : narrowed[i].of # r.of
    BY <1>6
  <2>6. \A i \in 1..Len(narrowed') : Covers(narrowed'[i], P)
    BY <1>2, <1>6, <2>4
  <2>7. \A i, j \in 1..Len(narrowed') : narrowed'[i].of = narrowed'[j].of => i = j
    BY <1>2, <2>4, <2>5
  <2>8. \A d \in 1..next : Covers(data[d], P) =>
             \E i \in 1..Len(narrowed') :
                 narrowed'[i].of = data[d].of /\ data[d].start <= narrowed'[i].start
    <3> SUFFICES ASSUME NEW d \in 1..next, Covers(data[d], P)
                 PROVE  \E i \in 1..Len(narrowed') :
                            narrowed'[i].of = data[d].of /\ data[d].start <= narrowed'[i].start
      OBVIOUS
    <3>1. CASE d = next
      <4>1. Len(narrowed) + 1 \in 1..Len(narrowed')
        BY <1>2, <2>3
      <4>2. r.start <= r.start
        BY <1>3
      <4> QED BY <2>3, <3>1, <4>1, <4>2
    <3>2. CASE d \in 1..(next - 1)
      <4>1. PICK i \in 1..Len(narrowed) :
                narrowed[i].of = data[d].of /\ data[d].start <= narrowed[i].start
        BY <1>2, <3>2
      <4>2. i \in 1..Len(narrowed') /\ narrowed'[i] = narrowed[i]
        BY <1>2, <2>3
      <4> QED BY <4>1, <4>2
    <3> QED BY <1>4, <3>1, <3>2
  <2> QED BY <1>1, <2>3, <2>6, <2>7, <2>8 DEF Kept, Seen, data
<1>7. CASE Covers(r, P) /\ kept # {}
  <2>1. narrowed' = [i \in 1..Len(narrowed) |->
                        IF i \in kept /\ Replaces(r, narrowed[i]) THEN r ELSE narrowed[i]]
    BY <1>7 DEF NarrowRecord
  <2>2. narrowed \in Seq(Seen(next))
    BY <1>2, <1>3
  <2>3. /\ DOMAIN narrowed' = 1..Len(narrowed)
        /\ \A i \in 1..Len(narrowed) :
              /\ narrowed'[i] \in Seen(next)
              /\ narrowed'[i] = IF narrowed[i].of = r.of /\ Replaces(r, narrowed[i])
                                THEN r ELSE narrowed[i]
    BY <1>2, <1>3, <2>1
  <2>4. narrowed' \in Seq(Seen(next)) /\ Len(narrowed') = Len(narrowed)
    <3>1. narrowed' = [i \in 1..Len(narrowed) |-> narrowed'[i]]
      BY <2>1
    <3> QED BY <1>2, <2>3, <3>1
  <2>5. \A i \in 1..Len(narrowed) :
            /\ narrowed'[i].of = narrowed[i].of
            /\ narrowed[i].start <= narrowed'[i].start
            /\ narrowed[i].of = r.of => r.start <= narrowed'[i].start
    <3> TAKE i \in 1..Len(narrowed)
    <3>1. narrowed[i].start \in Int /\ r.start \in Int
      BY <1>2, <1>3
    <3> QED BY <2>3, <3>1 DEF Replaces
  <2>6. \A i \in 1..Len(narrowed') : Covers(narrowed'[i], P)
    BY <1>2, <1>7, <2>3, <2>4
  <2>7. \A i, j \in 1..Len(narrowed') : narrowed'[i].of = narrowed'[j].of => i = j
    BY <1>2, <2>4, <2>5
  <2>8. \A d \in 1..next : Covers(data[d], P) =>
             \E i \in 1..Len(narrowed') :
                 narrowed'[i].of = data[d].of /\ data[d].start <= narrowed'[i].start
    <3> SUFFICES ASSUME NEW d \in 1..next, Covers(data[d], P)
                 PROVE  \E i \in 1..Len(narrowed') :
                            narrowed'[i].of = data[d].of /\ data[d].start <= narrowed'[i].start
      OBVIOUS
    <3>1. CASE d = next
      <4>1. PICK i \in 1..Len(narrowed) : narrowed[i].of = r.of
        BY <1>7
      <4> QED BY <2>4, <2>5, <3>1, <4>1
    <3>2. CASE d \in 1..(next - 1)
      <4>1. PICK i \in 1..Len(narrowed) :
                narrowed[i].of = data[d].of /\ data[d].start <= narrowed[i].start
        BY <1>2, <3>2
      <4>2. narrowed'[i].of = data[d].of /\ narrowed[i].start <= narrowed'[i].start
        BY <2>5, <4>1
      <4>3. data[d].start \in Int
        BY <1>1, <3>2
      <4>4. narrowed[i].start \in Int /\ narrowed'[i].start \in Int
        BY <1>2, <1>3, <2>3
      <4>5. data[d].start <= narrowed'[i].start
        BY <4>1, <4>2, <4>3, <4>4
      <4> QED BY <2>4, <4>2, <4>5
    <3> QED BY <1>4, <3>1, <3>2
  <2> QED BY <1>1, <2>4, <2>6, <2>7, <2>8 DEF Kept, Seen, data
<1> QED BY <1>5, <1>6, <1>7

(* What validation, the mode and the queries before leave undone at the    *)
(* end is what `execute_request` owes: the first error or all the answers. *)
LEMMA SettledExpected ==
    ASSUME request \in Requests, Settled(Len(data))
    PROVE  ~ \E i, j \in 1..Len(data) :
               Key(data[i]) = Key(data[j]) /\ data[i].value # data[j].value
BY DEF Settled

LEMMA AnsweredExpected ==
    ASSUME request \in Requests, Settled(Len(data)), Answered(Len(request.periods) + 1)
    PROVE  Expected = Ok(values)
<1>1. Len(request.periods) \in Nat
  BY RequestFacts
<1>2. \A q \in Queries : Answers[q].ok
  <2>1. DOMAIN Answers = Queries
    BY DEF Answers
  <2> QED BY <1>1, <2>1 DEF Answered, Prefix, Queries
<1>3. Failing = {}
  BY <1>2 DEF Failing
<1>4. values = [q \in Queries |-> Answers[q].val]
  <2>1. (Len(request.periods) + 1) - 1 = Len(request.periods)
    BY <1>1
  <2> QED BY <2>1 DEF Answered, Prefix, Queries
<1> QED BY <1>3, <1>4, SettledExpected DEF Expected

LEMMA FailedExpected ==
    ASSUME request \in Requests, Settled(Len(data)), NEW n \in Queries, Answered(n),
           ~Answers[n].ok
    PROVE  Expected = Answers[n]
<1>1. Len(request.periods) \in Nat /\ Queries \subseteq Nat
  BY RequestFacts DEF Queries
<1>2. n \in Failing
  BY DEF Failing
<1>3. \A q \in Failing : n <= q
  <2> TAKE q \in Failing
  <2>1. q \in Queries /\ ~(q < n)
    BY DEF Failing, Answered, Prefix, Answers
  <2> QED BY <1>1, <2>1
<1>4. \A q \in Failing : (\A other \in Failing : q <= other) => q = n
  <2> SUFFICES ASSUME NEW q \in Failing, \A other \in Failing : q <= other
               PROVE  q = n
    OBVIOUS
  <2>1. q \in Nat /\ n \in Nat /\ q <= n /\ n <= q
    BY <1>1, <1>2, <1>3 DEF Failing
  <2> QED BY <2>1
<1>5. (CHOOSE q \in Failing : \A other \in Failing : q <= other) = n
  BY <1>2, <1>3, <1>4
<1> QED BY <1>2, <1>5, SettledExpected DEF Expected

(* One more answer.                                                        *)
LEMMA AnswerStep ==
    ASSUME NEW answers, NEW n \in Nat \ {0}, NEW vals, Prefix(answers, n, vals),
           DOMAIN answers \subseteq Nat, answers[n].ok
    PROVE  Prefix(answers, n + 1, Append(vals, answers[n].val))
<1> DEFINE S == {answers[q].val : q \in 1..n}
           longer == Append(vals, answers[n].val)
<1>1. vals = [q \in 1..(n - 1) |-> answers[q].val]
  BY DEF Prefix
<1>2. vals \in Seq(S) /\ Len(vals) = n - 1 /\ answers[n].val \in S
  BY <1>1
<1> HIDE DEF S
<1>3. /\ longer \in Seq(S) /\ Len(longer) = n /\ longer[n] = answers[n].val
      /\ \A i \in 1..(n - 1) : longer[i] = vals[i]
  BY <1>2, AppendProperties
<1>4. \A i \in 1..n : longer[i] = answers[i].val
  BY <1>1, <1>3
<1>5. longer = [i \in 1..n |-> longer[i]]
  BY <1>3, LenProperties
<1>6. longer = [i \in 1..n |-> answers[i].val]
  BY <1>4, <1>5
<1>7. (n + 1) - 1 = n /\ \A q \in DOMAIN answers : q < n + 1 => q < n \/ q = n
  OBVIOUS
<1> QED BY <1>6, <1>7 DEF Prefix

-----------------------------------------------------------------------------
LEMMA InductiveInit == Init => Inductive
<1> SUFFICES ASSUME Init PROVE Inductive
  OBVIOUS
<1>1. Len(data) \in Nat
  BY RequestFacts DEF Init
<1>2. Remembered(0) /\ Settled(0)
  BY DEF Remembered, Settled, Init
<1> QED BY <1>1, <1>2 DEF Init, Inductive, PeriodReadsAgree

LEMMA NothingAnswered ==
    ASSUME NEW answers, DOMAIN answers \subseteq Nat \ {0}
    PROVE  Prefix(answers, 1, <<>>)
<1>1. \A q \in DOMAIN answers : ~(q < 1)
  OBVIOUS
<1>2. <<>> = [q \in 1..(1 - 1) |-> answers[q].val]
  OBVIOUS
<1> QED BY <1>1, <1>2 DEF Prefix

(* Every step keeps the invariant.                                         *)
LEMMA InductiveNext == Inductive /\ [Next]_vars => Inductive'
<1> SUFFICES ASSUME Inductive, [Next]_vars PROVE Inductive'
  OBVIOUS
<1>1. /\ request \in Requests /\ next \in Nat \ {0}
      /\ Len(request.periods) \in Nat /\ Len(data) \in Nat
  BY RequestFacts DEF Inductive
<1>13. UNCHANGED request => UNCHANGED Answers /\ DOMAIN Answers' \subseteq Nat \ {0}
  BY <1>1 DEF Answers, Queries, data, Read
<1>14. DOMAIN Answers \subseteq Nat
  BY <1>1 DEF Answers, Queries
<1>2. CASE ValidateRecord
  <2>1. Remembered(next - 1)' /\ Settled(next - 1)'
    BY <1>2, ValidateStep
  <2> QED BY <1>1, <1>2, <2>1 DEF ValidateRecord, Loop, Inductive, PeriodReadsAgree, data
<1>3. CASE RefuseConflict
  <2>1. /\ request \in Requests /\ UNCHANGED <<request, next>> /\ phase' = "done"
        /\ answer' = Err("ambiguous_input")
    BY <1>1, <1>3 DEF RefuseConflict, Respond
  <2>2. PICK i \in 1..Len(data) :
            Key(data[i]) = Key(data[next]) /\ data[i].value # data[next].value
    <3>1. Remembered(next - 1) /\ next \in 1..Len(data)
      BY <1>1, <1>3 DEF RefuseConflict, Inductive
    <3>2. /\ Key(data[next]) \in DOMAIN first
          /\ data[first[Key(data[next])]].value # data[next].value
      BY <1>3 DEF RefuseConflict, ConflictsAtStart, Conflicts
    <3>3. first[Key(data[next])] \in 1..(next - 1)
      BY <3>1, <3>2 DEF Remembered
    <3>4. first[Key(data[next])] \in 1..Len(data)
      BY <1>1, <3>1, <3>3
    <3> QED BY <3>1, <3>2, <3>4 DEF Remembered
  <2>3. next \in 1..Len(data)
    BY <1>1, <1>3 DEF RefuseConflict
  <2>4. Expected = Err("ambiguous_input")
    BY <2>2, <2>3 DEF Expected
  <2>5. UNCHANGED Expected
    BY <2>1 DEF Expected, Failing, Answers, Queries, data, Read, Key
  <2> QED BY <1>1, <2>1, <2>4, <2>5 DEF Inductive, PeriodReadsAgree
<1>4. CASE ChooseMode
  <2>1. /\ UNCHANGED <<request, narrowed, values>> /\ next' = 1
        /\ phase' = IF request.mode = "fast" /\ SharedPeriod THEN "narrow" ELSE "explain"
    BY <1>4 DEF ChooseMode, Enter
  <2>2. next - 1 = Len(data) /\ narrowed = <<>> /\ values = <<>>
    BY <1>1, <1>4 DEF ChooseMode, Inductive
  <2>3. Settled(Len(data))
    BY <1>4, <2>2 DEF ChooseMode, Inductive
  <2>4. UNCHANGED <<data, Settled(Len(data)), SharedPeriod>>
    BY <2>1 DEF data, Settled, SharedPeriod, Queries, Key
  <2>5. Kept(0)' /\ Answered(1)'
    <3>1. Answered(1)'
      BY <1>13, <2>1, <2>2, NothingAnswered DEF Answered
    <3>2. Kept(0)'
      BY <2>1, <2>2 DEF Kept, Seen
    <3> QED BY <3>1, <3>2
  <2>6. CASE phase' = "narrow"
    BY <1>1, <2>1, <2>2, <2>3, <2>4, <2>5, <2>6 DEF Inductive, PeriodReadsAgree
  <2>7. CASE phase' = "explain"
    BY <1>1, <2>1, <2>3, <2>4, <2>5, <2>7 DEF Inductive, PeriodReadsAgree
  <2> QED BY <2>1, <2>6, <2>7
<1>5. CASE NarrowRecord
  <2>1. Kept(next - 1)'
    BY <1>5, NarrowStep
  <2>2. /\ UNCHANGED <<request, phase, values>> /\ next' = next + 1 /\ phase = "narrow"
        /\ next <= Len(data)
    BY <1>5 DEF NarrowRecord, Loop
  <2>3. UNCHANGED <<data, Settled(Len(data)), SharedPeriod>>
    BY <2>2 DEF data, Settled, SharedPeriod, Queries, Key
  <2> QED BY <1>1, <2>1, <2>2, <2>3 DEF Inductive, PeriodReadsAgree
<1>6. CASE StartBulk
  <2>1. /\ UNCHANGED <<request, narrowed, values>> /\ phase = "narrow" /\ phase' = "bulk"
        /\ next' = 1 /\ next > Len(data)
    BY <1>6 DEF StartBulk, Enter
  <2>2. next - 1 = Len(data) /\ values = <<>>
    BY <1>1, <2>1 DEF Inductive
  <2>3. Kept(Len(data))
    BY <2>1, <2>2 DEF Inductive
  <2>4. UNCHANGED <<data, Settled(Len(data)), SharedPeriod, Kept(Len(data))>>
    BY <2>1 DEF data, Settled, SharedPeriod, Queries, Key, Kept, Seen
  <2>5. Answered(1)'
    BY <1>13, <2>1, <2>2, NothingAnswered DEF Answered
  <2> QED BY <1>1, <2>1, <2>3, <2>4, <2>5 DEF Inductive, PeriodReadsAgree
<1>7. CASE BulkRow
  <2>1. /\ UNCHANGED <<request, phase, narrowed>> /\ phase = "bulk"
        /\ next' = next + 1 /\ next \in Queries /\ BulkRead(next).ok
        /\ values' = Append(values, BulkRead(next).val)
    BY <1>7 DEF BulkRow, Loop
  <2>2. UNCHANGED <<data, Settled(Len(data)), SharedPeriod, Kept(Len(data)), YearThroughMember>>
    BY <2>1 DEF data, Settled, SharedPeriod, Queries, Key, Kept, Seen, YearThroughMember
  <2>3. Settled(Len(data)) /\ SharedPeriod /\ Kept(Len(data))
    BY <2>1 DEF Inductive
  <2>4. YearThroughMember' \/ Answered(next)'
    <3>1. CASE YearThroughMember
      BY <2>2, <3>1
    <3>2. CASE ~YearThroughMember
      <4>1. BulkRead(next) = Answers[next]
        BY <1>1, <2>1, <2>3, <3>2, RowAsExplain
      <4>2. Answered(next)
        BY <2>1, <3>2 DEF Inductive
      <4>3. DOMAIN Answers \subseteq Nat
        BY <1>1 DEF Answers, Queries
      <4>4. Prefix(Answers, next + 1, Append(values, Answers[next].val))
        BY <1>1, <2>1, <4>1, <4>2, <4>3, AnswerStep DEF Answered
      <4>5. UNCHANGED Answers
        BY <2>1 DEF Answers, Queries, data, Read
      <4> QED BY <2>1, <4>1, <4>4, <4>5 DEF Answered
    <3> QED BY <3>1, <3>2
  <2> QED BY <1>1, <2>1, <2>2, <2>3, <2>4 DEF Inductive, PeriodReadsAgree, Queries
<1>8. CASE FallBack
  <2>1. /\ UNCHANGED request /\ phase = "bulk" /\ phase' = "explain"
        /\ next' = 1 /\ values' = <<>>
    BY <1>8 DEF FallBack, Enter
  <2>2. UNCHANGED <<data, Settled(Len(data))>>
    BY <2>1 DEF data, Settled, Key
  <2>3. Answered(1)'
    BY <1>13, <2>1, NothingAnswered DEF Answered
  <2> QED BY <1>1, <2>1, <2>2, <2>3 DEF Inductive, PeriodReadsAgree
<1>9. CASE ExplainQuery
  <2>1. /\ UNCHANGED <<request, phase>> /\ phase = "explain"
        /\ next' = next + 1 /\ next \in Queries /\ Answers[next].ok
        /\ values' = Append(values, Answers[next].val)
    BY <1>9 DEF ExplainQuery, ExplainRead, ExplainRecords, Answers, Loop
  <2>2. UNCHANGED <<data, Settled(Len(data)), YearThroughMember>>
    BY <2>1 DEF data, Settled, Key, YearThroughMember
  <2>3. YearThroughMember' \/ Answered(next)'
    <3>1. CASE YearThroughMember
      BY <2>2, <3>1
    <3>2. CASE ~YearThroughMember
      <4>1. Answered(next)
        BY <2>1, <3>2 DEF Inductive
      <4>2. Prefix(Answers, next + 1, Append(values, Answers[next].val))
        BY <1>1, <1>14, <2>1, <4>1, AnswerStep DEF Answered
      <4> QED BY <1>13, <2>1, <4>2 DEF Answered
    <3> QED BY <3>1, <3>2
  <2> QED BY <1>1, <2>1, <2>2, <2>3 DEF Inductive, PeriodReadsAgree, Queries
<1>10. CASE ExplainFails
  <2>1. /\ UNCHANGED <<request, next>> /\ phase = "explain" /\ phase' = "done"
        /\ next \in Queries /\ ~Answers[next].ok /\ answer' = Answers[next]
    BY <1>10 DEF ExplainFails, ExplainRead, ExplainRecords, Answers, Respond
  <2>2. YearThroughMember \/ Expected = Answers[next]
    BY <1>1, <2>1, FailedExpected DEF Inductive
  <2>3. UNCHANGED <<Expected, YearThroughMember>>
    BY <2>1 DEF Expected, Failing, Answers, Queries, data, Read, Key, YearThroughMember
  <2> QED BY <1>1, <2>1, <2>2, <2>3 DEF Inductive, PeriodReadsAgree, YearThroughMember
<1>11. CASE Finish
  <2>1. /\ UNCHANGED <<request, next>> /\ phase \in {"bulk", "explain"} /\ phase' = "done"
        /\ next \notin Queries /\ answer' = Ok(values)
    BY <1>11 DEF Finish, Respond
  <2>2. next = Len(request.periods) + 1
    BY <1>1, <2>1 DEF Inductive, Queries
  <2>3. YearThroughMember \/ Expected = Ok(values)
    BY <1>1, <2>1, <2>2, AnsweredExpected DEF Inductive
  <2>4. UNCHANGED <<Expected, YearThroughMember>>
    BY <2>1 DEF Expected, Failing, Answers, Queries, data, Read, Key, YearThroughMember
  <2> QED BY <1>1, <2>1, <2>3, <2>4 DEF Inductive, PeriodReadsAgree, YearThroughMember
<1>12. CASE UNCHANGED vars
  <2>1. UNCHANGED <<request, phase, next, first, narrowed, values, answer>>
    BY <1>12 DEF vars
  <2>2. UNCHANGED <<data, SharedPeriod, YearThroughMember, PeriodReadsAgree>>
    BY <2>1 DEF data, SharedPeriod, Queries, YearThroughMember, PeriodReadsAgree, Expected,
                Failing, Answers, Read, Key
  <2>3. /\ UNCHANGED <<Settled(Len(data)), Settled(next - 1), Remembered(next - 1)>>
        /\ UNCHANGED <<Kept(next - 1), Kept(Len(data)), Answered(next)>>
    BY <1>13, <2>1 DEF data, Settled, Remembered, Kept, Seen, Key, Answered
  <2> QED BY <2>1, <2>2, <2>3 DEF Inductive
<1> QED BY <1>2, <1>3, <1>4, <1>5, <1>6, <1>7, <1>8, <1>9, <1>10, <1>11, <1>12 DEF Next
-----------------------------------------------------------------------------
THEOREM InductiveCorrect == Spec => []Inductive
BY InductiveInit, InductiveNext, PTL DEF Spec

(* For every set of requests: once a dataset is validated, no read of it   *)
(* is ambiguous at any record's interval.                                  *)
THEOREM TiesSettledCorrect == Spec => []TiesSettled
<1>1. Inductive => TiesSettled
  BY NeverAmbiguous DEF Inductive, TiesSettled
<1> QED BY <1>1, InductiveCorrect, PTL

(* For every set of requests, and whichever mode they ask for: the answer  *)
(* is explain's, but for selected-year reads inside an aggregation.        *)
THEOREM PeriodReadsCorrect == Spec => []PeriodReadsAgree
<1>1. Inductive => PeriodReadsAgree
  BY DEF Inductive
<1> QED BY <1>1, InductiveCorrect, PTL
=============================================================================
