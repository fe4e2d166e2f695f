-------------------------------- MODULE Inputs --------------------------------
(***************************************************************************)
(* How a request's input records answer its reads, in explain and in fast  *)
(* mode (src/src/api.rs `execute_request`, with `validate_input_spells`,   *)
(* `resolve_inputs_for_period` and `lookup_input` of src/src/engine.rs and *)
(* the cells of src/src/bulk.rs).                                          *)
(*                                                                         *)
(* A record states the value of one fact of one entity over an interval.   *)
(* Several records may cover a period: the one that starts latest answers. *)
(* Fast mode first narrows the dataset to the records that answer at the   *)
(* queries' common period and evaluates over those; whenever it cannot     *)
(* answer, the request runs on the explain interpreter over all records.   *)
(*                                                                         *)
(* One input is read; query q concerns entity q, whose value is read either*)
(* by the rule itself or through an aggregation over its one member.       *)
(***************************************************************************)
EXTENDS Integers, Sequences

CONSTANTS Requests,      \* [mode, read, through, periods, data]
          Default,       \* the default of an `InputOrElse`
          Year           \* the period an `InputForYear` selects

Modes == {"explain", "fast"}
ReadKinds == {"input", "input_or_else", "input_for_year"}

(* Requests are finite, and a record starts on some day.                   *)
ASSUME RequestsAssumption ==
    \A r \in Requests :
        /\ r.read \in ReadKinds /\ r.through \in {"rule", "member"}
        /\ Len(r.periods) \in Nat /\ Len(r.data) \in Nat
        /\ \A i \in 1..Len(r.data) : r.data[i].start \in Int

VARIABLES request,     \* the request being executed
          phase,       \* "validate", "narrow", "bulk", "explain" or "done"
          next,        \* the next record or query of the phase's loop
          first,       \* validation: (entity, start) -> first record stating it
          narrowed,    \* the records fast mode keeps
          values,      \* the answers of the queries so far
          answer       \* the response: values or an error

vars == <<request, phase, next, first, narrowed, values, answer>>

data == request.data
Queries == 1..Len(request.periods)

Ok(v) == [ok |-> TRUE, val |-> v]
Err(e) == [ok |-> FALSE, err |-> e]
Pending == Err("pending")

Covers(record, period) == record.start <= period.start /\ record.end >= period.end

(* The records of an entity, in a sequence of them, that cover a period.   *)
Covering(records, entity, period) ==
    {r \in {records[i] : i \in 1..Len(records)} : r.of = entity /\ Covers(r, period)}

LatestStart(S) == {r \in S : \A other \in S : other.start <= r.start}

(* `lookup_input`: the covering record that starts latest; records that    *)
(* tie with it must state its value.                                       *)
Lookup(records, entity, period) ==
    LET tied == LatestStart(Covering(records, entity, period))
    IN  IF tied = {} THEN Err("missing_input")
        ELSE IF \E r, s \in tied : r.value # s.value THEN Err("ambiguous_input")
        ELSE Ok((CHOOSE r \in tied : TRUE).value)

(* A node that reads the input, evaluated by the interpreter. A selected   *)
(* year's record must belong to the kind of entity the contract names, as  *)
(* must all those that tie with it.                                        *)
Read(records, entity, period) ==
    CASE request.read = "input" -> Lookup(records, entity, period)
      [] request.read = "input_or_else" ->
           LET found == Lookup(records, entity, period)
           IN  IF found = Err("missing_input") THEN Ok(Default) ELSE found
      [] request.read = "input_for_year" ->
           LET found == Lookup(records, entity, Year)
               tied == LatestStart(Covering(records, entity, Year))
           IN  IF found.ok /\ \E r \in tied : ~r.owned THEN Err("wrong_owner") ELSE found

-----------------------------------------------------------------------------
Init ==
    /\ request \in Requests
    /\ phase = "validate" /\ next = 1
    /\ first = <<>>
    /\ narrowed = <<>> /\ values = <<>>
    /\ answer = Pending

Loop == UNCHANGED <<request, phase>> /\ next' = next + 1
Enter(p) == UNCHANGED request /\ phase' = p /\ next' = 1
Respond(a) ==
    /\ answer' = a
    /\ phase' = "done"
    /\ UNCHANGED <<request, next, first, narrowed, values>>

(* `validate_input_spells`: records of one fact, entity and start must     *)
(* agree, before either mode runs.                                         *)
Key(r) == <<r.of, r.start>>
Conflicts(r) == Key(r) \in DOMAIN first /\ data[first[Key(r)]].value # r.value

ConflictsWithLast(r) ==     \* mutant: compared with the record before it
    next > 1 /\ Key(data[next - 1]) = Key(r) /\ data[next - 1].value # r.value
ConflictsAtStart(r) == Conflicts(r)

ValidateRecord ==
    /\ phase = "validate" /\ next <= Len(data)
    /\ ~ConflictsAtStart(data[next])
    /\ first' = [k \in DOMAIN first \cup {Key(data[next])} |->
                    IF k \in DOMAIN first THEN first[k] ELSE next]
    /\ Loop /\ UNCHANGED <<narrowed, values, answer>>

RefuseConflict ==
    /\ phase = "validate" /\ next <= Len(data)
    /\ ConflictsAtStart(data[next])
    /\ Respond(Err("ambiguous_input"))

SharedPeriod == \A q \in Queries : request.periods[q] = request.periods[1]

(* Fast mode declines queries of different periods.                        *)
ChooseMode ==
    /\ phase = "validate" /\ next > Len(data)
    /\ Enter(IF request.mode = "fast" /\ SharedPeriod THEN "narrow" ELSE "explain")
    /\ UNCHANGED <<first, narrowed, values, answer>>

(* `resolve_inputs_for_period`: one record per fact and entity, replaced   *)
(* only by one that starts later.                                          *)
Replaces(r, kept) == r.start > kept.start

NarrowRecord ==
    /\ phase = "narrow" /\ next <= Len(data)
    /\ LET r == data[next]
           kept == {i \in 1..Len(narrowed) : narrowed[i].of = r.of}
       IN  narrowed' =
             IF ~Covers(r, request.periods[1]) THEN narrowed
             ELSE IF kept = {} THEN Append(narrowed, r)
             ELSE [i \in 1..Len(narrowed) |->
                     IF i \in kept /\ Replaces(r, narrowed[i]) THEN r ELSE narrowed[i]]
    /\ Loop /\ UNCHANGED <<first, values, answer>>

StartBulk ==
    /\ phase = "narrow" /\ next > Len(data)
    /\ Enter("bulk")
    /\ UNCHANGED <<first, narrowed, values, answer>>

(* The bulk evaluator fills its cells from the narrowed records, runs      *)
(* aggregations on an explain interpreter over the same records, and       *)
(* declines a selected-year read of its own.                               *)
BulkRead(q) ==
    IF request.through = "rule" /\ request.read = "input_for_year"
    THEN Err("unsupported")
    ELSE Read(narrowed, q, request.periods[q])

BulkRow ==
    /\ phase = "bulk" /\ next \in Queries
    /\ BulkRead(next).ok
    /\ values' = Append(values, BulkRead(next).val)
    /\ Loop /\ UNCHANGED <<first, narrowed, answer>>


(* A row that fails or is declined sends the whole request to explain.     *)
FallBack ==
    /\ phase = "bulk" /\ next \in Queries
    /\ ~BulkRead(next).ok
    /\ Enter("explain")
    /\ values' = <<>>
    /\ UNCHANGED <<first, narrowed, answer>>

(* Explain selects records for each query's own period.                    *)
ExplainRecordsNarrowed ==     \* mutant: the fallback keeps the narrowed dataset
    IF request.mode = "fast" /\ SharedPeriod THEN narrowed ELSE data
ExplainRecords == data

ExplainRead(q) == Read(ExplainRecords, q, request.periods[q])

ExplainQuery ==
    /\ phase = "explain" /\ next \in Queries
    /\ ExplainRead(next).ok
    /\ values' = Append(values, ExplainRead(next).val)
    /\ Loop /\ UNCHANGED <<first, narrowed, answer>>

(* The first failing query's error is the request's.                       *)
ExplainFails ==
    /\ phase = "explain" /\ next \in Queries
    /\ ~ExplainRead(next).ok
    /\ Respond(ExplainRead(next))

Finish ==
    /\ phase \in {"bulk", "explain"} /\ next \notin Queries
    /\ Respond(Ok(values))

Next == \/ ValidateRecord \/ RefuseConflict \/ ChooseMode
        \/ NarrowRecord \/ StartBulk \/ BulkRow \/ FallBack
        \/ ExplainQuery \/ ExplainFails \/ Finish

Spec == Init /\ [][Next]_vars

-----------------------------------------------------------------------------
(* Once a dataset is validated no read of it is ambiguous at any period,   *)
(* a selected year included: records that tie cover the whole of one of    *)
(* them, so a tie at any period is one at a record's own interval.         *)
TiesSettled ==
    phase \notin {"validate", "done"} =>
        \A r \in {data[i] : i \in 1..Len(data)} :
            Lookup(data, r.of, [start |-> r.start, end |-> r.end]) # Err("ambiguous_input")

(* The outcome explain reports: the answers of the queries in order, or    *)
(* the first error.                                                        *)
Answers == [q \in Queries |-> Read(data, q, request.periods[q])]
Failing == {q \in Queries : ~Answers[q].ok}
Expected ==
    IF \E i, j \in 1..Len(data) : Key(data[i]) = Key(data[j]) /\ data[i].value # data[j].value
    THEN Err("ambiguous_input")
    ELSE IF Failing # {}
    THEN Answers[CHOOSE q \in Failing : \A other \in Failing : q <= other]
    ELSE Ok([q \in Queries |-> Answers[q].val])

(* Both modes answer as explain does, for reads at the queries' period and *)
(* selected-year reads a rule makes itself.                                *)
PeriodReadsAgree ==
    phase = "done" /\ ~(request.read = "input_for_year" /\ request.through = "member")
        => answer = Expected

(* docs/execution-semantics.md:237: "For every request, fast returns       *)
(* exactly what explain returns". A selected-year read inside an           *)
(* aggregation is answered from the narrowed records.                      *)
FastReturnsWhatExplainReturns == phase = "done" => answer = Expected
=============================================================================
