----------------------------- MODULE DenseBinding -----------------------------
(***************************************************************************)
(* How a dense batch is bound to a compiled program (src/src/dense.rs,     *)
(* `bind_batch`). Columns arrive by name: one value for each root row, or, *)
(* under a relation's key, one for each related row. Offsets say which     *)
(* related rows belong to which root row. Several relations of a program   *)
(* may read one key; they share its owners and its columns.                *)
(*                                                                         *)
(* A map of the batch is a function from names; a column is the sequence   *)
(* of its values. A column that is bound keeps its name: two sites that    *)
(* share a column read the same one.                                       *)
(***************************************************************************)
EXTENDS Integers, Sequences, FiniteSets, SequencesExt

CONSTANTS MaxRows,    \* MAX_DENSE_ROWS
          None        \* no stated count, no column
ASSUME BindingAssumption == MaxRows \in Nat /\ None \notin Nat

VARIABLES program,    \* [inputs, relations, ...]; a relation is [key, inputs, ...]
          batch,      \* [rows, columns, keys]; under a key: [offsets, stated,
                      \* columns, lengths], columns and lengths by name
          phase,      \* "requested", "root", "schemas", "confirm", "keys", "relations", "bound",
                      \* or why the request is refused
          next,       \* the relation or key the phase is at
          order,      \* keys in the order the program first reads them
          rooted,     \* root columns bound, in the program's order
          owners,     \* of each key bound: the root row of each related row
          supplied,   \* of each key bound: names of columns not taken yet
          taken,      \* of each key bound: columns taken by some relation
          bound       \* relations bound: [key, owners, columns]

given == <<program, batch>>
built == <<rooted, owners, supplied, taken, bound>>
binding == <<phase, next, order, built>>

Refuse(error) == phase' = error /\ UNCHANGED <<given, next, order, built>>
Move(p) == phase' = p /\ next' = 1

Of(key) == batch.keys[key]
RelatedRows(key) == Of(key).offsets[batch.rows + 1]

-----------------------------------------------------------------------------
(* Root columns, read or not, have one value for each row.                 *)
CheckRoot ==
    /\ phase = "root"
    /\ batch.rows <= MaxRows /\ \A n \in DOMAIN batch.columns : Len(batch.columns[n]) = batch.rows
    /\ Move("schemas")
    /\ UNCHANGED <<given, order, built>>

RefuseRoot ==
    /\ phase = "root"
    /\ IF batch.rows > MaxRows THEN Refuse("too_many_rows")
       ELSE (\E n \in DOMAIN batch.columns : Len(batch.columns[n]) # batch.rows) /\ Refuse("root_length")

(* The relations in order: the offsets of a key when its first relation is *)
(* reached, then the columns each relation reads.                          *)
Schema == program.relations[next]
Walking == phase = "schemas" /\ next <= Len(program.relations)

BadOffsets(key) ==
    LET s == Of(key).offsets
    IN  \/ Len(s) # batch.rows + 1
        \/ s[1] # 0
        \/ \E i \in 1..Len(s) - 1 : s[i] > s[i + 1]
        \/ Of(key).stated \notin {None, RelatedRows(key)}

MisfitRead(relation) ==
    \E n \in Range(relation.inputs) \cap DOMAIN Of(relation.key).columns :
        Len(Of(relation.key).columns[n]) # RelatedRows(relation.key)

RefuseSchema ==
    /\ Walking
    /\ LET key == Schema.key
       IN  IF key \notin DOMAIN batch.keys THEN Refuse("unknown_relation")
           ELSE IF key \notin Range(order) /\ BadOffsets(key) THEN Refuse("offsets")
           ELSE MisfitRead(Schema) /\ Refuse("related_length")

CheckSchema ==
    /\ Walking
    /\ LET key == Schema.key
       IN  /\ key \in DOMAIN batch.keys
           /\ key \in Range(order) \/ ~BadOffsets(key)
           /\ ~MisfitRead(Schema)
           /\ order' = IF key \in Range(order) THEN order ELSE Append(order, key)
    /\ next' = next + 1
    /\ UNCHANGED <<given, phase, built>>

FinishSchemas ==
    /\ phase = "schemas" /\ next > Len(program.relations)
    /\ Move("confirm")
    /\ UNCHANGED <<given, order, built>>

(* The second pass: the offsets alone could claim any number of related    *)
(* rows, so the caller's count or the length of a column, supplied with or *)
(* without its values, must confirm it.                                    *)
Lengths(key) ==
    {Len(Of(key).columns[n]) : n \in DOMAIN Of(key).columns}
    \cup {Of(key).lengths[n] : n \in DOMAIN Of(key).lengths}

Confirmed(key) ==
    RelatedRows(key) = 0 \/ Of(key).stated # None \/ RelatedRows(key) \in Lengths(key)

Oversized(key) == Confirmed(key) /\ RelatedRows(key) > MaxRows

Misfits(key) == Lengths(key) \ {RelatedRows(key)}

ConfirmKey ==
    /\ phase = "confirm" /\ next <= Len(order)
    /\ LET key == order[next]
       IN  IF ~Confirmed(key) /\ Misfits(key) = {} THEN Refuse("unconfirmed")
           ELSE IF Oversized(key) THEN Refuse("too_many_related")
           ELSE IF Misfits(key) # {} THEN Refuse("related_length")
           ELSE next' = next + 1 /\ UNCHANGED <<given, phase, order, built>>

-----------------------------------------------------------------------------
(* The batch is valid: its columns are moved out of it and shared.         *)

BindColumns ==
    /\ phase = "confirm" /\ next > Len(order)
    /\ rooted' = [i \in 1..Len(program.inputs) |->
                     IF program.inputs[i] \in DOMAIN batch.columns THEN program.inputs[i] ELSE None]
    /\ Move("keys")
    /\ UNCHANGED <<given, order, owners, supplied, taken, bound>>

(* Each root row in turn is repeated for its related rows, up to the next  *)
(* row's offset.                                                           *)
OwnersOf(key) ==
    LET s == Of(key).offsets
    IN  [i \in 1..RelatedRows(key) |-> CHOOSE row \in 1..batch.rows : s[row] < i /\ i <= s[row + 1]]

BindKey ==
    /\ phase = "keys" /\ next <= Len(order)
    /\ LET key == order[next]
       IN  /\ owners' = [owners EXCEPT ![key] = OwnersOf(key)]
           /\ supplied' = [supplied EXCEPT ![key] = DOMAIN Of(key).columns]
    /\ next' = next + 1
    /\ UNCHANGED <<given, phase, order, rooted, taken, bound>>

FinishKeys ==
    /\ phase = "keys" /\ next > Len(order)
    /\ Move("relations")
    /\ UNCHANGED <<given, order, built>>

(* A column not taken yet is taken and shared; one taken stays shared.     *)
OnlyUntaken(key, name) ==   \* mutant: a column is moved to the first relation that reads it
    IF name \in supplied[key] THEN name ELSE None
ColumnFor(key, name) == IF name \in supplied[key] \cup taken[key] THEN name ELSE None

BindRelation ==
    /\ phase = "relations" /\ next <= Len(program.relations)
    /\ LET key == Schema.key
           first == Range(Schema.inputs) \cap supplied[key]
       IN  /\ bound' = Append(bound, [key |-> key, owners |-> owners[key],
                                      columns |-> [i \in 1..Len(Schema.inputs) |->
                                                     ColumnFor(key, Schema.inputs[i])]])
           /\ taken' = [taken EXCEPT ![key] = @ \cup first]
           /\ supplied' = [supplied EXCEPT ![key] = @ \ first]
    /\ next' = next + 1
    /\ UNCHANGED <<given, phase, order, rooted, owners>>

FinishRelations ==
    /\ phase = "relations" /\ next > Len(program.relations)
    /\ phase' = "bound"
    /\ UNCHANGED <<given, next, order, built>>

Unbound ==
    /\ phase = "requested" /\ next = 1 /\ order = <<>>
    /\ rooted = <<>> /\ bound = <<>>
    /\ owners = [key \in DOMAIN batch.keys |-> <<>>]
    /\ supplied = [key \in DOMAIN batch.keys |-> {}]
    /\ taken = [key \in DOMAIN batch.keys |-> {}]

(* Another batch follows one that is bound, with nothing of the last.      *)
Rebind ==
    /\ phase' = "root" /\ next' = 1 /\ order' = <<>>
    /\ rooted' = <<>> /\ bound' = <<>>
    /\ owners' = [key \in DOMAIN batch'.keys |-> <<>>]
    /\ supplied' = [key \in DOMAIN batch'.keys |-> {}]
    /\ taken' = [key \in DOMAIN batch'.keys |-> {}]

-----------------------------------------------------------------------------
(* What binding promises.                                                  *)

Misbound == {"too_many_rows", "root_length", "unknown_relation", "offsets", "related_length",
             "unconfirmed", "too_many_related"}

(* A division of a key's related rows among the root rows, in order.       *)
Divides(owner, key) ==
    /\ \A i, j \in DOMAIN owner : i <= j => owner[i] <= owner[j]
    /\ Of(key).offsets = [row \in 1..batch.rows + 1 |->
                             Cardinality({i \in DOMAIN owner : owner[i] < row})]

(* Every column of a key is as long as the key has related rows.           *)
KeyFormed(key) ==
    /\ key \in DOMAIN batch.keys
    /\ \E n \in 0..MaxRows :
         /\ \E owner \in [1..n -> 1..batch.rows] : Divides(owner, key)
         /\ Of(key).stated \in {None, n}
         /\ Lengths(key) \subseteq {n}
         /\ n = 0 \/ Of(key).stated = n \/ Lengths(key) # {}

RootFormed ==
    /\ batch.rows <= MaxRows
    /\ \A n \in DOMAIN batch.columns : Len(batch.columns[n]) = batch.rows

WellFormed == RootFormed /\ \A r \in Range(program.relations) : KeyFormed(r.key)

(* A relation's columns and owners, as its key was supplied.               *)
ColumnsShared ==
    \A i \in 1..Len(bound) :
        LET r == bound[i]
            named == program.relations[i].inputs
        IN  /\ r.key = program.relations[i].key
            /\ r.owners \in [1..RelatedRows(r.key) -> 1..batch.rows] /\ Divides(r.owners, r.key)
            /\ r.columns = [j \in 1..Len(named) |->
                              IF named[j] \in DOMAIN Of(r.key).columns THEN named[j] ELSE None]

(* Owners, which take memory for every related row the offsets claim, are  *)
(* built only for batches that are bound in the end and never past the     *)
(* bound.                                                                  *)
AllocatesLate ==
    \A key \in DOMAIN owners : owners[key] # <<>> =>
        phase \notin Misbound /\ Len(owners[key]) <= MaxRows

(* A batch is bound exactly when each key divides its related rows among   *)
(* the root rows and a count or a column confirms how many there are,      *)
(* however many relations share the key; each of them then reads every     *)
(* column the key was supplied with, whichever read it first, and no       *)
(* memory is taken for rows a refused batch claims (`bind_batch`,          *)
(* `confirm_related_count`, `bind_relation_key`).                          *)
BindsExactly ==
    /\ phase = "bound" => WellFormed /\ Len(bound) = Len(program.relations) /\ ColumnsShared
    /\ phase \in Misbound => ~WellFormed
    /\ AllocatesLate
=============================================================================
