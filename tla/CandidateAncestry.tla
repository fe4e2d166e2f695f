-------------------------- MODULE CandidateAncestry --------------------------
(***************************************************************************)
(* The index the dense compiler answers `relation_member` with             *)
(* (src/src/dense.rs, `CandidateAncestry`). A derived relation filters the *)
(* tuples of its source, so each relation up the chain of sources holds    *)
(* every candidate tuple, read with the slots the chain reads it with. The *)
(* chains form a forest. One walk gives every relation the interval of     *)
(* entry numbers its subtree takes, and a question about a scope and a     *)
(* relation looks for the one child of the relation whose interval holds   *)
(* the scope's number.                                                     *)
(*                                                                         *)
(* The declared relations are kept in a hash map: they are listed, and the *)
(* walk's roots taken, in any order. DenseCompile builds the index when it *)
(* first asks a question.                                                  *)
(***************************************************************************)
EXTENDS Integers, Sequences, FiniteSets

CONSTANTS NoSource     \* of a relation that is not derived, or by a path

VARIABLES source,      \* of each declared relation: the relation it filters
          slots,       \* of each declared relation: how it reads its source
          unlisted,    \* declared relations the first loop has not reached
          children,    \* of each name met so far: its direct children, in order
          rooted,      \* the roots are known
          unrooted,    \* roots the walk has not taken
          stack,       \* the walk: [name, exiting]
          next,        \* the next entry number
          intervals    \* of each relation entered: [start, end]

declared == <<source, slots>>
vars == <<declared, unlisted, children, rooted, unrooted, stack, next, intervals>>

Relations == DOMAIN source
Names == (Relations \cup {source[r] : r \in Relations}) \ {NoSource}

Init ==
    /\ unlisted = Relations
    /\ children = [n \in {} |-> <<>>]
    /\ rooted = FALSE
    /\ unrooted = {}
    /\ stack = <<>>
    /\ next = 0
    /\ intervals = [n \in {} |-> 0]

Derived == {r \in Relations : source[r] # NoSource}

ChildrenOf(n) == IF n \in DOMAIN children THEN children[n] ELSE <<>>

Extended(f, x, v) == [n \in DOMAIN f \cup {x} |-> IF n = x THEN v ELSE f[n]]

(* List one relation under its source; a relation that only appears as a   *)
(* source is listed too.                                                   *)
ListRelation(r) ==
    /\ unlisted' = unlisted \ {r}
    /\ children' =
         LET known == Extended(children, r, ChildrenOf(r))
         IN  IF r \notin Derived THEN known
             ELSE Extended(known, source[r],
                           Append(IF source[r] \in DOMAIN known THEN known[source[r]]
                                  ELSE <<>>, r))
    /\ UNCHANGED <<declared, rooted, unrooted, stack, next, intervals>>

(* Every relation is listed: the roots are those that filter nothing.      *)
FindRoots ==
    /\ unlisted = {} /\ ~rooted
    /\ rooted' = TRUE
    /\ unrooted' = DOMAIN children \ Derived
    /\ UNCHANGED <<declared, unlisted, children, stack, next, intervals>>

StartRoot(n) ==
    /\ rooted /\ stack = <<>>
    /\ unrooted' = unrooted \ {n}
    /\ stack' = <<[name |-> n, exiting |-> FALSE]>>
    /\ UNCHANGED <<declared, unlisted, children, rooted, next, intervals>>

Visit(n) == [name |-> n, exiting |-> FALSE]

(* The last child is pushed first, so the first is entered first and the   *)
(* children's intervals ascend in listing order.                           *)
PushedForward(n) == [i \in 1..Len(children[n]) |-> Visit(children[n][i])]   \* mutant

Pushed(n) ==
    LET count == Len(children[n])
    IN  [i \in 1..count |-> Visit(children[n][count + 1 - i])]

Below(s) == SubSeq(s, 1, Len(s) - 1)
Top == stack[Len(stack)]

Enter ==
    /\ stack # <<>> /\ ~Top.exiting
    /\ intervals' = Extended(intervals, Top.name, [start |-> next, end |-> next])
    /\ next' = next + 1
    /\ stack' = Append(Below(stack), [name |-> Top.name, exiting |-> TRUE]) \o Pushed(Top.name)
    /\ UNCHANGED <<declared, unlisted, children, rooted, unrooted>>

EndOf(n) == next

Exit ==
    /\ stack # <<>> /\ Top.exiting
    /\ intervals' = [intervals EXCEPT ![Top.name].end = EndOf(Top.name)]
    /\ stack' = Below(stack)
    /\ UNCHANGED <<declared, unlisted, children, rooted, unrooted, next>>

Indexed == rooted /\ unrooted = {} /\ stack = <<>>

Next ==
    \/ \E r \in unlisted : ListRelation(r)
    \/ FindRoots
    \/ \E n \in unrooted : StartRoot(n)
    \/ Enter
    \/ Exit

-----------------------------------------------------------------------------
(* The answer.                                                             *)

(* The children of a relation, in listing order: a child that was not      *)
(* entered would be left out, but whoever enters a relation enters them.   *)
Branches(relation) == children[relation]

(* `partition_point`: how many of the branches, which ascend, start at or  *)
(* before the scope.                                                       *)
StartedBy(branches, start) ==
    Cardinality({i \in 1..Len(branches) : intervals[branches[i]].start <= start})

Holds(scope, relation, read) ==
    /\ scope \in DOMAIN intervals /\ relation \in DOMAIN intervals
    /\ LET start == intervals[scope].start
           branches == Branches(relation)
           at == StartedBy(branches, start)
       IN  /\ intervals[relation].start < start /\ start < intervals[relation].end
           /\ at > 0
           /\ start < intervals[branches[at]].end
           /\ slots[branches[at]] = read

-----------------------------------------------------------------------------
(* What the index promises.                                                *)

(* A relation and the sources above it: the least set that has the         *)
(* relation and the source of whatever it has.                             *)
Upward(S) == \A r \in S \cap Derived : source[r] \in S
Above(n) == {a \in Names : \A S \in SUBSET Names : n \in S /\ Upward(S) => a \in S}

(* The chain above the relation ends: it does not run in a circle.         *)
Grounded(n) == ~(Above(n) \subseteq Derived)

(* Every child of a relation that was entered was entered.                 *)
NoneLeftOut ==
    \A n \in DOMAIN intervals : \A i \in 1..Len(children[n]) : children[n][i] \in DOMAIN intervals

(* Once the index is built, it holds a relation for every candidate of a   *)
(* scope exactly if the relation is a source somewhere up the scope's      *)
(* chain and the link just below it reads it with the slots asked about,   *)
(* whatever the order the hash map lists relations in (`holds`).           *)
IndexExact ==
    Indexed =>
      /\ NoneLeftOut
      /\ \A scope \in Relations, relation \in Names, read \in {slots[r] : r \in Relations} :
           Holds(scope, relation, read) <=>
             /\ Grounded(scope)
             /\ \E link \in Above(scope) \cap Derived :
                  source[link] = relation /\ slots[link] = read
=============================================================================
