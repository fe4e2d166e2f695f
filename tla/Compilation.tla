----------------------------- MODULE Compilation -----------------------------
(***************************************************************************)
(* Compiling a program (src/src/compile.rs, `compile_at`): its relations   *)
(* are given directions while it is lowered, its evaluation order is found *)
(* or its cycles refused (EvaluationOrder), its relations are typed        *)
(* (RelationTyping), its interface is derived (Interface), and what is     *)
(* accepted is evaluated (RelationReads). All of them read the formulas of *)
(* one program.                                                            *)
(***************************************************************************)
EXTENDS Interface

VARIABLES pass,        \* of the evaluation order, or its verdict
          path, finished, waiting, ready, order, walk,   \* EvaluationOrder's
          blame        \* what a refusal of the order names

order_vars == <<pass, path, finished, waiting, ready, order, walk, blame>>
vars == <<typing_vars, here, interface, order_vars>>

(* What the dependency collectors gather from a body, the clauses of its   *)
(* aggregations included: rules by any kind of read, and relations.        *)
RulesNamed(p, body) ==
    LET named[i \in DOMAIN p.nodes] ==
            ({p.nodes[i].value} \ {0}) \cup UNION {named[j] : j \in Elements(p.nodes[i].body)}
    IN  UNION {named[i] : i \in Elements(body)}

ReadAs(op) ==
    CASE op = "aggregate" -> "count" [] op = "exists" -> "atom" [] OTHER -> op

(* In the order rules and relations are nodes of one graph: relation r is  *)
(* node 10 + r.                                                            *)
RelationNode(r) == 10 + r
RelationOf(node) == node - 10

RelationsNamed(p, body) ==
    LET named[i \in DOMAIN p.nodes] ==
            LET n == p.nodes[i]
            IN  (IF n.op \in {"aggregate", "only", "member", "atom", "exists"}
                 THEN {[relation |-> RelationNode(n.relation), kind |-> ReadAs(n.op)]} ELSE {})
                \cup UNION {named[j] : j \in Elements(n.body)}
    IN  UNION {named[i] : i \in Elements(body)}

IsDerivedNode(p, node) == RelationOf(node) \in Relations /\ p.relations[RelationOf(node)].derived

(* A rule's dependencies are those of its base and of all its versions.    *)
FormulaOf(p, node) ==
    CASE node \in Rules -> p.rules[node].base \o p.rules[node].versions
      [] node \notin Rules /\ IsDerivedNode(p, node) -> p.relations[RelationOf(node)].predicate
      [] OTHER -> <<>>

NodeReads(p, node) == RulesNamed(p, FormulaOf(p, node))
NodeRelationReads(p, node) == RelationsNamed(p, FormulaOf(p, node))

IsPathNode(p, node) == IsDerivedNode(p, node) /\ p.relations[RelationOf(node)].path # <<>>

NodeSources(p, node) ==
    IF ~IsDerivedNode(p, node) THEN {}
    ELSE LET s == p.relations[RelationOf(node)]
         IN  IF s.path = <<>> THEN {RelationNode(s.source)}
             ELSE {RelationNode(step.relation) : step \in Elements(s.path)}

Order == INSTANCE EvaluationOrder WITH
    Relations <- {RelationNode(r) : r \in Relations},
    Reads <- NodeReads, RelationReads <- NodeRelationReads,
    Derives <- IsDerivedNode, Sources <- NodeSources, ByPath <- IsPathNode,
    phase <- pass, error <- blame

ASSUME OrderAssumption == \A r \in Relations : RelationNode(r) \notin Rules

Init == TypingInit /\ here = Nowhere /\ interface = Underived /\ Order!Start

(* `compiled_metadata` comes before the typing check.                      *)
FindOrder ==
    /\ phase = "kinds" /\ pass \notin {"accepted", "refused"}
    /\ UNCHANGED <<typing_vars, here, interface>>
    /\ Order!Next

Compile ==
    \/ Direct /\ UNCHANGED <<checker, here, interface, order_vars>>
    \/ FindOrder
    \/ pass = "accepted" /\ Check /\ UNCHANGED <<here, interface, order_vars>>
    \/ DeriveInterface /\ UNCHANGED order_vars

Next ==
    \/ Compile
    \/ interface # Underived /\ Evaluate /\ UNCHANGED <<interface, order_vars>>

Spec == Init /\ [][Next]_vars

-----------------------------------------------------------------------------
(* Exactly the programs with a cycle are refused as cyclic, whatever       *)
(* relations the cycle is routed through, and the refusal names rules or   *)
(* relations that hold one; the order of any other lists each rule after   *)
(* what it waits on, smallest name first (compile.rs, `evaluation_order`;  *)
(* src/tests/relation_atom_order.rs:1-6).                                  *)
OrderDecided == phase = "kinds" /\ chain = NoWalk
OrderExact == OrderDecided => Order!CyclesExact /\ Order!OrderExact
=============================================================================
