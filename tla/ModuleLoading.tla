---------------------------- MODULE ModuleLoading ----------------------------
(***************************************************************************)
(* Loading a RuleSpec module and everything it imports into one document   *)
(* (src/src/rulespec.rs, `load_rulespec_document_from_source` and its      *)
(* callers). The load is a depth-first walk of the imports, one native     *)
(* call per module being loaded. A module already loaded contributes       *)
(* nothing more; one still being loaded closes an import cycle.            *)
(*                                                                         *)
(* `frames` is the native stack. The root is a module of the source or a   *)
(* composed program: a document of its own that no module can name and     *)
(* that the load context never sees. A document's content is the sequence  *)
(* of the modules whose declarations were merged into it.                  *)
(***************************************************************************)
EXTENDS Integers, Sequences, FiniteSets

CONSTANTS Modules,         \* canonical module targets
          Composition,     \* the composed program, which is not a module
          Sources,         \* the module sources a host may supply
          Root(_),         \* what is loaded from a source
          Text(_, _),      \* what a source has for a module: see Texts
          Imports(_, _)    \* the imports a module's text lists, in order

(* What fetching and validating a module's text comes to: the source fails,*)
(* has no such module, or has one that is refused, that is accepted only   *)
(* under a composed program, or that is accepted under either root.        *)
Texts == {"failing", "absent", "invalid", "composed_only", "atomic"}

(* An import whose spelling is not an exact canonical target.              *)
Unresolved == "unresolved"

ASSUME ModulesAssumption ==
    /\ Composition \notin Modules /\ Unresolved \notin Modules
    /\ \A s \in Sources :
           /\ Root(s) \in Modules \cup {Composition}
           /\ \A m \in Modules : Text(s, m) \in Texts
           /\ \A m \in Modules \cup {Composition} :
                  Imports(s, m) \in Seq(Modules \cup {Unresolved})

VARIABLES source,    \* the module source
          frames,    \* calls under way: [module, next, combined]
          loaded,    \* context.loaded
          read,      \* context.read: the texts read, in order
          outcome    \* "loading", "loaded" or the error

vars == <<source, frames, loaded, read, outcome>>

Top == frames[Len(frames)]
Below == SubSeq(frames, 1, Len(frames) - 1)
Elements(s) == {s[i] : i \in 1..Len(s)}

NeverPopped == Elements(read)    \* mutant: the stack keeps what it has finished

(* `context.stack`: the composed program itself is never on it.            *)
Loading == {frames[i].module : i \in 1..Len(frames)} \ {Composition}

Call(m) == [module |-> m, next |-> 1, combined |-> <<>>]

TextAccepted(m) ==
    \/ Text(source, m) = "atomic"
    \/ Text(source, m) = "composed_only" /\ Root(source) = Composition

Refuse(e) ==
    /\ outcome' = e
    /\ UNCHANGED <<source, frames, loaded>>

Init ==
    /\ source \in Sources
    /\ frames = IF Root(source) = Composition THEN <<Call(Composition)>> ELSE <<>>
    /\ loaded = {} /\ read = <<>>
    /\ outcome = "loading"

(* The module to load now: the root, or the next import of the top call.   *)
Importing == frames # <<>> /\ Top.next <= Len(Imports(source, Top.module))
Target == IF frames = <<>> THEN Root(source)
          ELSE Imports(source, Top.module)[Top.next]
Comes == outcome = "loading" /\ (frames = <<>> \/ Importing)

(* The importer goes on to its next import once a content is merged.       *)
MergedInto(importer, content) ==
    [importer EXCEPT !.next = @ + 1, !.combined = @ \o content]

ImportUnresolved ==
    /\ Comes /\ Target = Unresolved
    /\ Refuse("unresolved_import") /\ UNCHANGED read

ImportCycle ==
    /\ Comes /\ Target \in Loading
    /\ Refuse("import_cycle") /\ UNCHANGED read

AlreadyLoaded(m) == m \in loaded

Fresh == Comes /\ Target \in Modules \ Loading /\ ~AlreadyLoaded(Target)

(* A module loaded before contributes an empty document.                   *)
ImportLoaded ==
    /\ Comes /\ Target \in Modules \ Loading /\ AlreadyLoaded(Target)
    /\ frames' = Append(Below, MergedInto(Top, <<>>))
    /\ UNCHANGED <<source, loaded, read, outcome>>

ImportMissing ==
    /\ Fresh
    /\ \/ Text(source, Target) = "failing" /\ Refuse("source_error")
       \/ Text(source, Target) = "absent" /\ Refuse("module_not_found")
    /\ UNCHANGED read

WithRead(m) == Append(read, m)

(* A text counts as read before it is validated.                           *)
ImportInvalid ==
    /\ Fresh /\ Text(source, Target) \in {"invalid", "composed_only"}
    /\ ~TextAccepted(Target)
    /\ read' = WithRead(Target)
    /\ Refuse("invalid_module")

ImportEnters ==
    /\ Fresh /\ TextAccepted(Target)
    /\ read' = WithRead(Target)
    /\ frames' = Append(frames, Call(Target))
    /\ UNCHANGED <<source, loaded, outcome>>

(* A document's own declarations follow those of its imports.              *)
Merged(call) == Append(call.combined, call.module)

NowLoaded(call) == loaded \cup ({call.module} \ {Composition})

Return ==
    /\ outcome = "loading" /\ Len(frames) > 1 /\ ~Importing
    /\ loaded' = NowLoaded(Top)
    /\ frames' = Append(SubSeq(Below, 1, Len(Below) - 1),
                        MergedInto(Below[Len(Below)], Merged(Top)))
    /\ UNCHANGED <<source, read, outcome>>

ReturnRoot ==
    /\ outcome = "loading" /\ Len(frames) = 1 /\ ~Importing
    /\ loaded' = NowLoaded(Top)
    /\ frames' = <<[Top EXCEPT !.combined = Merged(Top)]>>
    /\ outcome' = "loaded"
    /\ UNCHANGED <<source, read>>

Next == \/ ImportUnresolved \/ ImportCycle \/ ImportLoaded
        \/ ImportMissing \/ ImportInvalid \/ ImportEnters
        \/ Return \/ ReturnRoot

Spec == Init /\ [][Next]_vars

-----------------------------------------------------------------------------
Names(m) == Elements(Imports(source, m))
Document == Elements(frames[1].combined)

Circular(S) == S # {} /\ \A m \in S : Names(m) \cap S # {}

(* A loaded program is its root and exactly what the root reaches, each    *)
(* module merged once, after every module it imports; the source closure   *)
(* recorded with the artifact names exactly those modules. An import cycle *)
(* is reported only where the modules read import one another in a circle. *)
LoadedExact ==
    /\ outcome = "loaded" =>
           LET merged == frames[1].combined
           IN  /\ merged[Len(merged)] = Root(source)
               /\ Cardinality(Document) = Len(merged)
               /\ \A j \in 1..Len(merged) :
                      /\ Names(merged[j]) \subseteq {merged[i] : i \in 1..(j - 1)}
                      /\ j < Len(merged) =>
                             \E i \in (j + 1)..Len(merged) : merged[j] \in Names(merged[i])
               /\ Elements(read) = Document \ {Composition}
    /\ outcome = "import_cycle" => \E S \in SUBSET Elements(read) : Circular(S)
=============================================================================
