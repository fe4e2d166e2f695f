--------------------------- MODULE LoweringProofs ---------------------------
(***************************************************************************)
(* Theorems about ModuleLoading and Lowering for every set of modules,     *)
(* sources and declarations: a loaded program is what its root reaches,    *)
(* loading stays right under lowering, and a compiled parameter has the    *)
(* values its text gives (ValuesAsDeclared).                               *)
(***************************************************************************)
EXTENDS Lowering, SequenceTheorems, FiniteSetTheorems, WellFoundedInduction, TLAPS

-----------------------------------------------------------------------------
(* Loading.                                                                *)
Documents == Modules \cup {Composition}

Calls == [module : Documents, next : Nat \ {0}, combined : Seq(Documents)]

(* Contents: no module twice, each after its imports that are not in       *)
(* `before`, each imported by a later one or by the importer `m`.          *)
Distinct(s) == \A i, j \in 1..Len(s) : s[i] = s[j] => i = j
Ordered(s, before) ==
    \A i \in 1..Len(s) : \A m \in Names(s[i]) : m \in before \/ \E j \in 1..(i - 1) : s[j] = m
Wanted(s, importer) ==
    \A i \in 1..Len(s) : \/ s[i] \in Names(importer)
                         \/ \E j \in (i + 1)..Len(s) : s[i] \in Names(s[j])

(* What the calls below the i-th have merged so far.                       *)
Earlier(fs, i) == {m \in Documents : \E j \in 1..(i - 1) : m \in Elements(fs[j].combined)}

(* The stack is a path of imports from the root.                           *)
Path(fs) ==
    /\ fs \in Seq(Calls)
    /\ Len(fs) > 0 => fs[1].module = Root(source)
    /\ \A i \in 2..Len(fs) : fs[i].module \in Modules
    /\ \A i, j \in 1..Len(fs) : fs[i].module = fs[j].module => i = j
    /\ \A i \in 1..Len(fs) : fs[i].next <= Len(Imports(source, fs[i].module)) + 1
    /\ \A i \in 1..(Len(fs) - 1) :
           /\ fs[i].next <= Len(Imports(source, fs[i].module))
           /\ fs[i + 1].module = Imports(source, fs[i].module)[fs[i].next]

(* What the calls have merged comes in load order and has all the imports  *)
(* they are done with.                                                     *)
Contents(fs) ==
    \A i \in 1..Len(fs) :
        /\ Distinct(fs[i].combined)
        /\ \A m \in Elements(fs[i].combined) : m \notin Earlier(fs, i)
        /\ Ordered(fs[i].combined, Earlier(fs, i))
        /\ Wanted(fs[i].combined, fs[i].module)
        /\ \A k \in 1..(fs[i].next - 1) :
               Imports(source, fs[i].module)[k] \in Earlier(fs, i + 1)

Accounted ==
    /\ loaded = Earlier(frames, Len(frames) + 1) /\ loaded \subseteq Modules
    /\ \A i \in 1..Len(frames) : frames[i].module \notin loaded
    /\ read \in Seq(Modules)
    /\ Elements(read) = loaded \cup Loading

Inductive ==
    /\ source \in Sources
    /\ outcome \in {"loading", "loaded", "unresolved_import", "import_cycle",
                    "source_error", "module_not_found", "invalid_module"}
    /\ outcome = "loading" => /\ Path(frames) /\ Contents(frames) /\ Accounted
                              /\ Root(source) = Composition => frames # <<>>
    /\ LoadedExact
-----------------------------------------------------------------------------
LEMMA SourceFacts ==
    ASSUME source \in Sources
    PROVE  /\ Composition \notin Modules /\ Unresolved \notin Modules
           /\ Root(source) \in Documents
           /\ \A m \in Documents :
                  /\ Imports(source, m) \in Seq(Modules \cup {Unresolved})
                  /\ Len(Imports(source, m)) \in Nat
                  /\ \A k \in 1..Len(Imports(source, m)) :
                         /\ Imports(source, m)[k] \in Modules \cup {Unresolved}
                         /\ Imports(source, m)[k] \in Names(m)
BY ModulesAssumption DEF Documents, Names, Elements

(* A name a module lists is at one of its imports.                         *)
LEMMA NamesAreImports ==
    ASSUME NEW m, NEW x \in Names(m)
    PROVE  \E k \in 1..Len(Imports(source, m)) : Imports(source, m)[k] = x
BY DEF Names, Elements

(* Two contents, one after the other.                                      *)
LEMMA ConcatFacts ==
    ASSUME NEW s \in Seq(Documents), NEW t \in Seq(Documents)
    PROVE  /\ s \o t \in Seq(Documents)
           /\ Len(s) \in Nat /\ Len(t) \in Nat /\ Len(s \o t) = Len(s) + Len(t)
           /\ \A i \in 1..Len(s) : (s \o t)[i] = s[i]
           /\ \A i \in 1..Len(t) : (s \o t)[Len(s) + i] = t[i]
           /\ \A i \in 1..Len(s \o t) :
                  i \in 1..Len(s) \/ (i - Len(s) \in 1..Len(t) /\ (s \o t)[i] = t[i - Len(s)])
           /\ Elements(s \o t) = Elements(s) \cup Elements(t)
<1> DEFINE u == s \o t
<1>1. /\ u \in Seq(Documents) /\ Len(u) = Len(s) + Len(t)
      /\ \A i \in 1..Len(u) : u[i] = IF i <= Len(s) THEN s[i] ELSE t[i - Len(s)]
  BY ConcatProperties
<1>2. Len(s) \in Nat /\ Len(t) \in Nat
  BY LenProperties
<1>3. \A i \in 1..Len(s) : i \in 1..Len(u) /\ u[i] = s[i]
  BY <1>1, <1>2
<1>4. \A i \in 1..Len(t) : Len(s) + i \in 1..Len(u) /\ u[Len(s) + i] = t[i]
  <2> TAKE i \in 1..Len(t)
  <2>1. /\ Len(s) + i \in 1..Len(u) /\ ~(Len(s) + i <= Len(s)) /\ (Len(s) + i) - Len(s) = i
    BY <1>1, <1>2
  <2> QED BY <1>1, <2>1
<1>5. \A i \in 1..Len(u) :
          \/ i \in 1..Len(s) /\ u[i] = s[i]
          \/ i - Len(s) \in 1..Len(t) /\ u[i] = t[i - Len(s)]
  BY <1>1, <1>2
<1> HIDE DEF u
<1>6. Elements(u) = Elements(s) \cup Elements(t)
  <2>1. ASSUME NEW x \in Elements(u) PROVE x \in Elements(s) \cup Elements(t)
    <3>1. PICK i \in 1..Len(u) : u[i] = x
      BY DEF Elements
    <3> QED BY <1>5, <3>1 DEF Elements
  <2>2. ASSUME NEW x \in Elements(s) PROVE x \in Elements(u)
    BY <1>3 DEF Elements
  <2>3. ASSUME NEW x \in Elements(t) PROVE x \in Elements(u)
    <3>1. PICK i \in 1..Len(t) : t[i] = x
      BY DEF Elements
    <3> QED BY <1>4, <3>1 DEF Elements
  <2> QED BY <2>1, <2>2, <2>3
<1>7. QED
  BY <1>1, <1>2, <1>3, <1>4, <1>5, <1>6 DEF u

LEMMA ConcatDistinct ==
    ASSUME NEW s \in Seq(Documents), NEW t \in Seq(Documents), Distinct(s), Distinct(t),
           \A m \in Elements(t) : m \notin Elements(s)
    PROVE  Distinct(s \o t)
<1> DEFINE u == s \o t
<1>1. /\ Len(s) \in Nat /\ Len(t) \in Nat
      /\ \A i \in 1..Len(s) : u[i] = s[i] /\ s[i] \in Elements(s)
      /\ \A i \in 1..Len(u) :
             i \in 1..Len(s) \/ (i - Len(s) \in 1..Len(t) /\ u[i] = t[i - Len(s)])
      /\ \A i \in 1..Len(t) : t[i] \in Elements(t)
      /\ Len(u) \in Nat
  BY ConcatFacts, LenProperties DEF Elements
<1> HIDE DEF u
<1>2. ASSUME NEW i \in 1..Len(u), NEW j \in 1..Len(u), u[i] = u[j]
      PROVE  i = j
  <2>1. CASE i \in 1..Len(s) /\ j \in 1..Len(s)
    BY <1>1, <1>2, <2>1 DEF Distinct
  <2>2. CASE i \in 1..Len(s) /\ j \notin 1..Len(s)
    BY <1>1, <1>2, <2>2
  <2>3. CASE i \notin 1..Len(s) /\ j \in 1..Len(s)
    BY <1>1, <1>2, <2>3
  <2>4. CASE i \notin 1..Len(s) /\ j \notin 1..Len(s)
    <3>1. i - Len(s) = j - Len(s)
      BY <1>1, <1>2, <2>4 DEF Distinct
    <3> QED BY <1>1, <3>1
  <2> QED BY <2>1, <2>2, <2>3, <2>4
<1> QED BY <1>2 DEF Distinct, u

LEMMA ConcatOrdered ==
    ASSUME NEW s \in Seq(Documents), NEW t \in Seq(Documents), NEW before, NEW now,
           Ordered(s, before), Ordered(t, now), now = before \cup Elements(s)
    PROVE  Ordered(s \o t, before)
<1> DEFINE u == s \o t
<1>1. /\ Len(s) \in Nat /\ Len(t) \in Nat /\ Len(u) = Len(s) + Len(t)
      /\ \A i \in 1..Len(s) : u[i] = s[i]
      /\ \A i \in 1..Len(u) :
             i \in 1..Len(s) \/ (i - Len(s) \in 1..Len(t) /\ u[i] = t[i - Len(s)])
      /\ \A i \in 1..Len(t) : u[Len(s) + i] = t[i]
  BY ConcatFacts
<1> HIDE DEF u
<1>2. ASSUME NEW i \in 1..Len(u), NEW m \in Names(u[i]), m \notin before
      PROVE  \E j \in 1..(i - 1) : u[j] = m
  <2>1. CASE i \in 1..Len(s)
    <3>1. PICK j \in 1..(i - 1) : s[j] = m
      BY <1>1, <1>2, <2>1 DEF Ordered
    <3>2. j \in 1..Len(s)
      BY <1>1, <2>1, <3>1
    <3> QED BY <1>1, <3>1, <3>2
  <2>2. CASE i \notin 1..Len(s)
    <3>1. i - Len(s) \in 1..Len(t) /\ u[i] = t[i - Len(s)]
      BY <1>1, <2>2
    <3>2. m \in now \/ \E j \in 1..((i - Len(s)) - 1) : t[j] = m
      BY <3>1 DEF Ordered
    <3>3. CASE m \in Elements(s)
      <4>1. PICK j \in 1..Len(s) : s[j] = m
        BY <3>3 DEF Elements
      <4>2. j \in 1..(i - 1)
        BY <1>1, <3>1, <4>1
      <4> QED BY <1>1, <4>1, <4>2
    <3>4. CASE \E j \in 1..((i - Len(s)) - 1) : t[j] = m
      <4>1. PICK j \in 1..((i - Len(s)) - 1) : t[j] = m
        BY <3>4
      <4>2. j \in 1..Len(t) /\ Len(s) + j \in 1..(i - 1)
        BY <1>1, <3>1, <4>1
      <4> QED BY <1>1, <4>1, <4>2
    <3> QED BY <1>2, <3>2, <3>3, <3>4
  <2> QED BY <2>1, <2>2
<1> QED BY <1>2 DEF Ordered, u

LEMMA ConcatWanted ==
    ASSUME NEW s \in Seq(Documents), NEW t \in Seq(Documents), NEW importer,
           Wanted(s, importer), Wanted(t, importer)
    PROVE  Wanted(s \o t, importer)
<1> DEFINE u == s \o t
<1>1. /\ Len(s) \in Nat /\ Len(t) \in Nat /\ Len(u) = Len(s) + Len(t)
      /\ \A i \in 1..Len(s) : u[i] = s[i]
      /\ \A i \in 1..Len(u) :
             i \in 1..Len(s) \/ (i - Len(s) \in 1..Len(t) /\ u[i] = t[i - Len(s)])
      /\ \A i \in 1..Len(t) : u[Len(s) + i] = t[i]
  BY ConcatFacts
<1> HIDE DEF u
<1>2. ASSUME NEW i \in 1..Len(u), u[i] \notin Names(importer)
      PROVE  \E j \in (i + 1)..Len(u) : u[i] \in Names(u[j])
  <2>1. CASE i \in 1..Len(s)
    <3>1. PICK j \in (i + 1)..Len(s) : s[i] \in Names(s[j])
      BY <1>1, <1>2, <2>1 DEF Wanted
    <3>2. j \in 1..Len(s) /\ j \in (i + 1)..Len(u)
      BY <1>1, <2>1, <3>1
    <3> QED BY <1>1, <2>1, <3>1, <3>2
  <2>2. CASE i \notin 1..Len(s)
    <3>1. i - Len(s) \in 1..Len(t) /\ u[i] = t[i - Len(s)]
      BY <1>1, <2>2
    <3>2. PICK j \in ((i - Len(s)) + 1)..Len(t) : t[i - Len(s)] \in Names(t[j])
      BY <1>2, <3>1 DEF Wanted
    <3>3. j \in 1..Len(t) /\ Len(s) + j \in (i + 1)..Len(u)
      BY <1>1, <3>1, <3>2
    <3> QED BY <1>1, <3>1, <3>2, <3>3
  <2> QED BY <2>1, <2>2
<1> QED BY <1>2 DEF Wanted, u
(* A document's own declarations after those of its imports.               *)
LEMMA MergedFacts ==
    ASSUME NEW c \in Seq(Documents), NEW m \in Documents, NEW before,
           Distinct(c), Ordered(c, before), Wanted(c, m), m \notin Elements(c),
           Names(m) \subseteq before \cup Elements(c)
    PROVE  /\ Append(c, m) \in Seq(Documents)
           /\ Len(Append(c, m)) = Len(c) + 1 /\ Append(c, m)[Len(c) + 1] = m
           /\ Elements(Append(c, m)) = Elements(c) \cup {m}
           /\ Distinct(Append(c, m))
           /\ Ordered(Append(c, m), before)
           /\ \A i \in 1..Len(c) :
                  \E j \in (i + 1)..(Len(c) + 1) : Append(c, m)[i] \in Names(Append(c, m)[j])
<1> DEFINE t == Append(c, m)
<1>1. /\ <<m>> \in Seq(Documents) /\ Len(<<m>>) = 1 /\ <<m>>[1] = m
      /\ t = c \o <<m>> /\ Len(c) \in Nat
  BY AppendIsConcat, LenProperties
<1>2. Elements(<<m>>) = {m}
  BY <1>1 DEF Elements
<1>3. t \in Seq(Documents) /\ Elements(t) = Elements(c) \cup {m}
  <2>1. /\ c \o <<m>> \in Seq(Documents)
        /\ Elements(c \o <<m>>) = Elements(c) \cup Elements(<<m>>)
    BY <1>1, ConcatFacts
  <2> QED BY <1>1, <1>2, <2>1
<1>4. Distinct(<<m>>) /\ Ordered(<<m>>, before \cup Elements(c))
  BY <1>1 DEF Distinct, Ordered
<1>5. Distinct(t)
  BY <1>1, <1>2, <1>4, ConcatDistinct
<1>6. Ordered(t, before)
  BY <1>1, <1>4, ConcatOrdered
<1>7. /\ Len(t) = Len(c) + 1 /\ t[Len(c) + 1] = m
      /\ \A i \in 1..Len(c) : t[i] = c[i]
  BY AppendProperties
<1> HIDE DEF t
<1>8. ASSUME NEW i \in 1..Len(c)
      PROVE  \E j \in (i + 1)..(Len(c) + 1) : t[i] \in Names(t[j])
  <2>1. CASE c[i] \in Names(m)
    <3>1. Len(c) + 1 \in (i + 1)..(Len(c) + 1)
      BY <1>1
    <3> QED BY <1>7, <2>1, <3>1
  <2>2. CASE c[i] \notin Names(m)
    <3>1. PICK j \in (i + 1)..Len(c) : c[i] \in Names(c[j])
      BY <2>2 DEF Wanted
    <3>2. j \in 1..Len(c) /\ j \in (i + 1)..(Len(c) + 1)
      BY <1>1, <3>1
    <3> QED BY <1>7, <3>1, <3>2
  <2> QED BY <2>1, <2>2
<1> QED BY <1>3, <1>5, <1>6, <1>7, <1>8 DEF t

(* The stack without its top.                                              *)
LEMMA BelowFacts ==
    ASSUME NEW fs \in Seq(Calls), Len(fs) > 0
    PROVE  /\ SubSeq(fs, 1, Len(fs) - 1) \in Seq(Calls)
           /\ Len(SubSeq(fs, 1, Len(fs) - 1)) = Len(fs) - 1
           /\ \A i \in 1..(Len(fs) - 1) : SubSeq(fs, 1, Len(fs) - 1)[i] = fs[i]
<1> DEFINE n == Len(fs) - 1
<1>1. Len(fs) \in Nat \ {0} /\ n \in Nat /\ 1 \in Int /\ n \in Int
  BY LenProperties
<1>2. \A i \in 1..n : fs[i] \in Calls
  BY <1>1, ElementOfSeq
<1> HIDE DEF n
<1>3. /\ SubSeq(fs, 1, n) \in Seq(Calls)
      /\ Len(SubSeq(fs, 1, n)) = IF 1 <= n THEN n - 1 + 1 ELSE 0
      /\ \A i \in 1..(n - 1 + 1) : SubSeq(fs, 1, n)[i] = fs[1 + i - 1]
  BY <1>1, <1>2, SubSeqProperties
<1>4. /\ n - 1 + 1 = n /\ (~(1 <= n) => n = 0)
      /\ \A i \in 1..n : 1 + i - 1 = i
  BY <1>1
<1>5. Len(SubSeq(fs, 1, n)) = n
  BY <1>3, <1>4
<1>6. \A i \in 1..n : SubSeq(fs, 1, n)[i] = fs[i]
  BY <1>3, <1>4
<1> QED BY <1>3, <1>5, <1>6 DEF n

(* The stack with another call in place of its top.                        *)
LEMMA ReplaceTop ==
    ASSUME NEW fs \in Seq(Calls), Len(fs) > 0, NEW call \in Calls
    PROVE  /\ Append(SubSeq(fs, 1, Len(fs) - 1), call) \in Seq(Calls)
           /\ Len(Append(SubSeq(fs, 1, Len(fs) - 1), call)) = Len(fs)
           /\ \A i \in 1..(Len(fs) - 1) : Append(SubSeq(fs, 1, Len(fs) - 1), call)[i] = fs[i]
           /\ Append(SubSeq(fs, 1, Len(fs) - 1), call)[Len(fs)] = call
<1> DEFINE below == SubSeq(fs, 1, Len(fs) - 1)
<1>1. Len(fs) \in Nat \ {0}
  BY LenProperties
<1>2. /\ below \in Seq(Calls) /\ Len(below) = Len(fs) - 1
      /\ \A i \in 1..(Len(fs) - 1) : below[i] = fs[i]
  BY <1>1, BelowFacts
<1> HIDE DEF below
<1>3. /\ Append(below, call) \in Seq(Calls) /\ Len(Append(below, call)) = Len(fs)
      /\ \A i \in 1..(Len(fs) - 1) : Append(below, call)[i] = below[i]
      /\ Append(below, call)[Len(fs)] = call
  BY <1>1, <1>2, AppendProperties
<1> QED BY <1>2, <1>3 DEF below

(* Without its top, the stack is still a path with its contents.           *)
LEMMA PopTop ==
    ASSUME NEW fs, Path(fs), Contents(fs), Len(fs) > 0
    PROVE  /\ Path(SubSeq(fs, 1, Len(fs) - 1)) /\ Contents(SubSeq(fs, 1, Len(fs) - 1))
           /\ Len(SubSeq(fs, 1, Len(fs) - 1)) = Len(fs) - 1
           /\ \A i \in 1..(Len(fs) - 1) : SubSeq(fs, 1, Len(fs) - 1)[i] = fs[i]
           /\ \A i \in 1..Len(fs) : Earlier(SubSeq(fs, 1, Len(fs) - 1), i) = Earlier(fs, i)
<1> DEFINE gs == SubSeq(fs, 1, Len(fs) - 1)
<1>1. fs \in Seq(Calls) /\ Len(fs) \in Nat \ {0}
  BY LenProperties DEF Path
<1>2. /\ gs \in Seq(Calls) /\ Len(gs) = Len(fs) - 1
      /\ \A i \in 1..(Len(fs) - 1) : gs[i] = fs[i]
  BY <1>1, BelowFacts
<1> HIDE DEF gs
<1>3. \A i \in 1..Len(fs) : Earlier(gs, i) = Earlier(fs, i)
  <2> TAKE i \in 1..Len(fs)
  <2>1. \A j \in 1..(i - 1) : gs[j] = fs[j]
    BY <1>1, <1>2
  <2> QED BY <2>1 DEF Earlier
<1>4. Path(gs)
  <2>1. /\ Len(gs) > 0 => gs[1] = fs[1]
        /\ \A i \in 1..Len(gs) : i \in 1..Len(fs) /\ gs[i] = fs[i]
        /\ \A i \in 1..(Len(gs) - 1) :
               i \in 1..(Len(fs) - 1) /\ gs[i] = fs[i] /\ gs[i + 1] = fs[i + 1]
        /\ \A i \in 2..Len(gs) : i \in 2..Len(fs)
    BY <1>1, <1>2
  <2>2. \A i \in 2..Len(gs) : gs[i].module \in Modules
    BY <1>1, <1>2, <2>1 DEF Path
  <2>3. \A i \in 1..(Len(gs) - 1) :
            /\ gs[i].next <= Len(Imports(source, gs[i].module))
            /\ gs[i + 1].module = Imports(source, gs[i].module)[gs[i].next]
    BY <2>1 DEF Path
  <2>4. \A i, j \in 1..Len(gs) : gs[i].module = gs[j].module => i = j
    BY <2>1 DEF Path
  <2>5. \A i \in 1..Len(gs) : gs[i].next <= Len(Imports(source, gs[i].module)) + 1
    BY <2>1 DEF Path
  <2>6. Len(gs) > 0 => gs[1].module = Root(source)
    BY <2>1 DEF Path
  <2> QED BY <1>2, <2>2, <2>3, <2>4, <2>5, <2>6 DEF Path
<1>5. Contents(gs)
  <2> SUFFICES ASSUME NEW i \in 1..Len(gs)
               PROVE  /\ Distinct(gs[i].combined)
                      /\ \A m \in Elements(gs[i].combined) : m \notin Earlier(gs, i)
                      /\ Ordered(gs[i].combined, Earlier(gs, i))
                      /\ Wanted(gs[i].combined, gs[i].module)
                      /\ \A k \in 1..(gs[i].next - 1) :
                             Imports(source, gs[i].module)[k] \in Earlier(gs, i + 1)
    BY DEF Contents
  <2>1. i \in 1..Len(fs) /\ i + 1 \in 1..Len(fs) /\ gs[i] = fs[i]
    BY <1>1, <1>2
  <2>2. Earlier(gs, i) = Earlier(fs, i) /\ Earlier(gs, i + 1) = Earlier(fs, i + 1)
    BY <1>3, <2>1
  <2> QED BY <2>1, <2>2 DEF Contents
<1> QED BY <1>2, <1>3, <1>4, <1>5 DEF gs
LEMMA MergedIntoFacts ==
    ASSUME NEW call \in Calls, NEW t \in Seq(Documents)
    PROVE  /\ MergedInto(call, t) \in Calls
           /\ MergedInto(call, t).module = call.module
           /\ MergedInto(call, t).next = call.next + 1
           /\ MergedInto(call, t).combined = call.combined \o t
<1>1. call.next + 1 \in Nat \ {0} /\ call.combined \in Seq(Documents)
  BY DEF Calls
<1>2. call.combined \o t \in Seq(Documents)
  BY <1>1, ConcatFacts
<1>3. MergedInto(call, t) \in Calls
  <2>1. \A n \in Nat \ {0}, c \in Seq(Documents) :
            [call EXCEPT !.next = n, !.combined = c] \in Calls
    BY DEF Calls
  <2> QED BY <1>1, <1>2, <2>1 DEF MergedInto
<1>4. MergedInto(call, t).module = call.module
  BY DEF MergedInto, Calls
<1>5. MergedInto(call, t).next = call.next + 1
  BY DEF MergedInto, Calls
<1>6. MergedInto(call, t).combined = call.combined \o t
  BY DEF MergedInto, Calls
<1> QED BY <1>3, <1>4, <1>5, <1>6

(* One call more contributes its contents.                                 *)
LEMMA EarlierNext ==
    ASSUME NEW fs \in Seq(Calls), NEW i \in 1..Len(fs)
    PROVE  Earlier(fs, i + 1) = Earlier(fs, i) \cup Elements(fs[i].combined)
<1>1. i \in Nat \ {0} /\ \A j \in 1..((i + 1) - 1) : j = i \/ j \in 1..(i - 1)
  BY LenProperties
<1>2. i \in 1..((i + 1) - 1) /\ \A j \in 1..(i - 1) : j \in 1..((i + 1) - 1)
  BY <1>1
<1>3. fs[i].combined \in Seq(Documents)
  <2>1. fs[i] \in Calls
    BY ElementOfSeq
  <2> QED BY <2>1 DEF Calls
<1>4. Elements(fs[i].combined) \subseteq Documents
  BY <1>3, ElementOfSeq DEF Elements
<1> QED BY <1>1, <1>2, <1>4 DEF Earlier

(* A content is merged into the top call, which goes on to its next import.*)
WithMerged(fs, t) == Append(SubSeq(fs, 1, Len(fs) - 1), MergedInto(fs[Len(fs)], t))

LEMMA MergeTop ==
    ASSUME source \in Sources, NEW fs, Path(fs), Contents(fs), Len(fs) > 0,
           NEW t \in Seq(Documents), Distinct(t),
           \A m \in Elements(t) : m \notin Earlier(fs, Len(fs) + 1),
           Ordered(t, Earlier(fs, Len(fs) + 1)), Wanted(t, fs[Len(fs)].module),
           fs[Len(fs)].next <= Len(Imports(source, fs[Len(fs)].module)),
           Imports(source, fs[Len(fs)].module)[fs[Len(fs)].next]
               \in Earlier(fs, Len(fs) + 1) \cup Elements(t)
    PROVE  /\ Path(WithMerged(fs, t)) /\ Contents(WithMerged(fs, t))
           /\ Len(WithMerged(fs, t)) = Len(fs)
           /\ \A i \in 1..Len(fs) : WithMerged(fs, t)[i].module = fs[i].module
           /\ Earlier(WithMerged(fs, t), Len(fs) + 1)
                  = Earlier(fs, Len(fs) + 1) \cup Elements(t)
<1> DEFINE n == Len(fs)
           gs == WithMerged(fs, t)
           top == fs[n]
           new == MergedInto(fs[n], t)
<1>1. fs \in Seq(Calls) /\ n \in Nat \ {0} /\ top \in Calls
  BY LenProperties, ElementOfSeq DEF Path
<1>2. /\ new \in Calls /\ new.module = top.module /\ new.next = top.next + 1
      /\ new.combined = top.combined \o t
  BY <1>1, MergedIntoFacts
<1>3. top.combined \in Seq(Documents) /\ top.next \in Nat \ {0} /\ top.module \in Documents
  BY <1>1 DEF Calls
<1>4. top.combined \o t \in Seq(Documents)
  BY <1>3, ConcatFacts
<1>6. /\ gs \in Seq(Calls) /\ Len(gs) = n /\ gs[n] = new
      /\ \A i \in 1..(n - 1) : gs[i] = fs[i]
  BY <1>1, <1>2, ReplaceTop DEF WithMerged
<1>7. \A i \in 1..n : i = n \/ i \in 1..(n - 1)
  BY <1>1
<1>8. \A i \in 1..n : gs[i].module = fs[i].module
  BY <1>2, <1>6, <1>7
<1>9. \A i \in 1..n : Earlier(gs, i) = Earlier(fs, i)
  <2> TAKE i \in 1..n
  <2>1. \A j \in 1..(i - 1) : gs[j] = fs[j]
    BY <1>1, <1>6
  <2> QED BY <2>1 DEF Earlier
<1>10. Elements(new.combined) = Elements(top.combined) \cup Elements(t)
  BY <1>2, <1>3, ConcatFacts
<1>11. /\ Earlier(fs, n + 1) = Earlier(fs, n) \cup Elements(top.combined)
       /\ Earlier(gs, n + 1) = Earlier(gs, n) \cup Elements(new.combined)
  <2>1. n \in 1..Len(fs) /\ n \in 1..Len(gs)
    BY <1>1, <1>6
  <2>2. Earlier(fs, n + 1) = Earlier(fs, n) \cup Elements(fs[n].combined)
    BY <1>1, <2>1, EarlierNext
  <2>3. Earlier(gs, n + 1) = Earlier(gs, n) \cup Elements(gs[n].combined)
    BY <1>6, <2>1, EarlierNext
  <2> QED BY <1>6, <2>2, <2>3
<1>12. Earlier(gs, n + 1) = Earlier(fs, n + 1) \cup Elements(t)
  BY <1>1, <1>9, <1>10, <1>11
<1>13. Path(gs)
  <2>1. n \in 1..n /\ (n > 1 => n - 1 \in 1..n)
    BY <1>1
  <2>2. \A i \in 2..n : gs[i].module \in Modules
    BY <1>1, <1>8 DEF Path
  <2>3. \A i, j \in 1..n : gs[i].module = gs[j].module => i = j
    BY <1>8 DEF Path
  <2>4. gs[1].module = Root(source)
    <3>1. fs[1].module = Root(source) /\ 1 \in 1..n
      BY <1>1 DEF Path
    <3> QED BY <3>1, <1>8
  <2>5. \A i \in 1..n : gs[i].next <= Len(Imports(source, gs[i].module)) + 1
    <3>1. top.next + 1 <= Len(Imports(source, top.module)) + 1
      BY <1>3, SourceFacts
    <3>2. gs[n].next <= Len(Imports(source, gs[n].module)) + 1
      BY <1>2, <1>6, <3>1
    <3>3. \A i \in 1..(n - 1) : gs[i].next <= Len(Imports(source, gs[i].module)) + 1
      <4> TAKE i \in 1..(n - 1)
      <4>1. i \in 1..n /\ gs[i] = fs[i]
        BY <1>1, <1>6
      <4> QED BY <4>1 DEF Path
    <3> QED BY <1>7, <3>2, <3>3
  <2>6. \A i \in 1..(n - 1) :
            /\ gs[i].next <= Len(Imports(source, gs[i].module))
            /\ gs[i + 1].module = Imports(source, gs[i].module)[gs[i].next]
    <3> TAKE i \in 1..(n - 1)
    <3>1. i + 1 \in 1..n /\ gs[i] = fs[i] /\ gs[i + 1].module = fs[i + 1].module
      BY <1>1, <1>6, <1>8
    <3> QED BY <3>1 DEF Path
  <2> QED BY <1>6, <2>2, <2>3, <2>4, <2>5, <2>6 DEF Path
<1>14. Contents(gs)
  <2> SUFFICES ASSUME NEW i \in 1..n
               PROVE  /\ Distinct(gs[i].combined)
                      /\ \A m \in Elements(gs[i].combined) : m \notin Earlier(gs, i)
                      /\ Ordered(gs[i].combined, Earlier(gs, i))
                      /\ Wanted(gs[i].combined, gs[i].module)
                      /\ \A k \in 1..(gs[i].next - 1) :
                             Imports(source, gs[i].module)[k] \in Earlier(gs, i + 1)
    BY <1>6 DEF Contents
  <2>1. CASE i \in 1..(n - 1)
    <3>1. i \in 1..n /\ i + 1 \in 1..n /\ gs[i] = fs[i]
      BY <1>1, <1>6, <2>1
    <3>2. Earlier(gs, i) = Earlier(fs, i) /\ Earlier(gs, i + 1) = Earlier(fs, i + 1)
      BY <1>9, <3>1
    <3> QED BY <3>1, <3>2 DEF Contents
  <2>2. CASE i = n
    <3>1. /\ Distinct(top.combined) /\ Ordered(top.combined, Earlier(fs, n))
          /\ Wanted(top.combined, top.module)
          /\ \A m \in Elements(top.combined) : m \notin Earlier(fs, n)
          /\ \A k \in 1..(top.next - 1) :
                 Imports(source, top.module)[k] \in Earlier(fs, n + 1)
      BY <2>2 DEF Contents
    <3>2. \A m \in Elements(t) : m \notin Elements(top.combined) /\ m \notin Earlier(fs, n)
      BY <1>11
    <3>3. Distinct(new.combined)
      BY <1>2, <1>3, <3>1, <3>2, ConcatDistinct
    <3>4. Ordered(new.combined, Earlier(fs, n))
      BY <1>2, <1>3, <1>11, <3>1, ConcatOrdered
    <3>5. Wanted(new.combined, new.module)
      BY <1>2, <1>3, <3>1, ConcatWanted
    <3>6. \A m \in Elements(new.combined) : m \notin Earlier(fs, n)
      BY <1>10, <3>1, <3>2
    <3>7. \A k \in 1..(new.next - 1) :
              Imports(source, new.module)[k] \in Earlier(gs, n + 1)
      <4> TAKE k \in 1..(new.next - 1)
      <4>1. k = top.next \/ k \in 1..(top.next - 1)
        BY <1>2, <1>3
      <4> QED BY <1>2, <1>12, <3>1, <4>1
    <3>8. Earlier(gs, n) = Earlier(fs, n)
      BY <1>9, <2>2
    <3> QED BY <1>6, <2>2, <3>3, <3>4, <3>5, <3>6, <3>7, <3>8
  <2> QED BY <1>7, <2>1, <2>2
<1> QED BY <1>6, <1>8, <1>12, <1>13, <1>14
(* A call is entered for the module its importer comes to.                 *)
LEMMA PushCall ==
    ASSUME source \in Sources, NEW fs, Path(fs), Contents(fs),
           NEW m \in Documents, m \in Modules \/ Len(fs) = 0,
           Len(fs) = 0 => m = Root(source),
           Len(fs) > 0 =>
               /\ fs[Len(fs)].next <= Len(Imports(source, fs[Len(fs)].module))
               /\ m = Imports(source, fs[Len(fs)].module)[fs[Len(fs)].next],
           \A i \in 1..Len(fs) : fs[i].module # m
    PROVE  /\ Path(Append(fs, Call(m))) /\ Contents(Append(fs, Call(m)))
           /\ Len(Append(fs, Call(m))) = Len(fs) + 1
           /\ \A i \in 1..Len(fs) : Append(fs, Call(m))[i] = fs[i]
           /\ Append(fs, Call(m))[Len(fs) + 1] = Call(m)
           /\ Earlier(Append(fs, Call(m)), (Len(fs) + 1) + 1) = Earlier(fs, Len(fs) + 1)
<1> DEFINE n == Len(fs)
           gs == Append(fs, Call(m))
<1>1. fs \in Seq(Calls) /\ n \in Nat
  BY LenProperties DEF Path
<1>2. /\ Call(m) \in Calls /\ Call(m).module = m /\ Call(m).next = 1
      /\ Call(m).combined = <<>>
  BY DEF Call, Calls
<1>3. /\ gs \in Seq(Calls) /\ Len(gs) = n + 1 /\ gs[n + 1] = Call(m)
      /\ \A i \in 1..n : gs[i] = fs[i]
  BY <1>1, <1>2, AppendProperties
<1> HIDE DEF gs
<1>4. \A i \in 1..(n + 1) : i = n + 1 \/ i \in 1..n
  BY <1>1
<1>5. \A i \in 1..(n + 1) : Earlier(gs, i) = Earlier(fs, i)
  <2> TAKE i \in 1..(n + 1)
  <2>1. \A j \in 1..(i - 1) : gs[j] = fs[j]
    BY <1>1, <1>3
  <2> QED BY <2>1 DEF Earlier
<1>6. Earlier(gs, (n + 1) + 1) = Earlier(fs, n + 1)
  <2>1. n + 1 \in 1..Len(gs) /\ n + 1 \in 1..(n + 1)
    BY <1>1, <1>3
  <2>2. Earlier(gs, (n + 1) + 1) = Earlier(gs, n + 1) \cup Elements(gs[n + 1].combined)
    BY <1>3, <2>1, EarlierNext
  <2>3. Elements(<<>>) = {}
    BY DEF Elements
  <2> QED BY <1>2, <1>3, <1>5, <2>1, <2>2, <2>3
<1>7. Path(gs)
  <2>7. \A i \in 1..n : gs[i].module = fs[i].module /\ gs[i].module # m
    BY <1>3
  <2>8. gs[n + 1].module = m
    BY <1>2, <1>3
  <2>1. \A i \in 2..(n + 1) : gs[i].module \in Modules
    <3> TAKE i \in 2..(n + 1)
    <3>1. CASE i = n + 1
      BY <1>1, <2>8, <3>1
    <3>2. CASE i # n + 1
      <4>1. i \in 1..n /\ i \in 2..n
        BY <1>1, <3>2
      <4> QED BY <2>7, <4>1 DEF Path
    <3> QED BY <3>1, <3>2
  <2>2. \A i, j \in 1..(n + 1) : gs[i].module = gs[j].module => i = j
    <3>1. \A i, j \in 1..n : gs[i].module = gs[j].module => i = j
      BY <2>7 DEF Path
    <3> QED BY <1>4, <2>7, <2>8, <3>1
  <2>3. gs[1].module = Root(source)
    BY <1>1, <1>2, <1>3 DEF Path
  <2>4. \A i \in 1..(n + 1) : gs[i].next <= Len(Imports(source, gs[i].module)) + 1
    <3>1. 1 <= Len(Imports(source, m)) + 1
      BY SourceFacts
    <3> QED BY <1>2, <1>3, <1>4, <3>1 DEF Path
  <2>5. \A i \in 1..n :
            /\ gs[i].next <= Len(Imports(source, gs[i].module))
            /\ gs[i + 1].module = Imports(source, gs[i].module)[gs[i].next]
    <3> TAKE i \in 1..n
    <3>1. CASE i = n
      BY <1>1, <1>2, <1>3, <3>1
    <3>2. CASE i # n
      <4>1. i \in 1..(n - 1) /\ i + 1 \in 1..n
        BY <1>1, <3>2
      <4> QED BY <1>3, <4>1 DEF Path
    <3> QED BY <3>1, <3>2
  <2>6. (n + 1) - 1 = n
    BY <1>1
  <2> QED BY <1>3, <2>1, <2>2, <2>3, <2>4, <2>5, <2>6 DEF Path
<1>8. Contents(gs)
  <2> SUFFICES ASSUME NEW i \in 1..(n + 1)
               PROVE  /\ Distinct(gs[i].combined)
                      /\ \A x \in Elements(gs[i].combined) : x \notin Earlier(gs, i)
                      /\ Ordered(gs[i].combined, Earlier(gs, i))
                      /\ Wanted(gs[i].combined, gs[i].module)
                      /\ \A k \in 1..(gs[i].next - 1) :
                             Imports(source, gs[i].module)[k] \in Earlier(gs, i + 1)
    BY <1>3 DEF Contents
  <2>1. CASE i \in 1..n
    <3>1. gs[i] = fs[i] /\ i \in 1..(n + 1) /\ i + 1 \in 1..(n + 1)
      BY <1>1, <1>3, <2>1
    <3>2. Earlier(gs, i) = Earlier(fs, i) /\ Earlier(gs, i + 1) = Earlier(fs, i + 1)
      BY <1>5, <3>1
    <3> QED BY <2>1, <3>1, <3>2 DEF Contents
  <2>2. CASE i = n + 1
    <3>1. gs[i].combined = <<>> /\ gs[i].next = 1
      BY <1>2, <1>3, <2>2
    <3>2. /\ Distinct(<<>>) /\ Elements(<<>>) = {} /\ Ordered(<<>>, Earlier(gs, i))
          /\ Wanted(<<>>, gs[i].module)
      BY DEF Distinct, Elements, Ordered, Wanted
    <3> QED BY <3>1, <3>2
  <2> QED BY <1>4, <2>1, <2>2
<1> QED BY <1>3, <1>6, <1>7, <1>8 DEF gs

(* A content without repetitions is as long as it has modules.             *)
LEMMA DistinctCardinality ==
    ASSUME NEW s \in Seq(Documents), Distinct(s)
    PROVE  Cardinality(Elements(s)) = Len(s)
<1>1. Len(s) \in Nat /\ s \in [1..Len(s) -> Elements(s)]
  BY LenProperties DEF Elements
<1>2. \A x \in Elements(s) : \E i \in 1..Len(s) : s[i] = x
  BY DEF Elements
<1>3. s \in Bijection(1..Len(s), Elements(s))
  BY <1>1, <1>2 DEF Distinct, Bijection, Injection, Surjection, IsInjective
<1> QED BY <1>1, <1>3, FS_CountingElements DEF ExistsBijection
-----------------------------------------------------------------------------
LEMMA InductiveInit == Init => Inductive
<1> SUFFICES ASSUME Init PROVE Inductive
  OBVIOUS
<1>1. source \in Sources /\ Root(source) \in Documents
  BY SourceFacts DEF Init
<1>2. LoadedExact /\ outcome = "loading" /\ loaded = {} /\ read = <<>>
  BY DEF Init, LoadedExact
<1>3. CASE Root(source) = Composition
  <2>1. frames = <<Call(Composition)>>
    BY <1>3 DEF Init
  <2>2. /\ <<>> \in Seq(Calls) /\ Len(<<>>) = 0
        /\ frames = Append(<<>>, Call(Composition))
    BY <2>1
  <2>3. Path(<<>>) /\ Contents(<<>>)
    BY <2>2 DEF Path, Contents
  <2>4. /\ Path(frames) /\ Contents(frames) /\ Len(frames) = 1
        /\ frames[1] = Call(Composition)
        /\ Earlier(frames, 2) = Earlier(<<>>, 1)
    <3>1. /\ Composition \in Documents /\ ~(Len(<<>>) > 0)
          /\ \A i \in 1..Len(<<>>) : <<>>[i].module # Composition
      BY <2>2 DEF Documents
    <3>2. /\ Path(Append(<<>>, Call(Composition))) /\ Contents(Append(<<>>, Call(Composition)))
          /\ Len(Append(<<>>, Call(Composition))) = Len(<<>>) + 1
          /\ Append(<<>>, Call(Composition))[Len(<<>>) + 1] = Call(Composition)
          /\ Earlier(Append(<<>>, Call(Composition)), (Len(<<>>) + 1) + 1)
                 = Earlier(<<>>, Len(<<>>) + 1)
      BY <1>1, <1>3, <2>2, <2>3, <3>1, PushCall
    <3> QED BY <2>2, <3>2
  <2>5. Earlier(<<>>, 1) = {}
    BY DEF Earlier
  <2>6. Loading = {}
    BY <2>4 DEF Loading, Call
  <2>7. Accounted
    BY <1>2, <2>4, <2>5, <2>6 DEF Accounted, Elements
  <2> QED BY <1>1, <1>2, <2>1, <2>4, <2>7 DEF Inductive
<1>4. CASE Root(source) # Composition
  <2>1. frames = <<>>
    BY <1>4 DEF Init
  <2>2. Path(frames) /\ Contents(frames)
    BY <2>1 DEF Path, Contents
  <2>3. Earlier(frames, Len(frames) + 1) = {} /\ Loading = {}
    BY <2>1 DEF Earlier, Loading
  <2>4. Accounted
    BY <1>2, <2>1, <2>3 DEF Accounted, Elements
  <2> QED BY <1>1, <1>2, <1>4, <2>2, <2>4 DEF Inductive
<1> QED BY <1>3, <1>4

(* A load's source is the same throughout.                                 *)
LEMMA Carried ==
    ASSUME UNCHANGED source, Path(frames'), Contents(frames')
    PROVE  Path(frames)' /\ Contents(frames)'
<1>1. \A m : Names(m)' = Names(m)
  BY DEF Names, Elements
<1>2. Path(frames)'
  BY DEF Path
<1>3. Contents(frames)'
  <2> SUFFICES ASSUME NEW i \in 1..Len(frames')
               PROVE  /\ Distinct(frames[i].combined)'
                      /\ \A m \in Elements(frames[i].combined)' : m \notin Earlier(frames, i)'
                      /\ Ordered(frames[i].combined, Earlier(frames, i))'
                      /\ Wanted(frames[i].combined, frames[i].module)'
                      /\ \A k \in 1..(frames'[i].next - 1) :
                             Imports(source, frames'[i].module)[k] \in Earlier(frames, i + 1)'
    BY DEF Contents
  <2>1. /\ Distinct(frames'[i].combined)
        /\ \A m \in Elements(frames'[i].combined) : m \notin Earlier(frames', i)
        /\ Ordered(frames'[i].combined, Earlier(frames', i))
        /\ Wanted(frames'[i].combined, frames'[i].module)
        /\ \A k \in 1..(frames'[i].next - 1) :
               Imports(source, frames'[i].module)[k] \in Earlier(frames', i + 1)
    BY DEF Contents
  <2>2. Distinct(frames[i].combined)'
    BY <2>1 DEF Distinct
  <2>3. Earlier(frames, i)' = Earlier(frames', i) /\ Earlier(frames, i + 1)' = Earlier(frames', i + 1)
    BY DEF Earlier, Elements
  <2>4. Elements(frames[i].combined)' = Elements(frames'[i].combined)
    BY DEF Elements
  <2>5. Ordered(frames[i].combined, Earlier(frames, i))'
    BY <1>1, <2>1, <2>3 DEF Ordered
  <2>6. Wanted(frames[i].combined, frames[i].module)'
    BY <1>1, <2>1 DEF Wanted
  <2> QED BY <2>1, <2>2, <2>3, <2>4, <2>5, <2>6
<1> QED BY <1>2, <1>3

(* The imports of the call on top.                                         *)
LEMMA TopFacts ==
    ASSUME Inductive, outcome = "loading", frames # <<>>
    PROVE  /\ frames \in Seq(Calls) /\ Len(frames) \in Nat \ {0}
           /\ Top \in Calls /\ Top.module \in Documents
           /\ Top.next \in Nat \ {0} /\ Top.combined \in Seq(Documents)
           /\ Len(Imports(source, Top.module)) \in Nat
<1>1. frames \in Seq(Calls) /\ source \in Sources
  BY DEF Inductive, Path
<1>2. Len(frames) \in Nat \ {0}
  BY <1>1, LenProperties, EmptySeq
<1>3. Top \in Calls
  BY <1>1, <1>2, ElementOfSeq DEF Top
<1>4. Top.module \in Documents /\ Top.next \in Nat \ {0} /\ Top.combined \in Seq(Documents)
  BY <1>3 DEF Calls
<1> QED BY <1>1, <1>2, <1>3, <1>4, SourceFacts

(* A module on its way in was named by its importer, or is the root.       *)
LEMMA EntersStep ==
    ASSUME Inductive, ImportEnters
    PROVE  Inductive'
<1> DEFINE n == Len(frames)
           m == Target
<1>1. /\ source \in Sources /\ outcome = "loading" /\ UNCHANGED <<source, loaded, outcome>>
      /\ Path(frames) /\ Contents(frames) /\ Accounted
      /\ m \in Modules /\ m \notin Loading /\ m \notin loaded
      /\ frames' = Append(frames, Call(m)) /\ read' = Append(read, m)
      /\ frames = <<>> \/ Importing
  BY DEF ImportEnters, Inductive, Fresh, Comes, AlreadyLoaded, WithRead
<1>2. frames \in Seq(Calls) /\ n \in Nat /\ (n = 0 <=> frames = <<>>)
  BY <1>1, LenProperties, EmptySeq DEF Path
<1>3. n = 0 => m = Root(source)
  BY <1>2 DEF Target
<1>4. n > 0 => /\ frames[n].next <= Len(Imports(source, frames[n].module))
               /\ m = Imports(source, frames[n].module)[frames[n].next]
  BY <1>1, <1>2 DEF Target, Importing, Top
<1>5. m \in Documents /\ m # Composition
  BY <1>1, SourceFacts DEF Documents
<1>6. \A i \in 1..n : frames[i].module # m
  BY <1>1, <1>5 DEF Loading
<1> HIDE DEF m
<1>7. /\ Path(frames') /\ Contents(frames') /\ Len(frames') = n + 1
      /\ \A i \in 1..n : frames'[i] = frames[i]
      /\ frames'[n + 1] = Call(m)
      /\ Earlier(frames', (n + 1) + 1) = Earlier(frames, n + 1)
  BY <1>1, <1>2, <1>3, <1>4, <1>5, <1>6, PushCall
<1>8. Path(frames)' /\ Contents(frames)'
  BY <1>1, <1>7, Carried
<1>9. Loading' = Loading \cup {m}
  <2>1. \A i \in 1..(n + 1) : i = n + 1 \/ i \in 1..n
    BY <1>2
  <2>2. n + 1 \in 1..(n + 1) /\ \A i \in 1..n : i \in 1..(n + 1)
    BY <1>2
  <2>3. Call(m).module = m
    BY DEF Call
  <2> QED BY <1>5, <1>7, <2>1, <2>2, <2>3 DEF Loading
<1>10. Accounted'
  <2>1. loaded' = Earlier(frames, Len(frames) + 1)' /\ loaded' \subseteq Modules
    <3>1. Earlier(frames, Len(frames) + 1)' = Earlier(frames', Len(frames') + 1)
      BY DEF Earlier, Elements
    <3> QED BY <1>1, <1>7, <3>1 DEF Accounted
  <2>2. \A i \in 1..(n + 1) : frames'[i].module \notin loaded'
    <3>1. Call(m).module = m
      BY DEF Call
    <3>2. \A i \in 1..(n + 1) : i = n + 1 \/ i \in 1..n
      BY <1>2
    <3> QED BY <1>1, <1>7, <3>1, <3>2 DEF Accounted
  <2>3. /\ read \in Seq(Modules) /\ read' \in Seq(Modules)
        /\ Elements(read') = Elements(read) \cup {m}
    <3>1. read \in Seq(Modules)
      BY <1>1 DEF Accounted
    <3>2. /\ read' \in Seq(Modules) /\ Len(read') = Len(read) + 1 /\ Len(read) \in Nat
          /\ read'[Len(read) + 1] = m /\ \A i \in 1..Len(read) : read'[i] = read[i]
      BY <1>1, <3>1, AppendProperties, LenProperties
    <3>3. /\ \A i \in 1..Len(read') : i = Len(read) + 1 \/ i \in 1..Len(read)
          /\ Len(read) + 1 \in 1..Len(read') /\ \A i \in 1..Len(read) : i \in 1..Len(read')
      BY <3>2
    <3> QED BY <3>1, <3>2, <3>3 DEF Elements
  <2>4. Elements(read)' = loaded' \cup Loading'
    BY <1>1, <1>9, <2>3 DEF Accounted, Elements
  <2> QED BY <1>7, <2>1, <2>2, <2>3, <2>4 DEF Accounted
<1>11. frames' # <<>>
  BY <1>2, <1>7
<1> QED BY <1>1, <1>8, <1>10, <1>11 DEF Inductive, LoadedExact

(* A module loaded before adds nothing to its importer.                    *)
LEMMA LoadedStep ==
    ASSUME Inductive, ImportLoaded
    PROVE  Inductive'
<1>1. /\ source \in Sources /\ outcome = "loading"
      /\ UNCHANGED <<source, loaded, read, outcome>>
      /\ Path(frames) /\ Contents(frames) /\ Accounted
      /\ Target \in loaded /\ frames' = Append(Below, MergedInto(Top, <<>>))
      /\ frames = <<>> \/ Importing
  BY DEF ImportLoaded, Inductive, Comes, AlreadyLoaded
<1>2. frames # <<>>
  BY <1>1 DEF Accounted, Earlier
<1>3. /\ frames \in Seq(Calls) /\ Len(frames) \in Nat /\ Len(frames) > 0
      /\ Importing
  BY <1>1, <1>2, TopFacts
<1>4. frames' = WithMerged(frames, <<>>)
  BY <1>1 DEF WithMerged, Below, Top
<1>5. /\ <<>> \in Seq(Documents) /\ Distinct(<<>>) /\ Elements(<<>>) = {}
      /\ Ordered(<<>>, Earlier(frames, Len(frames) + 1))
      /\ Wanted(<<>>, frames[Len(frames)].module)
  BY DEF Distinct, Elements, Ordered, Wanted
<1>6. /\ frames[Len(frames)].next <= Len(Imports(source, frames[Len(frames)].module))
      /\ Imports(source, frames[Len(frames)].module)[frames[Len(frames)].next]
             \in Earlier(frames, Len(frames) + 1)
  BY <1>1, <1>2, <1>3 DEF Importing, Top, Target, Accounted
<1>7. /\ Path(frames') /\ Contents(frames') /\ Len(frames') = Len(frames)
      /\ \A i \in 1..Len(frames) : frames'[i].module = frames[i].module
      /\ Earlier(frames', Len(frames) + 1) = Earlier(frames, Len(frames) + 1)
  BY <1>1, <1>3, <1>4, <1>5, <1>6, MergeTop
<1>8. Path(frames)' /\ Contents(frames)'
  BY <1>1, <1>7, Carried
<1>9. Loading' = Loading
  BY <1>7 DEF Loading
<1>10. Earlier(frames, Len(frames) + 1)' = Earlier(frames, Len(frames) + 1)
  <2>1. Earlier(frames, Len(frames) + 1)' = Earlier(frames', Len(frames') + 1)
    BY DEF Earlier, Elements
  <2> QED BY <1>7, <2>1
<1>11. Accounted'
  BY <1>1, <1>7, <1>9, <1>10 DEF Accounted, Elements
<1>12. frames' # <<>>
  BY <1>3, <1>7
<1> QED BY <1>1, <1>8, <1>11, <1>12 DEF Inductive, LoadedExact

(* All imports of a call that is done are in what has been merged.         *)
LEMMA DoneFacts ==
    ASSUME Inductive, outcome = "loading", frames # <<>>, ~Importing
    PROVE  LET n == Len(frames)
           IN  /\ Names(Top.module) \subseteq Earlier(frames, n) \cup Elements(Top.combined)
               /\ Earlier(frames, n + 1) = Earlier(frames, n) \cup Elements(Top.combined)
               /\ Top.module \notin Earlier(frames, n + 1)
               /\ Distinct(Top.combined) /\ Ordered(Top.combined, Earlier(frames, n))
               /\ Wanted(Top.combined, Top.module)
               /\ \A m \in Elements(Top.combined) : m \notin Earlier(frames, n)
<1> DEFINE n == Len(frames)
<1>1. /\ Path(frames) /\ Contents(frames) /\ Accounted
      /\ frames \in Seq(Calls) /\ n \in Nat \ {0} /\ Top = frames[n] /\ n \in 1..n
      /\ Top.next \in Nat \ {0} /\ Len(Imports(source, Top.module)) \in Nat
  BY TopFacts DEF Inductive, Top
<1>2. Earlier(frames, n + 1) = Earlier(frames, n) \cup Elements(Top.combined)
  BY <1>1, EarlierNext
<1>3. ASSUME NEW m \in Names(Top.module)
      PROVE  m \in Earlier(frames, n + 1)
  <2>1. PICK k \in 1..Len(Imports(source, Top.module)) : Imports(source, Top.module)[k] = m
    BY NamesAreImports
  <2>2. k \in 1..(Top.next - 1)
    BY <1>1, <2>1 DEF Importing
  <2> QED BY <1>1, <2>1, <2>2 DEF Contents
<1>4. Top.module \notin Earlier(frames, n + 1)
  BY <1>1 DEF Accounted
<1>5. /\ Distinct(Top.combined) /\ Ordered(Top.combined, Earlier(frames, n))
      /\ Wanted(Top.combined, Top.module)
      /\ \A m \in Elements(Top.combined) : m \notin Earlier(frames, n)
  BY <1>1 DEF Contents
<1> QED BY <1>2, <1>3, <1>4, <1>5

(* A loaded module's content goes to its importer.                         *)
LEMMA ReturnStep ==
    ASSUME Inductive, Return
    PROVE  Inductive'
<1> DEFINE n == Len(frames)
           t == Merged(Top)
<1>1. /\ source \in Sources /\ outcome = "loading" /\ UNCHANGED <<source, read, outcome>>
      /\ Path(frames) /\ Contents(frames) /\ Accounted /\ n > 1 /\ ~Importing
      /\ loaded' = NowLoaded(Top) /\ frames # <<>>
      /\ frames' = Append(SubSeq(Below, 1, Len(Below) - 1), MergedInto(Below[Len(Below)], t))
  BY DEF Return, Inductive
<1>2. /\ frames \in Seq(Calls) /\ n \in Nat \ {0, 1} /\ Top = frames[n]
      /\ Top.module \in Documents /\ Top.combined \in Seq(Documents)
  BY <1>1, TopFacts DEF Top
<1>3. /\ Path(Below) /\ Contents(Below) /\ Len(Below) = n - 1
      /\ \A i \in 1..(n - 1) : Below[i] = frames[i]
      /\ Earlier(Below, n) = Earlier(frames, n)
  BY <1>1, <1>2, PopTop DEF Below
<1>4. /\ Names(Top.module) \subseteq Earlier(frames, n) \cup Elements(Top.combined)
      /\ Earlier(frames, n + 1) = Earlier(frames, n) \cup Elements(Top.combined)
      /\ Top.module \notin Earlier(frames, n + 1)
      /\ Distinct(Top.combined) /\ Ordered(Top.combined, Earlier(frames, n))
      /\ Wanted(Top.combined, Top.module)
      /\ \A m \in Elements(Top.combined) : m \notin Earlier(frames, n)
  BY <1>1, DoneFacts
<1>5. /\ t \in Seq(Documents) /\ Len(t) = Len(Top.combined) + 1
      /\ t[Len(Top.combined) + 1] = Top.module
      /\ Elements(t) = Elements(Top.combined) \cup {Top.module}
      /\ Distinct(t) /\ Ordered(t, Earlier(frames, n))
      /\ \A i \in 1..Len(Top.combined) :
             \E j \in (i + 1)..(Len(Top.combined) + 1) : t[i] \in Names(t[j])
  BY <1>2, <1>4, MergedFacts DEF Merged
<1>6. /\ n - 1 \in 1..(n - 1) /\ (n - 1) + 1 = n /\ Below[n - 1] = frames[n - 1]
      /\ frames[n - 1].next <= Len(Imports(source, frames[n - 1].module))
      /\ Top.module = Imports(source, frames[n - 1].module)[frames[n - 1].next]
      /\ frames[n - 1].module \in Documents /\ frames[n - 1].next \in Nat \ {0}
  <2>1. n - 1 \in 1..(n - 1) /\ (n - 1) + 1 = n /\ n - 1 \in 1..n
    <3>1. n \in Nat /\ n > 1
      BY <1>1, <1>2
    <3> HIDE DEF n
    <3> QED BY <3>1
  <2>2. frames[n - 1] \in Calls
    BY <1>2, <2>1, ElementOfSeq
  <2> QED BY <1>1, <1>2, <1>3, <2>1, <2>2 DEF Path, Calls
<1>7. Top.module \in Names(frames[n - 1].module)
  BY <1>1, <1>6, SourceFacts
<1> HIDE DEF t
<1>8. Wanted(t, frames[n - 1].module)
  <2> SUFFICES ASSUME NEW i \in 1..Len(t), t[i] \notin Names(frames[n - 1].module)
               PROVE  \E j \in (i + 1)..Len(t) : t[i] \in Names(t[j])
    BY DEF Wanted
  <2>1. Len(Top.combined) \in Nat
    BY <1>2, LenProperties
  <2>2. i \in 1..Len(Top.combined)
    BY <1>5, <1>7, <2>1
  <2> QED BY <1>5, <2>2
<1>9. \A m \in Elements(t) : m \notin Earlier(frames, n)
  BY <1>4, <1>5
<1>10. frames' = WithMerged(Below, t)
  BY <1>1 DEF WithMerged
<1>11. /\ Path(frames') /\ Contents(frames') /\ Len(frames') = n - 1
       /\ \A i \in 1..(n - 1) : frames'[i].module = frames[i].module
       /\ Earlier(frames', n) = Earlier(frames, n) \cup Elements(t)
  <2>1. /\ Len(Below) > 0 /\ Len(Below) + 1 = n /\ Len(Below) = n - 1
        /\ Below[Len(Below)] = frames[n - 1]
    BY <1>2, <1>3, <1>6
  <2>2. Imports(source, Below[Len(Below)].module)[Below[Len(Below)].next]
            \in Earlier(Below, Len(Below) + 1) \cup Elements(t)
    BY <1>5, <1>6, <2>1
  <2>3. /\ Path(WithMerged(Below, t)) /\ Contents(WithMerged(Below, t))
        /\ Len(WithMerged(Below, t)) = Len(Below)
        /\ \A i \in 1..Len(Below) : WithMerged(Below, t)[i].module = Below[i].module
        /\ Earlier(WithMerged(Below, t), Len(Below) + 1)
               = Earlier(Below, Len(Below) + 1) \cup Elements(t)
    <3>1. /\ source \in Sources /\ Path(Below) /\ Contents(Below) /\ Len(Below) > 0
          /\ t \in Seq(Documents) /\ Distinct(t)
      BY <1>1, <1>3, <1>5, <2>1
    <3>2. /\ Earlier(Below, Len(Below) + 1) = Earlier(frames, n)
          /\ Below[Len(Below)] = frames[n - 1]
      BY <1>3, <2>1
    <3>3. /\ \A m \in Elements(t) : m \notin Earlier(Below, Len(Below) + 1)
          /\ Ordered(t, Earlier(Below, Len(Below) + 1))
          /\ Wanted(t, Below[Len(Below)].module)
          /\ Below[Len(Below)].next <= Len(Imports(source, Below[Len(Below)].module))
      BY <1>5, <1>6, <1>8, <1>9, <3>2
    <3> QED BY ONLY <3>1, <3>3, <2>2, MergeTop
  <2> QED BY <1>3, <1>10, <2>1, <2>3
<1>12. Path(frames)' /\ Contents(frames)'
  BY <1>1, <1>11, Carried
<1>13. Top.module \in Modules /\ Top.module # Composition
  BY <1>1, <1>2, SourceFacts DEF Path
<1>14. loaded' = loaded \cup {Top.module}
  BY <1>1, <1>13 DEF NowLoaded
<1>15. Earlier(frames, Len(frames) + 1)' = loaded'
  <2>1. Earlier(frames, Len(frames) + 1)' = Earlier(frames', Len(frames') + 1)
    BY DEF Earlier, Elements
  <2>2. Len(frames') + 1 = n
    BY <1>2, <1>11
  <2> QED BY <1>1, <1>4, <1>5, <1>11, <1>14, <2>1, <2>2 DEF Accounted
<1>16. Loading = Loading' \cup {Top.module}
  <2>1. \A i \in 1..n : i = n \/ i \in 1..(n - 1)
    BY <1>2
  <2>2. n \in 1..n /\ \A i \in 1..(n - 1) : i \in 1..n
    BY <1>2
  <2> QED BY <1>2, <1>11, <1>13, <2>1, <2>2 DEF Loading
<1>17. \A i \in 1..(n - 1) : frames'[i].module \notin loaded'
  <2> TAKE i \in 1..(n - 1)
  <2>1. i \in 1..n /\ n \in 1..n /\ i # n
    BY <1>2
  <2>2. frames[i].module # Top.module
    BY <1>1, <1>2, <2>1 DEF Path
  <2> QED BY <1>1, <1>11, <1>14, <2>1, <2>2 DEF Accounted
<1>18. Elements(read)' = loaded' \cup Loading'
  <2>1. Elements(read)' = Elements(read)
    BY <1>1 DEF Elements
  <2>2. Elements(read) = loaded \cup Loading
    BY <1>1 DEF Accounted
  <2> QED BY <1>14, <1>16, <2>1, <2>2
<1>19. Accounted'
  BY <1>1, <1>11, <1>13, <1>14, <1>15, <1>17, <1>18 DEF Accounted
<1>20. frames' # <<>>
  BY <1>2, <1>11
<1> QED BY <1>1, <1>12, <1>19, <1>20 DEF Inductive, LoadedExact

(* The root's content is the loaded document.                              *)
LEMMA ReturnRootStep ==
    ASSUME Inductive, ReturnRoot
    PROVE  Inductive'
<1>0. PICK t, c : t = Merged(Top) /\ c = Top.combined
  OBVIOUS
<1>1. /\ source \in Sources /\ outcome = "loading" /\ UNCHANGED <<source, read>>
      /\ outcome' = "loaded" /\ Len(frames) = 1 /\ ~Importing /\ Path(frames) /\ Accounted
      /\ frames' = <<[Top EXCEPT !.combined = t]>>
  BY <1>0 DEF ReturnRoot, Inductive
<1>2. frames # <<>>
  BY <1>1
<1>3. /\ Top \in Calls /\ Top.module \in Documents /\ c \in Seq(Documents)
      /\ Top = frames[1]
  BY <1>0, <1>1, <1>2, TopFacts DEF Top
<1>4. Top.module = Root(source)
  BY <1>1, <1>3 DEF Path
<1>5. Earlier(frames, 1) = {}
  BY DEF Earlier
<1>6. /\ Names(Top.module) \subseteq Elements(c)
      /\ Earlier(frames, 2) = Elements(c)
      /\ Top.module \notin Elements(c)
      /\ Distinct(c) /\ Ordered(c, {}) /\ Wanted(c, Top.module)
  <2>1. Len(frames) = 1 /\ Len(frames) + 1 = 2
    BY <1>1
  <2> QED BY <1>0, <1>1, <1>2, <1>5, <2>1, DoneFacts
<1>7. /\ t \in Seq(Documents) /\ Len(t) = Len(c) + 1 /\ t[Len(c) + 1] = Top.module
      /\ Elements(t) = Elements(c) \cup {Top.module}
      /\ Distinct(t) /\ Ordered(t, {})
      /\ \A i \in 1..Len(c) : \E j \in (i + 1)..(Len(c) + 1) : t[i] \in Names(t[j])
  <2>1. Merged(Top) = Append(c, Top.module)
    BY <1>0 DEF Merged
  <2>2. Top.module \in Documents /\ c \in Seq(Documents)
    BY <1>3
  <2>3. Names(Top.module) \subseteq {} \cup Elements(c)
    BY <1>6
  <2> QED BY <1>0, <1>6, <2>1, <2>2, <2>3, MergedFacts
<1>8. frames'[1].combined = t
  BY <1>1, <1>3 DEF Calls
<1>9. Len(c) \in Nat
  BY <1>3, LenProperties
<1>10. loaded = Elements(c) /\ loaded \subseteq Modules
  BY <1>1, <1>6 DEF Accounted
<1>11. Loading = {Top.module} \ {Composition}
  <2>1. 1..Len(frames) = {1}
    BY <1>1
  <2> QED BY <1>3, <2>1 DEF Loading
<1>12. Composition \notin Modules
  BY <1>1, SourceFacts
<1>13. Elements(read) = Elements(t) \ {Composition}
  BY <1>1, <1>7, <1>10, <1>11, <1>12 DEF Accounted
<1>14. /\ \A m : Names(m)' = Names(m)
       /\ Elements(read)' = Elements(read)
       /\ Document' = Elements(t)
  BY <1>1, <1>8 DEF Names, Elements, Document
<1>15. Cardinality(Elements(t)) = Len(t)
  BY <1>7, DistinctCardinality
<1>16. ASSUME NEW j \in 1..Len(t)
       PROVE  /\ Names(t[j]) \subseteq {t[i] : i \in 1..(j - 1)}
              /\ j < Len(t) => \E i \in (j + 1)..Len(t) : t[j] \in Names(t[i])
  <2>1. Names(t[j]) \subseteq {t[i] : i \in 1..(j - 1)}
    BY <1>7 DEF Ordered
  <2>2. j < Len(t) => j \in 1..Len(c)
    BY <1>7, <1>9
  <2> QED BY <1>7, <2>1, <2>2
<1>17. LoadedExact'
  <2>1. t[Len(t)] = Root(source)'
    BY <1>1, <1>4, <1>7
  <2>2. Elements(read)' = Document' \ {Composition}
    BY <1>13, <1>14
  <2>3. Cardinality(Document') = Len(t)
    BY <1>14, <1>15
  <2>4. \A j \in 1..Len(t) :
            /\ Names(t[j])' \subseteq {t[i] : i \in 1..(j - 1)}
            /\ j < Len(t) => \E i \in (j + 1)..Len(t) : t[j] \in Names(t[i])'
    <3> TAKE j \in 1..Len(t)
    <3>1. /\ Names(t[j])' = Names(t[j])
          /\ \A i \in 1..Len(t) : Names(t[i])' = Names(t[i])
      BY <1>14
    <3>2. \A i \in (j + 1)..Len(t) : Names(t[i])' = Names(t[i])
      BY <1>14
    <3> QED BY <1>16, <3>1, <3>2
  <2>5. ASSUME outcome' = "loaded", NEW merged, merged = frames'[1].combined
        PROVE  /\ merged[Len(merged)] = Root(source)'
               /\ Cardinality(Document') = Len(merged)
               /\ \A j \in 1..Len(merged) :
                      /\ Names(merged[j])' \subseteq {merged[i] : i \in 1..(j - 1)}
                      /\ j < Len(merged) =>
                             \E i \in (j + 1)..Len(merged) : merged[j] \in Names(merged[i])'
    <3>1. merged = t
      BY <1>8, <2>5
    <3>2. ASSUME NEW j \in 1..Len(merged)
          PROVE  /\ Names(merged[j])' \subseteq {merged[i] : i \in 1..(j - 1)}
                 /\ j < Len(merged) =>
                        \E i \in (j + 1)..Len(merged) : merged[j] \in Names(merged[i])'
      BY <2>4, <3>1, Zenon
    <3> QED BY <2>1, <2>3, <3>1, <3>2
  <2> QED BY <1>1, <2>2, <2>5 DEF LoadedExact
<1> QED BY <1>1, <1>17 DEF Inductive

(* The modules from the one imported again to the top import one another   *)
(* in a circle, and each has been read.                                    *)
LEMMA CycleStep ==
    ASSUME Inductive, ImportCycle
    PROVE  Inductive'
<1> DEFINE n == Len(frames)
<1>1. /\ source \in Sources /\ outcome = "loading" /\ UNCHANGED <<source, read>>
      /\ outcome' = "import_cycle" /\ Path(frames) /\ Accounted
      /\ frames = <<>> \/ Importing
      /\ Target \in Loading
  BY DEF ImportCycle, Comes, Refuse, Inductive
<1>2. PICK k \in 1..n : frames[k].module = Target
  BY <1>1 DEF Loading
<1>3. frames # <<>> /\ Importing
  <2>1. frames = <<>> => 1..n = {}
    OBVIOUS
  <2> QED BY <1>1, <1>2, <2>1
<1>4. n \in Nat \ {0} /\ Top = frames[n] /\ Top.next \in Nat \ {0} /\ frames \in Seq(Calls)
  BY <1>1, <1>3, TopFacts DEF Top
<1>5. Target = Imports(source, Top.module)[Top.next] /\ Top.next <= Len(Imports(source, Top.module))
  BY <1>3 DEF Target, Importing
<1> HIDE DEF n
<1>0. PICK S : S = {frames[i].module : i \in k..n}
  OBVIOUS
<1>6. \A i \in 1..n : frames[i].module \in Documents /\ frames[i].next \in Nat \ {0}
  <2> TAKE i \in 1..n
  <2>1. frames[i] \in Calls
    BY <1>4, ElementOfSeq DEF n
  <2> QED BY <2>1 DEF Calls
<1>7. Target \in Names(frames[n].module)
  <2>1. n \in 1..n
    BY <1>4
  <2> QED BY <1>1, <1>4, <1>5, <1>6, <2>1, SourceFacts
<1>8. \A i \in 1..(n - 1) : frames[i + 1].module \in Names(frames[i].module)
  <2> TAKE i \in 1..(n - 1)
  <2>1. i \in 1..n
    BY <1>4
  <2>2. /\ frames[i].next <= Len(Imports(source, frames[i].module))
        /\ frames[i + 1].module = Imports(source, frames[i].module)[frames[i].next]
    BY <1>1 DEF Path, n
  <2> QED BY <1>1, <1>6, <2>1, <2>2, SourceFacts
<1>9. Circular(S)
  <2>1. k \in k..n
    BY <1>2, <1>4
  <2>2. ASSUME NEW i \in k..n PROVE Names(frames[i].module) \cap S # {}
    <3>1. CASE i = n
      <4>1. Target \in S
        BY <1>0, <1>2, <2>1
      <4>2. Target \in Names(frames[i].module)
        BY <1>7, <3>1
      <4> QED BY <4>1, <4>2
    <3>2. CASE i # n
      <4>1. i \in 1..(n - 1) /\ i + 1 \in k..n
        BY <1>2, <1>4, <3>2
      <4>2. frames[i + 1].module \in S
        BY <1>0, <4>1
      <4> QED BY <1>8, <4>1, <4>2
    <3> QED BY <3>1, <3>2
  <2> QED BY <1>0, <2>1, <2>2 DEF Circular
<1>10. S \subseteq Elements(read)
  <2> SUFFICES ASSUME NEW i \in k..n PROVE frames[i].module \in Loading
    BY <1>0, <1>1 DEF Accounted
  <2>1. i \in 1..n
    BY <1>2, <1>4
  <2>2. CASE i = k
    BY <1>1, <1>2, <2>2
  <2>3. CASE i # k
    <3>1. i \in 2..n
      BY <1>2, <1>4, <2>3
    <3>2. frames[i].module \in Modules
      BY <1>1, <3>1 DEF Path, n
    <3> QED BY <1>1, <2>1, <3>2, SourceFacts DEF Loading, n
  <2> QED BY <2>2, <2>3
<1>11. Circular(S)' /\ S \subseteq Elements(read)'
  BY <1>1, <1>9, <1>10 DEF Circular, Names, Elements
<1>12. LoadedExact'
  <2>1. S \in SUBSET Elements(read)'
    BY <1>11
  <2> QED BY <1>1, <1>11, <2>1 DEF LoadedExact
<1> QED BY <1>1, <1>12 DEF Inductive

LEMMA InductiveNext == Inductive /\ [Next]_vars => Inductive'
<1> SUFFICES ASSUME Inductive, [Next]_vars PROVE Inductive'
  OBVIOUS
<1>1. CASE ImportUnresolved
  BY <1>1 DEF ImportUnresolved, Refuse, Inductive, LoadedExact
<1>2. CASE ImportMissing
  BY <1>2 DEF ImportMissing, Refuse, Inductive, LoadedExact
<1>3. CASE ImportInvalid
  BY <1>3 DEF ImportInvalid, Refuse, Inductive, LoadedExact
<1>4. CASE UNCHANGED vars
  <2>1. UNCHANGED <<source, frames, loaded, read, outcome>>
    BY <1>4 DEF vars
  <2>2. outcome = "loading" => Path(frames)' /\ Contents(frames)'
    BY <2>1, Carried DEF Inductive
  <2>3. UNCHANGED Accounted
    BY <2>1 DEF Accounted, Earlier, Elements, Loading
  <2>4. UNCHANGED LoadedExact
    BY <2>1 DEF LoadedExact, Names, Document, Elements, Circular
  <2> QED BY <2>1, <2>2, <2>3, <2>4 DEF Inductive
<1> QED BY <1>1, <1>2, <1>3, <1>4, EntersStep, LoadedStep, ReturnStep, ReturnRootStep, CycleStep
        DEF Next

THEOREM InductiveCorrect == Spec => []Inductive
BY InductiveInit, InductiveNext, PTL DEF Spec

(* For every set of modules and sources: what is loaded is the root and    *)
(* all it reaches, once each and in load order.                            *)
THEOREM LoadedCorrect == Spec => []LoadedExact
<1>1. Inductive => LoadedExact
  BY DEF Inductive
<1> QED BY <1>1, InductiveCorrect, PTL

-----------------------------------------------------------------------------
(* Every nonempty set of numbers has a least one.                          *)
LEMMA LeastNumber ==
    ASSUME NEW S \in SUBSET Nat, S # {}
    PROVE  \E m \in S : \A k \in S : m <= k
<1> DEFINE R == OpToRel(<, Nat)
<1>1. IsWellFoundedOn(R, Nat)
  BY NatLessThanWellFounded
<1>2. \A x, y \in Nat : x < y => <<x, y>> \in R
  BY DEF OpToRel
<1> HIDE DEF R
<1>3. PICK m \in S : \A k \in S : <<k, m>> \notin R
  BY <1>1, WFMin
<1>4. \A k \in S : m <= k
  <2> TAKE k \in S
  <2>1. k \in Nat /\ m \in Nat /\ ~(k < m)
    BY <1>2, <1>3
  <2> QED BY <2>1
<1> QED BY <1>4

(* What is defined by going through the numbers up to N, from `start` on   *)
(* by `h`, is defined.                                                     *)
Follows(N, start, h, f) ==
    f[0] = start /\ \A k \in 1..N : f[k] = h[<<k, f[k - 1]>>]

LEMMA Recursion ==
    ASSUME NEW N \in Nat, NEW V, NEW start \in V, NEW h \in [(1..N) \X V -> V]
    PROVE  \E f \in [0..N -> V] : Follows(N, start, h, f)
<1> DEFINE Undefined == {n \in 0..N : ~\E f \in [0..n -> V] : Follows(n, start, h, f)}
<1> SUFFICES ASSUME Undefined # {} PROVE FALSE
  <2>1. N \notin Undefined => \E f \in [0..N -> V] : Follows(N, start, h, f)
    OBVIOUS
  <2> QED BY <2>1
<1>1. Undefined \in SUBSET Nat
  OBVIOUS
<1> HIDE DEF Undefined
<1>2. PICK m \in Undefined : \A k \in Undefined : m <= k
  BY <1>1, LeastNumber
<1>3. /\ m \in 0..N /\ m \in Nat
      /\ \A f \in [0..m -> V] : ~Follows(m, start, h, f)
  BY <1>1, <1>2 DEF Undefined
<1>4. CASE m = 0
  <2> DEFINE f == [k \in 0..m |-> start]
  <2>1. f \in [0..m -> V] /\ f[0] = start /\ 1..m = {}
    BY <1>4
  <2>2. Follows(m, start, h, f)
    BY <2>1 DEF Follows
  <2> QED BY <1>3, <2>1, <2>2
<1>5. CASE m # 0
  <2>1. m - 1 \in 0..N /\ m - 1 \in Nat /\ m - 1 < m
    BY <1>3, <1>5
  <2>2. m - 1 \notin Undefined
    BY <1>2, <1>3, <2>1
  <2>3. PICK g \in [0..(m - 1) -> V] : Follows(m - 1, start, h, g)
    BY <2>1, <2>2 DEF Undefined
  <2>4. g[m - 1] \in V /\ h[<<m, g[m - 1]>>] \in V
    BY <1>3, <1>5, <2>1, <2>3
  <2> DEFINE f == [k \in 0..m |-> IF k = m THEN h[<<m, g[m - 1]>>] ELSE g[k]]
  <2>5. \A k \in 0..(m - 1) : f[k] = g[k] /\ g[k] \in V
    BY <1>3, <2>1, <2>3
  <2>6. f[m] = h[<<m, g[m - 1]>>]
    BY <1>3
  <2>7. f \in [0..m -> V]
    BY <1>3, <2>4, <2>5
  <2> HIDE DEF f
  <2>8. f[0] = start
    BY <2>1, <2>3, <2>5 DEF Follows
  <2>9. \A k \in 1..m : f[k] = h[<<k, f[k - 1]>>]
    <3> TAKE k \in 1..m
    <3>1. CASE k = m
      BY <1>3, <2>1, <2>5, <2>6, <3>1
    <3>2. CASE k # m
      <4>1. k \in 1..(m - 1) /\ k - 1 \in 0..(m - 1) /\ k \in 0..(m - 1)
        BY <1>3, <3>2
      <4>2. f[k] = g[k] /\ f[k - 1] = g[k - 1]
        BY <2>5, <4>1
      <4> QED BY <2>3, <4>1, <4>2 DEF Follows
    <3> QED BY <3>1, <3>2
  <2> QED BY <1>3, <2>7, <2>8, <2>9 DEF Follows
<1> QED BY <1>4, <1>5

(* A subsequence has what the sequence has at the places, each place once. *)
Picks(s, places, r, f) ==
    /\ f \in [1..Len(r) -> places]
    /\ \A k \in 1..Len(r) : r[k] = s[f[k]]
    /\ \A k, l \in 1..Len(r) : f[k] = f[l] => k = l
    /\ \A i \in places : \E k \in 1..Len(r) : f[k] = i

LEMMA PicksNone ==
    ASSUME NEW s
    PROVE  \E f : Picks(s, {}, <<>>, f)
<1> DEFINE f == [k \in 1..0 |-> k]
<1>1. Len(<<>>) = 0 /\ 1..0 = {}
  OBVIOUS
<1>2. f \in [1..Len(<<>>) -> {}]
  BY <1>1
<1> QED BY <1>1, <1>2 DEF Picks

LEMMA PicksOneMore ==
    ASSUME NEW X, NEW s \in Seq(X), NEW n \in 1..Len(s), NEW places \in SUBSET (1..(n - 1)),
           NEW r \in Seq(X), NEW f, Picks(s, places, r, f)
    PROVE  \E g : Picks(s, places \cup {n}, Append(r, s[n]), g)
<1> DEFINE L == Len(r)
           g == [k \in 1..(L + 1) |-> IF k = L + 1 THEN n ELSE f[k]]
           t == Append(r, s[n])
<1>1. L \in Nat /\ s[n] \in X /\ n \in Nat
  OBVIOUS
<1>2. t \in Seq(X) /\ Len(t) = L + 1 /\ t[L + 1] = s[n] /\ \A k \in 1..L : t[k] = r[k]
  BY <1>1, AppendProperties
<1>3. \A k \in 1..L : g[k] = f[k] /\ f[k] \in places /\ f[k] # n
  <2>1. \A i \in places : i # n
    BY <1>1
  <2>2. \A k \in 1..L : f[k] \in places
    BY DEF Picks
  <2>3. \A k \in 1..L : k \in 1..(L + 1) /\ k # L + 1
    BY <1>1
  <2> QED BY <2>1, <2>2, <2>3
<1>4. g[L + 1] = n
  BY <1>1
<1>5. g \in [1..(L + 1) -> places \cup {n}]
  <2>1. \A k \in 1..(L + 1) : k # L + 1 => k \in 1..L
    BY <1>1
  <2> QED BY <1>3, <1>4, <2>1
<1> HIDE DEF g, t, L
<1>6. \A k \in 1..(L + 1) : k \in 1..L \/ k = L + 1
  BY <1>1
<1>7. \A k \in 1..(L + 1) : t[k] = s[g[k]]
  BY <1>2, <1>3, <1>4, <1>6 DEF Picks, L
<1>8. \A k, l \in 1..(L + 1) : g[k] = g[l] => k = l
  BY <1>3, <1>4, <1>6 DEF Picks, L
<1>9. \A i \in places \cup {n} : \E k \in 1..(L + 1) : g[k] = i
  <2> TAKE i \in places \cup {n}
  <2>1. CASE i = n
    BY <1>1, <1>4, <2>1
  <2>2. CASE i \in places
    <3>1. PICK k \in 1..L : f[k] = i
      BY <2>2 DEF Picks, L
    <3> QED BY <1>1, <1>3, <3>1
  <2> QED BY <2>1, <2>2
<1> QED BY <1>2, <1>5, <1>7, <1>8, <1>9 DEF Picks, t

LEMMA Subsequences ==
    ASSUME NEW X, NEW s \in Seq(X), NEW places \in SUBSET (1..Len(s))
    PROVE  /\ Subsequence(s, places) \in Seq(X)
           /\ \E f : Picks(s, places, Subsequence(s, places), f)
<1> DEFINE N == Len(s)
           h == [x \in (1..N) \X Seq(X) |-> IF x[1] \in places THEN Append(x[2], s[x[1]]) ELSE x[2]]
           By(u) == [k \in 0..N |-> IF k = 0 THEN <<>>
                                    ELSE IF k \in places THEN Append(u[k - 1], s[k]) ELSE u[k - 1]]
<1>1. N \in Nat /\ <<>> \in Seq(X) /\ \A k \in 1..N : s[k] \in X
  OBVIOUS
<1>2. \A k \in 1..N, r \in Seq(X) :
        /\ h[<<k, r>>] = IF k \in places THEN Append(r, s[k]) ELSE r
        /\ h[<<k, r>>] \in Seq(X)
  <2> TAKE k \in 1..N, r \in Seq(X)
  <2>1. <<k, r>> \in (1..N) \X Seq(X)
    OBVIOUS
  <2>2. h[<<k, r>>] = IF k \in places THEN Append(r, s[k]) ELSE r
    BY <2>1
  <2>3. Append(r, s[k]) \in Seq(X)
    BY <1>1, AppendProperties
  <2> QED BY <2>2, <2>3
<1>3. h \in [(1..N) \X Seq(X) -> Seq(X)]
  BY <1>1, <1>2, AppendProperties
<1> HIDE DEF h
<1>4. PICK u \in [0..N -> Seq(X)] : Follows(N, <<>>, h, u)
  BY <1>1, <1>3, Recursion
<1>5. u = By(u)
  <2>1. u = [k \in 0..N |-> u[k]]
    BY <1>4
  <2>2. \A k \in 0..N : u[k] = IF k = 0 THEN <<>>
                               ELSE IF k \in places THEN Append(u[k - 1], s[k]) ELSE u[k - 1]
    <3> TAKE k \in 0..N
    <3>1. CASE k = 0
      BY <1>4, <3>1 DEF Follows
    <3>2. CASE k # 0
      <4>1. k \in 1..N /\ k - 1 \in 0..N
        BY <1>1, <3>2
      <4>2. u[k - 1] \in Seq(X) /\ u[k] = h[<<k, u[k - 1]>>]
        BY <1>4, <4>1 DEF Follows
      <4> QED BY <1>2, <3>2, <4>1, <4>2
    <3> QED BY <3>1, <3>2
  <2> QED BY <2>1, <2>2
<1> DEFINE w == CHOOSE v : v = By(v)
<1>6. w = By(w)
  BY <1>5
<1>7. Subsequence(s, places) = w[N]
  BY DEF Subsequence
<1>8. /\ w[0] = <<>>
      /\ \A k \in 1..N : w[k] = IF k \in places THEN Append(w[k - 1], s[k]) ELSE w[k - 1]
  <2> HIDE DEF w
  <2>1. \A k \in 0..N : w[k] = By(w)[k]
    BY <1>6
  <2>2. \A k \in 1..N : k \in 0..N /\ k # 0
    BY <1>1
  <2> QED BY <1>1, <2>1, <2>2
<1> HIDE DEF w, By
<1> DEFINE Missed == {n \in 0..N : ~(/\ w[n] \in Seq(X)
                                     /\ \E f : Picks(s, places \cap (1..n), w[n], f))}
<1>9. SUFFICES ASSUME Missed # {} PROVE FALSE
  <2>0. N \in 0..N
    BY <1>1
  <2>1. N \in 0..N /\ places \cap (1..N) = places
    BY <2>0
  <2>2. N \notin Missed => /\ w[N] \in Seq(X)
                           /\ \E f : Picks(s, places \cap (1..N), w[N], f)
    BY <2>1
  <2>3. N \notin Missed => /\ w[N] \in Seq(X) /\ \E f : Picks(s, places, w[N], f)
    BY <2>1, <2>2
  <2> HIDE DEF Missed
  <2> QED BY <1>7, <2>3
<1>10. Missed \in SUBSET Nat
  BY <1>1
<1> HIDE DEF Missed
<1>11. PICK n \in Missed : \A k \in Missed : n <= k
  BY <1>9, <1>10, LeastNumber
<1>12. /\ n \in 0..N
       /\ ~(w[n] \in Seq(X) /\ \E f : Picks(s, places \cap (1..n), w[n], f))
  BY <1>11 DEF Missed
<1>13. CASE n = 0
  <2>1. places \cap (1..n) = {} /\ w[n] = <<>>
    BY <1>8, <1>13
  <2> QED BY <1>1, <1>12, <2>1, PicksNone
<1>14. CASE n # 0
  <2>1. n \in 1..N /\ n - 1 \in 0..N /\ n - 1 < n
    BY <1>1, <1>12, <1>14
  <2>2. n - 1 \notin Missed
    BY <1>1, <1>11, <2>1
  <2>3. w[n - 1] \in Seq(X) /\ \E f : Picks(s, places \cap (1..(n - 1)), w[n - 1], f)
    BY <2>1, <2>2 DEF Missed
  <2>4. PICK f : Picks(s, places \cap (1..(n - 1)), w[n - 1], f)
    BY <2>3
  <2>5. CASE n \in places
    <3>1. places \cap (1..n) = (places \cap (1..(n - 1))) \cup {n}
      BY <2>1, <2>5
    <3>2. w[n] = Append(w[n - 1], s[n])
      BY <1>8, <2>1, <2>5
    <3>3. places \cap (1..(n - 1)) \in SUBSET (1..(n - 1))
      OBVIOUS
    <3>4. \E g : Picks(s, places \cap (1..n), w[n], g)
      <4> DEFINE before == places \cap (1..(n - 1))
                 r == w[n - 1]
      <4>1. /\ n \in 1..Len(s) /\ before \in SUBSET (1..(n - 1)) /\ r \in Seq(X)
            /\ Picks(s, before, r, f)
        BY <2>1, <2>3, <2>4
      <4> HIDE DEF before, r
      <4>2. \E g : Picks(s, before \cup {n}, Append(r, s[n]), g)
        BY <4>1, PicksOneMore
      <4> USE DEF before, r
      <4> QED BY <3>1, <3>2, <4>2
    <3>5. w[n] \in Seq(X)
      BY <1>1, <2>1, <2>3, <3>2, AppendProperties
    <3> QED BY <1>12, <3>4, <3>5
  <2>6. CASE n \notin places
    <3>1. places \cap (1..n) = places \cap (1..(n - 1))
      BY <2>1, <2>6
    <3>2. w[n] = w[n - 1]
      BY <1>8, <2>1, <2>6
    <3> QED BY <1>12, <2>3, <3>1, <3>2
  <2> QED BY <2>5, <2>6
<1> QED BY <1>13, <1>14

(* Sequences put one after the other are a sequence.                       *)
LEMMA Flattened ==
    ASSUME NEW X, NEW s \in Seq(Seq(X))
    PROVE  FlattenSeq(s) \in Seq(X)
<1> DEFINE N == Len(s)
           h == [x \in (1..N) \X Seq(X) |-> IF x[1] = 1 THEN s[1] ELSE x[2] \o s[x[1]]]
           By(u) == [k \in 1..N |-> IF k = 1 THEN s[k] ELSE u[k - 1] \o s[k]]
<1>1. N \in Nat /\ <<>> \in Seq(X) /\ \A k \in 1..N : s[k] \in Seq(X)
  OBVIOUS
<1>2. CASE N = 0
  <2>1. s = <<>>
    BY <1>2, EmptySeq
  <2>2. FlattenSeq(s) = s
    BY <1>2 DEF FlattenSeq
  <2> QED BY <1>1, <2>1, <2>2
<1>3. CASE N # 0
  <2>1. \A k \in 1..N, r \in Seq(X) :
          /\ h[<<k, r>>] = IF k = 1 THEN s[1] ELSE r \o s[k]
          /\ h[<<k, r>>] \in Seq(X)
    <3> TAKE k \in 1..N, r \in Seq(X)
    <3>1. <<k, r>> \in (1..N) \X Seq(X)
      OBVIOUS
    <3>2. h[<<k, r>>] = IF k = 1 THEN s[1] ELSE r \o s[k]
      BY <3>1
    <3>3. r \o s[k] \in Seq(X) /\ s[k] \in Seq(X)
      BY <1>1, ConcatProperties
    <3> QED BY <3>2, <3>3
  <2>2. h \in [(1..N) \X Seq(X) -> Seq(X)]
    <3>1. \A x \in (1..N) \X Seq(X) : /\ x[1] \in 1..N /\ x[2] \in Seq(X)
                                      /\ x[2] \o s[x[1]] \in Seq(X) /\ s[x[1]] \in Seq(X)
      BY <1>1, ConcatProperties
    <3>2. \A x \in (1..N) \X Seq(X) : x[1] = 1 => s[1] \in Seq(X)
      BY <3>1
    <3> QED BY <3>1, <3>2
  <2> HIDE DEF h
  <2>3. PICK u \in [0..N -> Seq(X)] : Follows(N, <<>>, h, u)
    BY <1>1, <2>2, Recursion
  <2> DEFINE g == [k \in 1..N |-> u[k]]
  <2>4. \A k \in 1..N : u[k] = IF k = 1 THEN s[k] ELSE u[k - 1] \o s[k]
    <3> TAKE k \in 1..N
    <3>1. k - 1 \in 0..N
      BY <1>1
    <3>2. u[k - 1] \in Seq(X) /\ u[k] = h[<<k, u[k - 1]>>]
      BY <2>3, <3>1 DEF Follows
    <3> QED BY <2>1, <3>2
  <2>5. g = By(g)
    <3>1. \A k \in 1..N : k # 1 => g[k - 1] = u[k - 1]
      BY <1>1
    <3>2. \A k \in 1..N : g[k] = IF k = 1 THEN s[k] ELSE g[k - 1] \o s[k]
      BY <2>4, <3>1
    <3>3. g = [k \in 1..N |-> g[k]]
      OBVIOUS
    <3> HIDE DEF g
    <3> QED BY <3>2, <3>3
  <2> DEFINE w == CHOOSE v : v = By(v)
  <2>6. w = By(w)
    BY <2>5
  <2>7. FlattenSeq(s) = w[N]
    BY <1>3 DEF FlattenSeq
  <2> HIDE DEF w
  <2>8. \A k \in 1..N : w[k] = IF k = 1 THEN s[k] ELSE w[k - 1] \o s[k]
    <3>1. \A k \in 1..N : w[k] = By(w)[k]
      BY <2>6
    <3> QED BY <3>1
  <2> HIDE DEF By
  <2> DEFINE Missed == {n \in 1..N : w[n] \notin Seq(X)}
  <2>9. SUFFICES ASSUME Missed # {} PROVE FALSE
    <3>1. N \in 1..N
      BY <1>1, <1>3
    <3> QED BY <2>7, <3>1
  <2>10. Missed \in SUBSET Nat
    BY <1>1
  <2> HIDE DEF Missed
  <2>11. PICK n \in Missed : \A k \in Missed : n <= k
    BY <2>9, <2>10, LeastNumber
  <2>12. n \in 1..N /\ w[n] \notin Seq(X) /\ s[n] \in Seq(X)
    BY <1>1, <2>11 DEF Missed
  <2>13. CASE n = 1
    BY <2>8, <2>12, <2>13
  <2>14. CASE n # 1
    <3>1. n - 1 \in 1..N /\ n - 1 < n /\ n - 1 \in Nat
      BY <1>1, <2>12, <2>14
    <3>2. n - 1 \notin Missed
      BY <2>10, <2>11, <3>1
    <3>3. w[n - 1] \in Seq(X)
      BY <3>1, <3>2 DEF Missed
    <3>4. w[n] = w[n - 1] \o s[n]
      BY <2>8, <2>12, <2>14
    <3> QED BY <2>12, <3>3, <3>4, ConcatProperties
  <2> QED BY <2>13, <2>14
<1> QED BY <1>2, <1>3

(* At most one thing is in a set of at most one.                           *)
LEMMA AtMostOne ==
    ASSUME NEW S, IsFiniteSet(S), Cardinality(S) <= 1, NEW x \in S, NEW y \in S
    PROVE  x = y
<1>1. Cardinality(S) \in Nat
  BY FS_CardinalityType
<1>2. Cardinality(S) # 0
  BY FS_EmptySet
<1>3. Cardinality(S) = 1
  BY <1>1, <1>2
<1> QED BY <1>3, FS_Singleton

(* A bounded set of numbers has a least and a largest one.                 *)
LEMMA LeastAndLargest ==
    ASSUME NEW n \in Nat, NEW S \in SUBSET (1..n), S # {}
    PROVE  Min(S) \in S /\ Max(S) \in S
<1>1. \E m \in S : \A k \in S : m <= k
  BY LeastNumber
<1> DEFINE R == {n - k : k \in S}
<1>2. R \in SUBSET Nat /\ R # {}
  <2>1. \A k \in S : k \in 1..n /\ n - k \in Nat
    OBVIOUS
  <2> QED BY <2>1
<1> HIDE DEF R
<1>3. PICK r \in R : \A k \in R : r <= k
  BY <1>2, LeastNumber
<1>4. PICK m \in S : r = n - m
  BY <1>3 DEF R
<1>5. \A k \in S : m >= k
  <2> TAKE k \in S
  <2>1. n - k \in R
    BY DEF R
  <2>2. n - m <= n - k
    BY <1>3, <1>4, <2>1
  <2> QED BY <2>2
<1> QED BY <1>1, <1>5 DEF Min, Max

-----------------------------------------------------------------------------
(* The version read on a day, of parameters that repeat one another.       *)
Applies(v, day) == v.from <= day /\ (v.to = Open \/ day <= v.to)

Versions(vs) == \A v \in vs : v.from \in Int /\ v.to \in Int

Compatible(vs, ws) == \A v \in vs, w \in ws : VersionsOverlap(v, w) => v.value = w.value

(* Of versions that apply on a day, one starts last: none starts later.    *)
LEMMA LastOne ==
    ASSUME NEW vs, Versions(vs), NEW day \in Int, NEW v \in vs, Applies(v, day)
    PROVE  \E w \in vs : Applies(w, day) /\ \A u \in vs : Applies(u, day) => u.from <= w.from
<1> DEFINE R == {day - u.from : u \in {x \in vs : Applies(x, day)}}
<1>1. R \in SUBSET Nat /\ R # {}
  BY DEF Versions, Applies
<1> HIDE DEF R
<1>2. PICK r \in R : \A k \in R : r <= k
  BY <1>1, LeastNumber
<1>3. PICK w \in vs : Applies(w, day) /\ r = day - w.from
  BY <1>2 DEF R
<1>4. ASSUME NEW u \in vs, Applies(u, day) PROVE u.from <= w.from
  <2>1. day - u.from \in R
    BY <1>4 DEF R
  <2>2. day - w.from <= day - u.from /\ u.from \in Int /\ w.from \in Int
    BY <1>2, <1>3, <2>1 DEF Versions
  <2> QED BY <2>2
<1> QED BY <1>3, <1>4

LEMMA GivenIs ==
    ASSUME NEW vs, NEW day
    PROVE  \A x : x \in Given(vs, day) <=>
             \E w \in vs : /\ Applies(w, day) /\ x = w.value
                           /\ \A u \in vs : Applies(u, day) => u.from <= w.from
BY DEF Given, Applies

(* Read from all of them together, they give what each gives by itself.    *)
LEMMA GivenTogether ==
    ASSUME NEW V, NEW day \in Int,
           \A vs \in V : Versions(vs),
           \A vs, ws \in V : vs = ws \/ Compatible(vs, ws)
    PROVE  Given(UNION V, day) = UNION {Given(vs, day) : vs \in V}
<1>1. ASSUME NEW vs \in V, NEW ws \in V, vs # ws, NEW v \in vs, NEW w \in ws,
             Applies(v, day), Applies(w, day)
      PROVE  v.value = w.value
  <2>1. v.from \in Int /\ v.to \in Int /\ w.from \in Int /\ w.to \in Int
    BY <1>1 DEF Versions
  <2>2. VersionsOverlap(v, w)
    BY <1>1, <2>1 DEF Applies, VersionsOverlap
  <2> QED BY <1>1, <2>2 DEF Compatible
<1>2. ASSUME NEW x \in Given(UNION V, day)
      PROVE  \E vs \in V : x \in Given(vs, day)
  <2>1. PICK w \in UNION V : /\ Applies(w, day) /\ x = w.value
                             /\ \A u \in UNION V : Applies(u, day) => u.from <= w.from
    BY <1>2, GivenIs
  <2>2. PICK vs \in V : w \in vs
    BY <2>1
  <2> QED BY <2>1, <2>2, GivenIs
<1>3. ASSUME NEW vs \in V, NEW x \in Given(vs, day)
      PROVE  x \in Given(UNION V, day)
  <2>1. PICK w \in vs : /\ Applies(w, day) /\ x = w.value
                        /\ \A u \in vs : Applies(u, day) => u.from <= w.from
    BY <1>3, GivenIs
  <2>2. CASE \A ws \in V : \A u \in ws : Applies(u, day) => ws = vs
    <3>1. \A u \in UNION V : Applies(u, day) => u \in vs
      BY <2>2
    <3> QED BY <2>1, <3>1, GivenIs
  <2>3. CASE \E ws \in V : \E u \in ws : Applies(u, day) /\ ws # vs
    <3>1. PICK ws \in V : \E u \in ws : Applies(u, day) /\ ws # vs
      BY <2>3
    <3> PICK u \in ws : Applies(u, day) /\ ws # vs
      BY <3>1
    <3>2. u.value = x
      BY <1>1, <2>1
    <3>3. \A ts \in V : \A t \in ts : Applies(t, day) => t.value = x
      <4> TAKE ts \in V
      <4> TAKE t \in ts
      <4> HAVE Applies(t, day)
      <4>1. CASE ts # vs
        BY <1>1, <2>1, <4>1
      <4>2. CASE ts = vs
        BY <1>1, <3>2, <4>2
      <4> QED BY <4>1, <4>2
    <3>4. Versions(UNION V) /\ w \in UNION V
      BY <2>1 DEF Versions
    <3>5. PICK l \in UNION V : /\ Applies(l, day)
                               /\ \A t \in UNION V : Applies(t, day) => t.from <= l.from
      BY <2>1, <3>4, LastOne
    <3>6. l.value = x
      BY <3>3, <3>5
    <3> QED BY <3>5, <3>6, GivenIs
  <2> QED BY <2>2, <2>3
<1> QED BY <1>2, <1>3

-----------------------------------------------------------------------------
(* The declarations merged into the root's document.                       *)
Merging == source \in Sources /\ frames[1].combined \in Seq(Documents)

LEMMA DeclarationsWellFormed ==
    ASSUME Merging
    PROVE  /\ \E X : Declarations \in Seq(X)
           /\ Len(Declarations) \in Nat /\ DOMAIN Declarations = 1..Len(Declarations)
           /\ \A i \in DOMAIN Declarations : WellFormed(Declarations[i])
<1> DEFINE c == frames[1].combined
           Own(m) == [j \in DOMAIN Declares(source, m) |-> DeclaredIn(m, Declares(source, m)[j])]
           X == {DeclaredIn(m, d) : m \in Documents,
                                    d \in UNION {ToSet(Declares(source, n)) : n \in Documents}}
           Y == {x \in X : WellFormed(x)}
           parts == [i \in DOMAIN c |-> Own(c[i])]
<1>1. c \in Seq(Documents) /\ source \in Sources
  BY DEF Merging
<1>2. ASSUME NEW m \in Documents, NEW d \in ToSet(Declares(source, m))
      PROVE  DeclaredIn(m, d) \in Y
  <2>1. WellFormed(d)
    BY <1>1, DeclarationsAssumption DEF Documents
  <2> DEFINE e == DeclaredIn(m, d)
  <2>2. /\ DOMAIN e = DOMAIN d \cup {"origin"}
        /\ \A f \in DOMAIN d : f # "origin" => e[f] = d[f]
    BY DEF DeclaredIn
  <2>3. "kind" \in DOMAIN e /\ "name" \in DOMAIN e /\ e.kind = d.kind /\ e.name = d.name
    BY <2>1, <2>2 DEF WellFormed
  <2>4. d.kind = "parameter" => "versions" \in DOMAIN e /\ e.versions = d.versions
    BY <2>1, <2>2 DEF WellFormed
  <2>5. d.kind = "sets" => /\ {"target", "value"} \subseteq DOMAIN e
                           /\ e.target = d.target /\ e.value = d.value
    BY <2>1, <2>2 DEF WellFormed
  <2> HIDE DEF e
  <2>6. WellFormed(e)
    BY <2>1, <2>3, <2>4, <2>5 DEF WellFormed
  <2>7. e \in X
    BY DEF e
  <2> QED BY <2>6, <2>7 DEF e
<1> HIDE DEF Y, X
<1>3. ASSUME NEW m \in Documents
      PROVE  Own(m) \in Seq(Y)
  <2> DEFINE D == Declares(source, m)
  <2>1. D \in Seq(ToSet(D))
    BY <1>1, DeclarationsAssumption DEF Documents
  <2>2. Len(D) \in Nat /\ DOMAIN D = 1..Len(D) /\ \A j \in 1..Len(D) : D[j] \in ToSet(D)
    BY <2>1
  <2>3. \A j \in 1..Len(D) : DeclaredIn(m, D[j]) \in Y
    BY <1>2, <2>2
  <2> QED BY <2>2, <2>3, SeqDef
<1>4. Len(c) \in Nat /\ DOMAIN c = 1..Len(c) /\ \A i \in 1..Len(c) : c[i] \in Documents
  BY <1>1
<1>5. parts \in Seq(Seq(Y))
  <2>1. \A i \in 1..Len(c) : Own(c[i]) \in Seq(Y)
    BY <1>3, <1>4
  <2> HIDE DEF Own
  <2> QED BY <1>4, <2>1, SeqDef
<1>6. Declarations = FlattenSeq(parts)
  BY DEF Declarations
<1> HIDE DEF parts
<1>7. Declarations \in Seq(Y)
  BY <1>5, <1>6, Flattened
<1>8. \A y \in Y : WellFormed(y)
  BY DEF Y
<1> QED BY <1>7, <1>8

-----------------------------------------------------------------------------
ParameterNames == {d.name : d \in Declared({"parameter"})}
TextNames == {d.name : d \in Declared({"parameter", "rule"})}

(* A declared name is the name of a place.                                 *)
LEMMA PlacesDeclare ==
    ASSUME NEW kinds
    PROVE  \A d : d \in Declared(kinds) <=>
             \E i \in DOMAIN Declarations : Declarations[i] = d /\ d.kind \in kinds
BY DEF Declared, ToSet

LEMMA PlainIsOne ==
    ASSUME Merging, NEW n, Plain(n), NEW i \in Records(n), NEW j \in Records(n)
    PROVE  i = j
<1>1. Len(Declarations) \in Nat /\ DOMAIN Declarations = 1..Len(Declarations)
  BY DeclarationsWellFormed
<1>2. IsFiniteSet(Records(n))
  <2>1. IsFiniteSet(1..Len(Declarations))
    BY <1>1, FS_Interval
  <2>2. Records(n) \subseteq 1..Len(Declarations)
    BY <1>1 DEF Records
  <2> QED BY <2>1, <2>2, FS_Subset
<1> QED BY <1>2, AtMostOne DEF Plain

(* A name that is declared once has the id of its module.                  *)
LEMMA PlainId ==
    ASSUME Merging, NEW n, Plain(n), NEW i \in Records(n)
    PROVE  IdOf(n) = IF Declarations[i].origin = Composition THEN <<>>
                     ELSE <<Declarations[i].origin, n>>
<1> DEFINE S == {j \in DOMAIN Declarations :
                    Declarations[j].name = n /\ Declarations[j].origin # Composition}
<1>1. \A j \in S : j = i
  BY PlainIsOne DEF Records
<1>2. i \in DOMAIN Declarations /\ Declarations[i].name = n
  BY DEF Records
<1>3. IdOf(n) = IF S = {} THEN <<>> ELSE Canonical(Declarations[Max(S)])
  BY DEF IdOf
<1>4. CASE Declarations[i].origin = Composition
  BY <1>1, <1>3, <1>4
<1>5. CASE Declarations[i].origin # Composition
  <2>1. S = {i}
    BY <1>1, <1>2, <1>5
  <2>2. Max(S) = i
    <3>1. DOMAIN Declarations = 1..Len(Declarations) /\ Len(Declarations) \in Nat
      BY DeclarationsWellFormed
    <3>2. S \in SUBSET (1..Len(Declarations)) /\ S # {}
      BY <2>1, <3>1
    <3> HIDE DEF S
    <3> QED BY <1>1, <3>1, <3>2, LeastAndLargest
  <2> QED BY <1>2, <1>3, <1>5, <2>1, <2>2 DEF Canonical
<1> QED BY <1>4, <1>5

(* An id always names what it is the id of.                                *)
LEMMA IdNames ==
    ASSUME Merging, NEW n, Len(IdOf(n)) = 2
    PROVE  /\ IdOf(n)[2] = n
           /\ \E i \in Records(n) : Declarations[i].origin # Composition
                                    /\ IdOf(n) = <<Declarations[i].origin, n>>
<1> DEFINE S == {j \in DOMAIN Declarations :
                    Declarations[j].name = n /\ Declarations[j].origin # Composition}
<1>1. IdOf(n) = IF S = {} THEN <<>> ELSE Canonical(Declarations[Max(S)])
  BY DEF IdOf
<1>2. S # {}
  BY <1>1
<1>3. Max(S) \in S
  <2>1. DOMAIN Declarations = 1..Len(Declarations) /\ Len(Declarations) \in Nat
    BY DeclarationsWellFormed
  <2>2. S \in SUBSET (1..Len(Declarations))
    BY <2>1
  <2> HIDE DEF S
  <2> QED BY <1>2, <2>1, <2>2, LeastAndLargest
<1>4. Canonical(Declarations[Max(S)]) = <<Declarations[Max(S)].origin, n>>
  BY <1>3 DEF Canonical
<1>5. Max(S) \in Records(n)
  BY <1>3 DEF Records
<1>6. Declarations[Max(S)].origin # Composition
  BY <1>3
<1> HIDE DEF S
<1> QED BY <1>1, <1>2, <1>4, <1>5, <1>6

(* Whose text a name has: before any record its own, and from one record   *)
(* to the next the value's if the name is the target's.                    *)
Redirects(k, n) ==
    LET d == Declarations[k]
    IN  d.kind = "sets" /\ d.target[2] = n /\ DeclaredAs(d.target) /\ DeclaredAs(d.value)

LEMMA DeclaredNames ==
    ASSUME NEW ref, Len(ref) = 2, DeclaredAs(ref)
    PROVE  \E d \in Declared({"parameter", "rule"}) :
              d.name = ref[2] /\ d.origin # Composition /\ ref = <<d.origin, d.name>>
<1>1. PICK d \in Declared({"parameter", "rule"}) : Canonical(d) = ref
  BY DEF DeclaredAs
<1>2. d.origin # Composition
  <2>1. Len(<<d.name>>) = 1
    OBVIOUS
  <2> QED BY <1>1, <2>1 DEF Canonical
<1> QED BY <1>1, <1>2 DEF Canonical

LEMMA GivesFacts ==
    ASSUME Merging
    PROVE  /\ \A n \in TextNames : Gives[0][n] = n
           /\ \A k \in 1..Len(Declarations), n \in TextNames :
                Gives[k][n] = IF Redirects(k, n) THEN Gives[k - 1][Declarations[k].value[2]]
                              ELSE Gives[k - 1][n]
<1> DEFINE N == Len(Declarations)
           V == [TextNames -> TextNames]
           start == [n \in TextNames |-> n]
           h == [x \in (1..N) \X V |->
                    [n \in TextNames |-> IF Redirects(x[1], n)
                                         THEN x[2][Declarations[x[1]].value[2]] ELSE x[2][n]]]
           By(u) == [k \in 0..N |-> [n \in TextNames |->
                        IF k = 0 THEN n
                        ELSE IF Redirects(k, n) THEN u[k - 1][Declarations[k].value[2]]
                        ELSE u[k - 1][n]]]
<1>1. N \in Nat /\ DOMAIN Declarations = 1..N
      /\ \A i \in 1..N : WellFormed(Declarations[i])
  BY DeclarationsWellFormed
<1>2. \A k \in 1..N, n \in TextNames : Redirects(k, n) => Declarations[k].value[2] \in TextNames
  <2> TAKE k \in 1..N, n \in TextNames
  <2> HAVE Redirects(k, n)
  <2>1. Len(Declarations[k].value) = 2 /\ DeclaredAs(Declarations[k].value)
    BY <1>1 DEF Redirects, WellFormed
  <2> QED BY <2>1, DeclaredNames DEF TextNames
<1>3. start \in V
  OBVIOUS
<1>4. \A k \in 1..N, v \in V :
        /\ h[<<k, v>>] = [n \in TextNames |-> IF Redirects(k, n)
                             THEN v[Declarations[k].value[2]] ELSE v[n]]
        /\ h[<<k, v>>] \in V
  <2> TAKE k \in 1..N, v \in V
  <2>1. <<k, v>> \in (1..N) \X V
    OBVIOUS
  <2>2. h[<<k, v>>] = [n \in TextNames |-> IF Redirects(k, n)
                          THEN v[Declarations[k].value[2]] ELSE v[n]]
    BY <2>1
  <2> HIDE DEF h
  <2>3. \A n \in TextNames : (IF Redirects(k, n) THEN v[Declarations[k].value[2]] ELSE v[n]) \in TextNames
    BY <1>2
  <2> QED BY <2>2, <2>3
<1>5. h \in [(1..N) \X V -> V]
  <2>1. \A x \in (1..N) \X V : h[x] \in V
    <3> TAKE x \in (1..N) \X V
    <3>1. PICK k \in 1..N, v \in V : x = <<k, v>>
      OBVIOUS
    <3> HIDE DEF h
    <3> QED BY <1>4, <3>1
  <2>2. h = [x \in (1..N) \X V |-> h[x]]
    OBVIOUS
  <2> HIDE DEF h
  <2> QED BY <2>1, <2>2
<1> HIDE DEF h, V, start
<1>6. PICK u \in [0..N -> V] : Follows(N, start, h, u)
  BY <1>1, <1>3, <1>5, Recursion
<1>7. u = By(u)
  <2>1. u = [k \in 0..N |-> u[k]]
    BY <1>6
  <2>2. \A k \in 0..N : u[k] = By(u)[k]
    <3> TAKE k \in 0..N
    <3>1. CASE k = 0
      BY <1>6, <3>1 DEF Follows, start
    <3>2. CASE k # 0
      <4>1. k \in 1..N /\ k - 1 \in 0..N
        BY <1>1, <3>2
      <4>2. u[k - 1] \in V /\ u[k] = h[<<k, u[k - 1]>>]
        BY <1>6, <4>1 DEF Follows
      <4>3. u[k] = [n \in TextNames |-> IF Redirects(k, n)
                       THEN u[k - 1][Declarations[k].value[2]] ELSE u[k - 1][n]]
        BY <1>4, <4>1, <4>2
      <4> QED BY <3>2, <4>3
    <3> QED BY <3>1, <3>2
  <2>3. By(u) = [k \in 0..N |-> By(u)[k]]
    OBVIOUS
  <2> HIDE DEF By
  <2> QED BY <2>1, <2>2, <2>3
<1>8. Gives = CHOOSE v : v = By(v)
  BY DEF Gives, TextNames, Redirects
<1>9. Gives = By(Gives)
  <2> DEFINE w == CHOOSE v : v = By(v)
  <2>1. w = By(w)
    BY <1>7
  <2>2. Gives = w
    BY <1>8
  <2> HIDE DEF w, By
  <2> QED BY <2>1, <2>2
<1>10. \A k \in 0..N : Gives[k] = By(Gives)[k]
  BY <1>9
<1> HIDE DEF Gives
<1>11. \A k \in 0..N : Gives[k] = [n \in TextNames |->
                        IF k = 0 THEN n
                        ELSE IF Redirects(k, n) THEN Gives[k - 1][Declarations[k].value[2]]
                        ELSE Gives[k - 1][n]]
  BY <1>10
<1>12. 0 \in 0..N /\ \A k \in 1..N : k \in 0..N /\ k # 0
  BY <1>1
<1> QED BY <1>11, <1>12

-----------------------------------------------------------------------------
(* The parameters of a program: of the declared names, with the ids that   *)
(* go with these, and with the versions that the names' texts have after k *)
(* records.                                                                *)
ParameterRecords ==
    [name : ParameterNames, id : {IdOf(n) : n \in ParameterNames},
     index : {d.index : d \in Declared({"parameter"})},
     unit : {d.unit : d \in Declared({"parameter"})},
     versions : {d.versions : d \in Declared({"parameter"})}]

Held(p, n) ==
    {p.parameters[i].versions :
        i \in {j \in DOMAIN p.parameters : p.parameters[j].name = n}}

Listed(p) ==
    /\ p = [parameters |-> p.parameters, derived |-> p.derived, relations |-> p.relations]
    /\ p.parameters \in Seq(ParameterRecords)
    /\ \A i \in DOMAIN p.parameters : p.parameters[i].id = IdOf(p.parameters[i].name)
    /\ \A n \in ParameterNames : \E i \in DOMAIN p.parameters : p.parameters[i].name = n
    /\ \A i, j \in DOMAIN p.parameters :
         p.parameters[i].name = p.parameters[j].name /\ Plain(p.parameters[i].name) => i = j

Valued(p, k) ==
    BindingsPlain =>
      \A n \in ParameterNames :
        /\ Gives[k][n] \in ParameterNames
        /\ ~Hides(Gives[k][n]) =>
             Held(p, n) = {d.versions : d \in DeclaredParameters(Gives[k][n])}

Standing(p, k) == Listed(p) /\ Valued(p, k)

LEMMA ParametersAreTexts == ParameterNames \subseteq TextNames
<1>1. Declared({"parameter"}) \subseteq Declared({"parameter", "rule"})
  BY DEF Declared
<1> QED BY <1>1 DEF ParameterNames, TextNames

(* What does not touch the parameters leaves all this as it is.            *)
LEMMA SameParameters ==
    ASSUME NEW p, NEW q, NEW k, Standing(p, k), q.parameters = p.parameters,
           q = [parameters |-> q.parameters, derived |-> q.derived, relations |-> q.relations]
    PROVE  Standing(q, k)
<1>1. Listed(q)
  BY DEF Standing, Listed
<1>2. \A n : Held(q, n) = Held(p, n)
  BY DEF Held
<1> QED BY <1>1, <1>2 DEF Standing, Valued

LEMMA PicksConcat ==
    ASSUME NEW X, NEW s, NEW P \in SUBSET Nat, NEW Q \in SUBSET Nat, P \cap Q = {},
           NEW r \in Seq(X), NEW t \in Seq(X), NEW f, NEW g,
           Picks(s, P, r, f), Picks(s, Q, t, g)
    PROVE  \E e : Picks(s, P \cup Q, r \o t, e)
<1> DEFINE L == Len(r)
           M == Len(t)
           c == r \o t
           e == [k \in 1..(L + M) |-> IF k <= L THEN f[k] ELSE g[k - L]]
<1>1. /\ L \in Nat /\ M \in Nat /\ Len(c) = L + M
      /\ \A k \in 1..L : c[k] = r[k]
      /\ \A k \in 1..(L + M) : k > L => c[k] = t[k - L]
  BY ConcatProperties
<1>2. \A k \in 1..L : k \in 1..(L + M) /\ e[k] = f[k] /\ e[k] \in P
  BY <1>1 DEF Picks
<1>3. \A k \in 1..(L + M) : k > L => k - L \in 1..M /\ e[k] = g[k - L] /\ e[k] \in Q
  <2> TAKE k \in 1..(L + M)
  <2> HAVE k > L
  <2>1. k - L \in 1..M /\ ~(k <= L)
    BY <1>1
  <2>2. g[k - L] \in Q
    BY <2>1 DEF Picks
  <2> QED BY <2>1, <2>2
<1>4. \A k \in 1..(L + M) : k \in 1..L \/ k > L
  BY <1>1
<1>5. e \in [1..(L + M) -> P \cup Q]
  <2>1. e = [k \in 1..(L + M) |-> e[k]]
    OBVIOUS
  <2> HIDE DEF e
  <2> QED BY <1>2, <1>3, <1>4, <2>1
<1> HIDE DEF e, c, L, M
<1>6. \A k \in 1..(L + M) : c[k] = s[e[k]]
  <2> TAKE k \in 1..(L + M)
  <2>1. CASE k \in 1..L
    BY <1>1, <1>2, <2>1 DEF Picks, L
  <2>2. CASE k > L
    BY <1>1, <1>3, <2>2 DEF Picks, M
  <2> QED BY <1>4, <2>1, <2>2
<1>7. \A k, l \in 1..(L + M) : e[k] = e[l] => k = l
  <2> TAKE k, l \in 1..(L + M)
  <2> HAVE e[k] = e[l]
  <2>1. CASE k \in 1..L /\ l \in 1..L
    BY <1>2, <2>1 DEF Picks, L
  <2>2. CASE k > L /\ l > L
    <3>1. k - L \in 1..M /\ l - L \in 1..M /\ g[k - L] = g[l - L]
      BY <1>3, <2>2
    <3>2. k - L = l - L
      BY <3>1 DEF Picks, M
    <3> QED BY <1>1, <3>2
  <2>3. CASE (k \in 1..L /\ l > L) \/ (l \in 1..L /\ k > L)
    BY <1>2, <1>3, <2>3
  <2> QED BY <1>4, <2>1, <2>2, <2>3
<1>8. \A i \in P \cup Q : \E k \in 1..(L + M) : e[k] = i
  <2> TAKE i \in P \cup Q
  <2>1. CASE i \in P
    <3>1. PICK k \in 1..L : f[k] = i
      BY <2>1 DEF Picks, L
    <3> QED BY <1>2, <3>1
  <2>2. CASE i \in Q
    <3>1. PICK k \in 1..M : g[k] = i
      BY <2>2 DEF Picks, M
    <3>2. k + L \in 1..(L + M) /\ k + L > L /\ (k + L) - L = k
      BY <1>1
    <3> QED BY <1>3, <3>1, <3>2
  <2> QED BY <2>1, <2>2
<1>9. Picks(s, P \cup Q, c, e)
  <2>1. Len(c) = L + M
    BY <1>1
  <2> QED BY <1>5, <1>6, <1>7, <1>8, <2>1 DEF Picks
<1> QED BY <1>9 DEF c

(* As they are lowered.                                                    *)
LEMMA LoweredStanding ==
    ASSUME Merging, NEW p,
           p = [parameters |-> LoweredParameters, derived |-> p.derived, relations |-> p.relations]
    PROVE  Standing(p, 0)
<1> DEFINE D == Declarations
           tables == {i \in Places("parameter") : D[i].table}
           scalars == {i \in Places("parameter") \ tables :
                         \A j \in tables : D[j].name # D[i].name}
           lowered == Subsequence(D, scalars) \o Subsequence(D, tables)
           ps == LoweredParameters
<1>1. PICK X : D \in Seq(X)
  BY DeclarationsWellFormed
<1>2. /\ Len(D) \in Nat /\ DOMAIN D = 1..Len(D)
      /\ scalars \in SUBSET (1..Len(D)) /\ tables \in SUBSET (1..Len(D))
      /\ scalars \cap tables = {}
  BY DeclarationsWellFormed DEF Places
<1>3. ps = [i \in DOMAIN lowered |->
              [name |-> lowered[i].name, id |-> IdOf(lowered[i].name),
               index |-> lowered[i].index, unit |-> lowered[i].unit,
               versions |-> lowered[i].versions]]
  BY DEF LoweredParameters
<1>4. \A i \in Places("parameter") : D[i] \in Declared({"parameter"}) /\ i \in DOMAIN D
  BY DEF Places, Declared, ToSet
<1>5. \A i \in Places("parameter") : i \in tables \/ i \in scalars \/ \E j \in tables : D[j].name = D[i].name
  OBVIOUS
<1>6. \A i \in Places("parameter") : (i \in tables <=> D[i].table)
  OBVIOUS
<1>7. scalars \cup tables \subseteq Places("parameter")
  OBVIOUS
<1> HIDE DEF scalars, tables, ps
<1>8. Subsequence(D, scalars) \in Seq(X) /\ \E f : Picks(D, scalars, Subsequence(D, scalars), f)
  BY <1>1, <1>2, Subsequences
<1>9. Subsequence(D, tables) \in Seq(X) /\ \E f : Picks(D, tables, Subsequence(D, tables), f)
  BY <1>1, <1>2, Subsequences
<1>10. PICK at : Picks(D, scalars \cup tables, lowered, at)
  <2>1. scalars \in SUBSET Nat /\ tables \in SUBSET Nat
    BY <1>2
  <2>2. PICK f : Picks(D, scalars, Subsequence(D, scalars), f)
    BY <1>8
  <2>3. PICK g : Picks(D, tables, Subsequence(D, tables), g)
    BY <1>9
  <2> HIDE DEF D
  <2> QED BY <1>2, <1>8, <1>9, <2>1, <2>2, <2>3, PicksConcat
<1>11. lowered \in Seq(X) /\ Len(lowered) \in Nat /\ DOMAIN lowered = 1..Len(lowered)
  BY <1>8, <1>9, ConcatProperties
<1> HIDE DEF lowered, D
<1>12. /\ DOMAIN ps = 1..Len(lowered)
       /\ \A i \in 1..Len(lowered) :
            /\ at[i] \in Places("parameter") /\ at[i] \in scalars \cup tables
            /\ ps[i] = [name |-> D[at[i]].name, id |-> IdOf(D[at[i]].name),
                        index |-> D[at[i]].index, unit |-> D[at[i]].unit,
                        versions |-> D[at[i]].versions]
  BY <1>3, <1>7, <1>10, <1>11 DEF Picks
<1>13. \A i, j \in 1..Len(lowered) : at[i] = at[j] => i = j
  BY <1>10 DEF Picks
<1>14. \A i \in scalars \cup tables : \E k \in 1..Len(lowered) : at[k] = i
  BY <1>10 DEF Picks
<1>15. \A i \in Places("parameter") : D[i].name \in ParameterNames
  BY <1>4 DEF ParameterNames
<1>16. ps \in Seq(ParameterRecords)
  <2>1. \A i \in 1..Len(lowered) : ps[i] \in ParameterRecords
    <3> TAKE i \in 1..Len(lowered)
    <3> DEFINE d == D[at[i]]
    <3>1. d \in Declared({"parameter"}) /\ d.name \in ParameterNames
      BY <1>4, <1>12, <1>15
    <3>2. ps[i] = [name |-> d.name, id |-> IdOf(d.name), index |-> d.index, unit |-> d.unit,
                   versions |-> d.versions]
      BY <1>12
    <3> HIDE DEF d
    <3> QED BY <3>1, <3>2 DEF ParameterRecords
  <2>2. ps = [i \in 1..Len(lowered) |-> ps[i]]
    BY <1>3, <1>11
  <2> QED BY <1>11, <2>1, <2>2, SeqDef
<1>17. p.parameters = ps
  BY DEF ps
<1>18. \A n \in ParameterNames : \E i \in Places("parameter") : D[i].name = n
  BY DEF ParameterNames, Declared, ToSet, Places, D
<1>19. \A n \in ParameterNames : \E i \in 1..Len(lowered) : ps[i].name = n
  <2> TAKE n \in ParameterNames
  <2>1. PICK i \in Places("parameter") : D[i].name = n
    BY <1>18
  <2>2. PICK j \in scalars \cup tables : D[j].name = n
    BY <1>5, <2>1
  <2>3. PICK k \in 1..Len(lowered) : at[k] = j
    BY <1>14
  <2> QED BY <1>12, <2>2, <2>3
<1>20. ASSUME NEW i \in 1..Len(lowered), NEW j \in 1..Len(lowered),
              ps[i].name = ps[j].name, Plain(ps[i].name)
       PROVE  i = j
  <2>1. at[i] \in Records(ps[i].name) /\ at[j] \in Records(ps[i].name)
    BY <1>4, <1>12, <1>20 DEF Records, D
  <2>2. at[i] = at[j]
    BY <1>20, <2>1, PlainIsOne
  <2> QED BY <1>13, <2>2
<1>21. Listed(p)
  BY <1>12, <1>16, <1>17, <1>19, <1>20 DEF Listed, ps
<1>22. ASSUME NEW n \in ParameterNames, ~Hides(n)
       PROVE  Held(p, n) = {d.versions : d \in DeclaredParameters(n)}
  <2>1. ASSUME NEW x \in Held(p, n)
        PROVE  x \in {d.versions : d \in DeclaredParameters(n)}
    <3>1. PICK i \in 1..Len(lowered) : ps[i].name = n /\ x = ps[i].versions
      BY <1>12, <1>17, <2>1 DEF Held
    <3>2. D[at[i]] \in DeclaredParameters(n) /\ x = D[at[i]].versions
      BY <1>4, <1>12, <3>1 DEF DeclaredParameters
    <3> QED BY <3>2
  <2>2. ASSUME NEW d \in DeclaredParameters(n)
        PROVE  d.versions \in Held(p, n)
    <3>1. PICK i \in Places("parameter") : D[i] = d
      BY <2>2 DEF DeclaredParameters, Declared, ToSet, Places, D
    <3>2. d.name = n
      BY <2>2 DEF DeclaredParameters
    <3>3. i \in scalars \cup tables
      <4>1. SUFFICES ASSUME i \notin tables, NEW j \in tables, D[j].name = n PROVE FALSE
        BY <1>5, <3>1, <3>2
      <4>2. j \in Places("parameter") /\ D[j].table /\ ~D[i].table
        BY <1>6, <1>7, <4>1
      <4>3. D[j] \in DeclaredParameters(n)
        BY <1>4, <4>1, <4>2 DEF DeclaredParameters
      <4> QED BY <1>22, <2>2, <3>1, <4>2, <4>3 DEF Hides
    <3>4. PICK k \in 1..Len(lowered) : at[k] = i
      BY <1>14, <3>3
    <3>5. ps[k].name = n /\ ps[k].versions = d.versions
      BY <1>12, <3>1, <3>2, <3>4
    <3> QED BY <1>12, <1>17, <3>5 DEF Held
  <2> QED BY <2>1, <2>2
<1>23. \A n \in ParameterNames : Gives[0][n] = n
  BY GivesFacts, ParametersAreTexts
<1>24. Valued(p, 0)
  BY <1>22, <1>23 DEF Valued
<1> QED BY <1>21, <1>24 DEF Standing

-----------------------------------------------------------------------------
(* A `sets` record finds the parameter its end declares.                   *)
LEMMA BoundParameter ==
    ASSUME Merging, Listed(program), NEW ref, Len(ref) = 2, Plain(ref[2]),
           Binding(ref).kind = "parameter"
    PROVE  /\ Binding(ref).at \in DOMAIN program.parameters
           /\ program.parameters[Binding(ref).at].name = ref[2]
           /\ ref[2] \in ParameterNames /\ DeclaredAs(ref)
<1> DEFINE ps == program.parameters
           at == {i \in DOMAIN ps : ps[i].id = ref}
           i == Min(at)
<1>1. Len(ps) \in Nat /\ DOMAIN ps = 1..Len(ps) /\ \A k \in DOMAIN ps : ps[k] \in ParameterRecords
  BY DEF Listed
<1>2. at # {} /\ Binding(ref).at = i
  BY DEF Binding, None
<1>3. at \in SUBSET (1..Len(ps))
  BY <1>1
<1>4. i \in at
  <2> HIDE DEF at
  <2> QED BY <1>1, <1>2, <1>3, LeastAndLargest
<1>5. i \in DOMAIN ps /\ ps[i].id = ref /\ ps[i].id = IdOf(ps[i].name)
      /\ ps[i].name \in ParameterNames
  BY <1>1, <1>4 DEF Listed, ParameterRecords
<1> HIDE DEF i, ps
<1> DEFINE n == ps[i].name
<1>6. /\ IdOf(n)[2] = n /\ n = ref[2]
      /\ \E r \in Records(n) : Declarations[r].origin # Composition
                               /\ IdOf(n) = <<Declarations[r].origin, n>>
  BY <1>5, IdNames
<1>7. PICK r \in Records(n) : Declarations[r].origin # Composition
                              /\ ref = <<Declarations[r].origin, n>>
  BY <1>5, <1>6
<1>8. PICK d \in Declared({"parameter"}) : d.name = n
  BY <1>5 DEF ParameterNames
<1>9. PICK q \in DOMAIN Declarations : Declarations[q] = d /\ d.kind = "parameter"
  BY <1>8 DEF Declared, ToSet
<1>10. q = r
  <2>1. q \in Records(n) /\ Plain(n)
    BY <1>6, <1>8, <1>9 DEF Records
  <2> QED BY <2>1, PlainIsOne
<1>11. d \in Declared({"parameter", "rule"}) /\ Canonical(d) = ref
  BY <1>7, <1>8, <1>9, <1>10 DEF Declared, ToSet, Canonical
<1>12. DeclaredAs(ref)
  BY <1>11 DEF DeclaredAs
<1> QED BY <1>2, <1>5, <1>6, <1>12 DEF ps

LEMMA ParameterBound ==
    ASSUME Merging, Listed(program), NEW ref, Len(ref) = 2, Plain(ref[2]),
           DeclaredAs(ref), ref[2] \in ParameterNames
    PROVE  Binding(ref).kind = "parameter"
<1> DEFINE n == ref[2]
<1>1. PICK d \in Declared({"parameter", "rule"}) :
        d.name = n /\ d.origin # Composition /\ ref = <<d.origin, d.name>>
  BY DeclaredNames
<1>2. PICK i \in DOMAIN Declarations : Declarations[i] = d
  BY <1>1 DEF Declared, ToSet
<1>3. i \in Records(n)
  BY <1>1, <1>2 DEF Records
<1>4. IdOf(n) = ref
  BY <1>1, <1>2, <1>3, PlainId
<1>5. PICK j \in DOMAIN program.parameters : program.parameters[j].name = n
  BY DEF Listed
<1>6. program.parameters[j].id = ref
  BY <1>4, <1>5 DEF Listed
<1> QED BY <1>5, <1>6 DEF Binding

(* One record later.                                                       *)
LEMMA SetStep ==
    ASSUME Merging, NEW k \in 1..Len(Declarations), place = k, Standing(program, k - 1),
           ApplySets, pass' # "refused"
    PROVE  Standing(program', k)
<1> DEFINE d == Declarations[k]
           ps == program.parameters
           t == Binding(d.target)
           v == Binding(d.value)
<1>1. WellFormed(d) /\ d \in ToSet(Declarations)
  BY DeclarationsWellFormed DEF ToSet
<1>2. /\ Listed(program) /\ Valued(program, k - 1)
      /\ Len(ps) \in Nat /\ DOMAIN ps = 1..Len(ps) /\ \A i \in DOMAIN ps : ps[i] \in ParameterRecords
      /\ program = [parameters |-> ps, derived |-> program.derived, relations |-> program.relations]
  BY DEF Standing, Listed
<1>3. \A n \in ParameterNames :
        Gives[k][n] = IF Redirects(k, n) THEN Gives[k - 1][d.value[2]] ELSE Gives[k - 1][n]
  BY GivesFacts, ParametersAreTexts
<1>4. ASSUME d.kind = "sets"
      PROVE  /\ Len(d.target) = 2 /\ Len(d.value) = 2
             /\ BindingsPlain => Plain(d.target[2]) /\ Plain(d.value[2])
  BY <1>1, <1>4 DEF WellFormed, BindingsPlain, Declared
<1>5. ASSUME program'.parameters = ps,
             program' = [parameters |-> ps, derived |-> program'.derived,
                         relations |-> program'.relations],
             BindingsPlain => \A n \in ParameterNames : Gives[k][n] = Gives[k - 1][n]
      PROVE  Standing(program', k)
  <2>1. Standing(program', k - 1)
    BY <1>5, SameParameters
  <2> QED BY <1>5, <2>1 DEF Standing, Valued
<1>6. ASSUME d.kind = "sets", t.kind # "parameter", BindingsPlain,
             NEW n \in ParameterNames
      PROVE  ~Redirects(k, n)
  BY <1>2, <1>4, <1>6, ParameterBound DEF Redirects
<1>7. CASE d.kind # "sets"
  <2>1. program' = program
    BY <1>7 DEF ApplySets, Unset
  <2>2. \A n : ~Redirects(k, n)
    BY <1>7 DEF Redirects
  <2> QED BY <1>2, <1>3, <1>5, <2>1, <2>2
<1>8. CASE d.kind = "sets" /\ d.target = d.value
  <2>1. program' = program
    BY <1>8 DEF ApplySets, Unset
  <2>2. \A n : Redirects(k, n) => d.value[2] = n
    BY <1>8 DEF Redirects
  <2> QED BY <1>2, <1>3, <1>5, <2>1, <2>2
<1>9. CASE d.kind = "sets" /\ d.target # d.value /\ t.kind # "parameter"
  <2>1. \/ program' = program
        \/ program' = [program EXCEPT !.derived[t.at].body = program.derived[v.at].body]
    BY <1>9 DEF ApplySets, Unset, Stopped, SetRule
  <2>2. /\ program'.parameters = ps
        /\ program' = [parameters |-> ps, derived |-> program'.derived,
                       relations |-> program'.relations]
    BY <1>2, <2>1
  <2> QED BY <1>3, <1>5, <1>6, <1>9, <2>2
<1>10. CASE d.kind = "sets" /\ d.target # d.value /\ t.kind = "parameter"
  <2>1. v.kind = "parameter" /\ SetParameter(t.at, v.at)
    BY <1>10 DEF ApplySets, Stopped, None
  <2>2. program' = [program EXCEPT !.parameters[t.at].versions = ps[v.at].versions]
    BY <2>1 DEF SetParameter, Stopped
  <2>3. t.at \in DOMAIN ps /\ v.at \in DOMAIN ps
    <3> DEFINE at(ref) == {i \in DOMAIN ps : ps[i].id = ref}
    <3>1. ASSUME NEW ref, Binding(ref).kind = "parameter"
          PROVE  Binding(ref).at \in DOMAIN ps
      <4>1. at(ref) # {} /\ Binding(ref).at = Min(at(ref))
        BY <3>1 DEF Binding, None
      <4>2. at(ref) \in SUBSET (1..Len(ps))
        BY <1>2
      <4>3. Min(at(ref)) \in at(ref)
        <5> HIDE DEF at
        <5> QED BY <1>2, <4>1, <4>2, LeastAndLargest
      <4> QED BY <4>1, <4>3
    <3> QED BY <1>10, <2>1, <3>1
  <2> DEFINE i == t.at
             j == v.at
             p == ps[i]
             given == [name |-> p.name, id |-> p.id, index |-> p.index, unit |-> p.unit,
                       versions |-> ps[j].versions]
             qs == [ps EXCEPT ![i] = given]
  <2>4. p \in ParameterRecords /\ ps[j] \in ParameterRecords /\ i \in DOMAIN ps /\ j \in DOMAIN ps
    BY <1>2, <2>3
  <2>5. [p EXCEPT !.versions = ps[j].versions] = given
    <3>1. p = [name |-> p.name, id |-> p.id, index |-> p.index, unit |-> p.unit,
               versions |-> p.versions]
      BY <2>4 DEF ParameterRecords
    <3> HIDE DEF p
    <3> QED BY <3>1
  <2>6. program' = [parameters |-> qs, derived |-> program.derived, relations |-> program.relations]
    BY <1>2, <2>2, <2>4, <2>5
  <2>7. given \in ParameterRecords
    BY <2>4 DEF ParameterRecords
  <2>8. ps \in Seq(ParameterRecords)
    BY <1>2 DEF Listed
  <2>9. /\ qs \in Seq(ParameterRecords) /\ DOMAIN qs = DOMAIN ps
        /\ qs[i] = given /\ \A l \in DOMAIN ps : l # i => qs[l] = ps[l]
    <3> HIDE DEF p, given, i, j
    <3>1. i \in 1..Len(ps) /\ DOMAIN ps = 1..Len(ps)
      BY <2>4, <2>8
    <3> QED BY <2>7, <2>8, <3>1 DEF qs
  <2>10. \A l \in DOMAIN ps : qs[l].name = ps[l].name /\ qs[l].id = ps[l].id
    BY <2>9
  <2>11. program'.parameters = qs
    BY <2>6
  <2> HIDE DEF i, j, qs
  <2>12. Listed(program')
    <3>1. /\ \A l \in DOMAIN qs : qs[l].id = IdOf(qs[l].name)
          /\ \A n \in ParameterNames : \E l \in DOMAIN qs : qs[l].name = n
          /\ \A l, m \in DOMAIN qs : qs[l].name = qs[m].name /\ Plain(qs[l].name) => l = m
      <4>1. /\ \A l \in DOMAIN ps : ps[l].id = IdOf(ps[l].name)
            /\ \A n \in ParameterNames : \E l \in DOMAIN ps : ps[l].name = n
            /\ \A l, m \in DOMAIN ps : ps[l].name = ps[m].name /\ Plain(ps[l].name) => l = m
        BY <1>2 DEF Listed
      <4>2. \A l \in DOMAIN ps : qs[l].id = IdOf(qs[l].name)
        BY <4>1, <2>10
      <4>3. \A n \in ParameterNames : \E l \in DOMAIN ps : qs[l].name = n
        BY <4>1, <2>10
      <4>4. \A l, m \in DOMAIN ps : qs[l].name = qs[m].name /\ Plain(qs[l].name) => l = m
        BY <4>1, <2>10
      <4> QED BY ONLY <4>2, <4>3, <4>4, <2>9
    <3>2. program' = [parameters |-> qs, derived |-> program'.derived,
                      relations |-> program'.relations]
      BY <2>6
    <3> QED BY <2>9, <2>11, <3>1, <3>2 DEF Listed
  <2>13. ASSUME BindingsPlain
         PROVE  Valued(program', k)
    <3>1. /\ ps[i].name = d.target[2] /\ d.target[2] \in ParameterNames /\ DeclaredAs(d.target)
          /\ ps[j].name = d.value[2] /\ d.value[2] \in ParameterNames /\ DeclaredAs(d.value)
      BY <1>2, <1>4, <1>10, <2>1, <2>13, BoundParameter DEF i, j
    <3>2. \A n : Redirects(k, n) <=> n = d.target[2]
      BY <1>10, <3>1 DEF Redirects
    <3>3. \A l \in DOMAIN ps : /\ ps[l].name = d.target[2] => l = i
                               /\ ps[l].name = d.value[2] => l = j
      BY <1>2, <1>4, <1>10, <2>4, <2>13, <3>1 DEF Listed
    <3>4. Held(program', d.target[2]) = {ps[j].versions}
      <4>1. {l \in DOMAIN qs : qs[l].name = d.target[2]} = {i}
        BY <2>4, <2>9, <2>10, <3>1, <3>3
      <4>2. qs[i].versions = ps[j].versions
        BY <2>9
      <4> QED BY <2>11, <4>1, <4>2 DEF Held
    <3>5. Held(program, d.value[2]) = {ps[j].versions}
      <4>1. {l \in DOMAIN ps : ps[l].name = d.value[2]} = {j}
        BY <2>4, <3>1, <3>3
      <4> QED BY <4>1 DEF Held
    <3>6. ASSUME NEW n \in ParameterNames, n # d.target[2]
          PROVE  Held(program', n) = Held(program, n)
      <4>1. \A l \in DOMAIN ps : ps[l].name = n => qs[l] = ps[l]
        BY <2>9, <3>1, <3>6
      <4> QED BY <2>9, <2>10, <2>11, <4>1 DEF Held
    <3> SUFFICES ASSUME NEW n \in ParameterNames
                 PROVE  /\ Gives[k][n] \in ParameterNames
                        /\ ~Hides(Gives[k][n]) =>
                             Held(program', n) = {e.versions : e \in DeclaredParameters(Gives[k][n])}
      BY DEF Valued
    <3>7. CASE n = d.target[2]
      <4>1. Gives[k][n] = Gives[k - 1][d.value[2]]
        BY <1>3, <3>2, <3>7
      <4>2. Held(program', n) = Held(program, d.value[2])
        BY <3>4, <3>5, <3>7
      <4> QED BY <1>2, <2>13, <3>1, <4>1, <4>2 DEF Valued
    <3>8. CASE n # d.target[2]
      <4>1. Gives[k][n] = Gives[k - 1][n]
        BY <1>3, <3>2, <3>8
      <4>2. Held(program', n) = Held(program, n)
        BY <3>6, <3>8
      <4> QED BY <1>2, <2>13, <4>1, <4>2 DEF Valued
    <3> QED BY <3>7, <3>8
  <2> QED BY <2>12, <2>13 DEF Standing, Valued
<1> QED BY <1>7, <1>8, <1>9, <1>10

(* Of the parameters of one name, what the first becomes.                  *)
TogetherOf(p, n) == UNION Held(p, n)

ValuesOf(p) ==
    /\ {p.parameters[i].name : i \in DOMAIN p.parameters} = ParameterNames
    /\ \A i \in DOMAIN p.parameters, day \in Days :
         LET q == p.parameters[i]
         IN  ~Hides(TextOf(q.name)) =>
               Given(q.versions, day) =
                 UNION {Given(d.versions, day) : d \in DeclaredParameters(TextOf(q.name))}

LEMMA CompiledValues ==
    ASSUME Merging, Standing(program, Len(Declarations)), CompileParameters,
           pass' = "compiled", BindingsPlain
    PROVE  ValuesOf(program')
<1> DEFINE ps == program.parameters
           N == Len(ps)
           firsts == {i \in DOMAIN ps : \A j \in 1..(i - 1) : ps[j].name # ps[i].name}
           sameName(i) == {j \in DOMAIN ps : ps[j].name = ps[i].name}
           merged == [i \in DOMAIN ps |->
                        [ps[i] EXCEPT !.versions = UNION {ps[j].versions : j \in sameName(i)}]]
           qs == Subsequence(merged, firsts)
           X == {merged[i] : i \in 1..N}
<1>1. /\ N \in Nat /\ DOMAIN ps = 1..N /\ \A i \in 1..N : ps[i] \in ParameterRecords
      /\ program = [parameters |-> ps, derived |-> program.derived, relations |-> program.relations]
      /\ \A n \in ParameterNames : \E i \in DOMAIN ps : ps[i].name = n
  BY DEF Standing, Listed
<1>2. program' = [program EXCEPT !.parameters = qs]
  BY DEF CompileParameters, Refused, Passed, MergedParameters
<1>3. program'.parameters = qs
  BY <1>1, <1>2
<1>4. \A i, j \in 1..N : i < j /\ ps[i].name = ps[j].name => ~Incompatible(ps[i], ps[j])
  BY <1>1 DEF CompileParameters, Refused, Repeated
<1>5. merged \in Seq(X) /\ Len(merged) = N
  <2>1. DOMAIN merged = 1..N /\ \A i \in 1..N : merged[i] \in X
    BY <1>1
  <2> HIDE DEF X
  <2> QED BY <1>1, <2>1, SeqDef
<1>6. firsts \in SUBSET (1..N)
  BY <1>1
<1>7. \A i \in 1..N : /\ merged[i].name = ps[i].name
                      /\ merged[i].versions = TogetherOf(program, ps[i].name)
  <2> TAKE i \in 1..N
  <2>1. merged[i] = [ps[i] EXCEPT !.versions = UNION {ps[j].versions : j \in sameName(i)}]
    BY <1>1
  <2>2. "versions" \in DOMAIN ps[i] /\ "name" \in DOMAIN ps[i]
    BY <1>1 DEF ParameterRecords
  <2>3. /\ merged[i].name = ps[i].name
        /\ merged[i].versions = UNION {ps[j].versions : j \in sameName(i)}
    BY <2>1, <2>2
  <2> QED BY <2>3 DEF TogetherOf, Held
<1>8. \A n \in ParameterNames : \E i \in firsts : ps[i].name = n
  <2> TAKE n \in ParameterNames
  <2> DEFINE S == {i \in DOMAIN ps : ps[i].name = n}
  <2>1. S \in SUBSET Nat /\ S # {}
    BY <1>1
  <2>2. PICK m \in S : \A i \in S : m <= i
    BY <2>1, LeastNumber
  <2>3. m \in 1..N /\ ps[m].name = n
    BY <1>1, <2>2
  <2>4. ASSUME NEW j \in 1..(m - 1) PROVE ps[j].name # n
    <3>1. j \in 1..N /\ j < m /\ j \in Nat /\ m \in Nat
      BY <1>1, <2>3
    <3> QED BY <1>1, <2>2, <3>1
  <2> QED BY <1>1, <2>3, <2>4
<1> HIDE DEF merged, firsts, X
<1>9. PICK f : Picks(merged, firsts, qs, f) /\ qs \in Seq(X)
  BY <1>5, <1>6, Subsequences
<1>10. DOMAIN qs = 1..Len(qs) /\ Len(qs) \in Nat
  BY <1>9
<1> HIDE DEF qs
<1>11. \A k \in 1..Len(qs) : /\ f[k] \in 1..N /\ qs[k].name = ps[f[k]].name
                             /\ qs[k].versions = TogetherOf(program, qs[k].name)
  <2> TAKE k \in 1..Len(qs)
  <2>1. f[k] \in 1..N /\ qs[k] = merged[f[k]]
    BY <1>6, <1>9 DEF Picks
  <2> QED BY <1>7, <2>1
<1>12. {qs[k].name : k \in DOMAIN qs} = ParameterNames
  <2>1. \A k \in 1..Len(qs) : qs[k].name \in ParameterNames
    BY <1>1, <1>11 DEF ParameterRecords
  <2>2. \A n \in ParameterNames : \E k \in 1..Len(qs) : qs[k].name = n
    <3> TAKE n \in ParameterNames
    <3>1. PICK i \in firsts : ps[i].name = n
      BY <1>8
    <3>2. PICK k \in 1..Len(qs) : f[k] = i
      BY <1>9 DEF Picks
    <3> QED BY <1>11, <3>1, <3>2
  <2> QED BY <1>10, <2>1, <2>2
<1>13. ASSUME NEW k \in 1..Len(qs), NEW day \in Days, ~Hides(TextOf(qs[k].name))
       PROVE  Given(qs[k].versions, day) =
                UNION {Given(d.versions, day) : d \in DeclaredParameters(TextOf(qs[k].name))}
  <2> DEFINE n == qs[k].name
             text == DeclaredParameters(TextOf(n))
             V == Held(program, n)
  <2>1. n \in ParameterNames
    BY <1>10, <1>12
  <2>2. V = {d.versions : d \in text}
    BY <1>13, <2>1 DEF Standing, Valued, TextOf
  <2>3. \A d \in text : Versions(d.versions)
    <3> TAKE d \in text
    <3>1. PICK i \in DOMAIN Declarations : Declarations[i] = d /\ d.kind = "parameter"
      BY DEF DeclaredParameters, Declared, ToSet
    <3>2. WellFormed(d)
      BY <3>1, DeclarationsWellFormed
    <3> QED BY <3>1, <3>2 DEF WellFormed, Versions
  <2>4. \A vs \in V : Versions(vs)
    BY <2>2, <2>3
  <2>5. \A vs, ws \in V : vs = ws \/ Compatible(vs, ws)
    <3> TAKE vs, ws \in V
    <3>1. PICK i \in 1..N : ps[i].name = n /\ vs = ps[i].versions
      BY <1>1 DEF Held
    <3>2. PICK j \in 1..N : ps[j].name = n /\ ws = ps[j].versions
      BY <1>1 DEF Held
    <3>3. i < j \/ j < i \/ i = j
      BY <1>1
    <3>4. CASE i < j
      BY <1>4, <3>1, <3>2, <3>4 DEF Incompatible, Compatible
    <3>5. CASE j < i
      <4>1. \A w \in ws, v \in vs : VersionsOverlap(w, v) => w.value = v.value
        BY <1>4, <3>1, <3>2, <3>5 DEF Incompatible
      <4>2. \A w \in ws, v \in vs : VersionsOverlap(v, w) => VersionsOverlap(w, v)
        BY DEF VersionsOverlap
      <4> QED BY <4>1, <4>2 DEF Compatible
    <3> QED BY <3>1, <3>2, <3>3, <3>4, <3>5
  <2>6. day \in Int
    BY DeclarationsAssumption
  <2> HIDE DEF V
  <2>7. Given(UNION V, day) = UNION {Given(vs, day) : vs \in V}
    BY <2>4, <2>5, <2>6, GivenTogether
  <2>8. UNION {Given(vs, day) : vs \in V} = UNION {Given(d.versions, day) : d \in text}
    BY <2>2
  <2>9. qs[k].versions = UNION V
    BY <1>11 DEF TogetherOf, V
  <2> QED BY <2>7, <2>8, <2>9
<1> QED BY <1>3, <1>10, <1>12, <1>13 DEF ValuesOf

-----------------------------------------------------------------------------
LoweringInductive ==
    /\ Inductive
    /\ outcome = "loaded" => Merging
    /\ pass # "declarations" => outcome = "loaded"
    /\ pass \in {"declarations", "relations", "references"} => place = 1
    /\ pass = "compile" => place = Len(Declarations) + 1
    /\ pass \in {"relations", "references", "sets", "compile"} =>
         place \in 1..(Len(Declarations) + 1) /\ Standing(program, place - 1)
    /\ ValuesAsDeclared

LEMMA LoweringInit1 == LoweringInit => LoweringInductive
<1> SUFFICES ASSUME LoweringInit PROVE LoweringInductive
  OBVIOUS
<1>1. Inductive
  BY InductiveInit DEF LoweringInit
<1>2. outcome = "loading" /\ pass = "declarations" /\ place = 1
  BY DEF LoweringInit, Init
<1> QED BY <1>1, <1>2 DEF LoweringInductive, ValuesAsDeclared

(* What is declared, and whose text names have, does not change once the   *)
(* document is loaded.                                                     *)
LEMMA DeclarationsKept ==
    ASSUME source' = source, frames' = frames
    PROVE  /\ Declarations' = Declarations
           /\ \A S : Declared(S)' = Declared(S)
           /\ Gives' = Gives
           /\ \A n : IdOf(n)' = IdOf(n)
           /\ \A n : Plain(n)' <=> Plain(n)
           /\ BindingsPlain' <=> BindingsPlain
           /\ ParameterNames' = ParameterNames
           /\ ParameterRecords' = ParameterRecords
           /\ \A n : DeclaredParameters(n)' = DeclaredParameters(n)
           /\ \A n : Hides(n)' <=> Hides(n)
           /\ \A n : TextOf(n)' = TextOf(n)
<1>1. Declarations' = Declarations
  BY DEF Declarations
<1>2. \A S : Declared(S)' = Declared(S)
  BY <1>1 DEF Declared
<1>3. \A ref : DeclaredAs(ref)' = DeclaredAs(ref)
  BY <1>2 DEF DeclaredAs, Canonical
<1>4. Gives' = Gives
  BY <1>1 DEF Gives, Declared, DeclaredAs, Canonical
<1>5. \A n : IdOf(n)' = IdOf(n)
  BY <1>1 DEF IdOf, Canonical
<1>6. \A n : Plain(n)' <=> Plain(n)
  BY <1>1 DEF Plain, Records
<1>7. BindingsPlain' <=> BindingsPlain
  BY <1>2, <1>6 DEF BindingsPlain
<1>8. ParameterNames' = ParameterNames
  BY <1>2 DEF ParameterNames
<1>9. ParameterRecords' = ParameterRecords
  BY <1>2, <1>5, <1>8 DEF ParameterRecords
<1>10. \A n : DeclaredParameters(n)' = DeclaredParameters(n)
  BY <1>2 DEF DeclaredParameters
<1>11. \A n : Hides(n)' <=> Hides(n)
  BY <1>10 DEF Hides
<1>12. \A n : TextOf(n)' = TextOf(n)
  BY <1>1, <1>4 DEF TextOf
<1> QED BY <1>1, <1>2, <1>4, <1>5, <1>6, <1>7, <1>8, <1>9, <1>10, <1>11, <1>12

LEMMA StandingKept ==
    ASSUME source' = source, frames' = frames, Standing(program', place' - 1)
    PROVE  Standing(program, place - 1)'
<1>1. Listed(program') /\ Valued(program', place' - 1)
  BY DEF Standing
<1>2. Listed(program)'
  BY <1>1, DeclarationsKept DEF Listed
<1>3. \A n : Held(program, n)' = Held(program', n)
  BY DEF Held
<1>4. Valued(program, place - 1)'
  BY <1>1, <1>3, DeclarationsKept DEF Valued
<1> QED BY <1>2, <1>4 DEF Standing

LEMMA ValuesKept ==
    ASSUME source' = source, frames' = frames, ValuesOf(program')
    PROVE  ValuesAsDeclared'
BY DeclarationsKept DEF ValuesOf, ValuesAsDeclared, ParameterNames

LEMMA NextLoads ==
    ASSUME Inductive, Next
    PROVE  outcome = "loading" /\ (outcome' = "loaded" => Merging')
<1>1. CASE ReturnRoot
  <2>1. /\ source \in Sources /\ outcome = "loading" /\ source' = source
        /\ Path(frames) /\ Len(frames) = 1 /\ frames # <<>>
        /\ frames' = <<[Top EXCEPT !.combined = Merged(Top)]>>
    BY <1>1 DEF ReturnRoot, Inductive
  <2>2. Top \in Calls
    BY <2>1, TopFacts
  <2>3. Merged(Top) \in Seq(Documents)
    BY <2>2, AppendProperties DEF Merged, Calls
  <2>4. frames'[1].combined = Merged(Top)
    BY <2>1, <2>2 DEF Calls
  <2> QED BY <2>1, <2>3, <2>4 DEF Merging
<1>2. CASE ~ReturnRoot
  BY <1>2 DEF Next, Comes, Fresh, Refuse, ImportUnresolved, ImportCycle, ImportLoaded,
              ImportMissing, ImportInvalid, ImportEnters, Return
<1> QED BY <1>1, <1>2

(* What a pass that is not the last has to show.                           *)
LEMMA Passes ==
    ASSUME LoweringInductive, UNCHANGED vars,
           outcome = "loaded" \/ pass' = "declarations",
           pass' \in {"declarations", "relations", "references"} => place' = 1,
           pass' = "compile" => place' = Len(Declarations) + 1,
           pass' \in {"relations", "references", "sets", "compile"} =>
             place' \in 1..(Len(Declarations) + 1) /\ Standing(program', place' - 1),
           pass' = "compiled" /\ BindingsPlain => ValuesOf(program')
    PROVE  LoweringInductive'
<1>1. source' = source /\ frames' = frames /\ outcome' = outcome
  BY DEF vars
<1>2. Inductive'
  BY InductiveNext DEF LoweringInductive
<1>3. outcome' = "loaded" => Merging'
  BY <1>1 DEF LoweringInductive, Merging
<1>4. Declarations' = Declarations /\ (BindingsPlain' <=> BindingsPlain)
  BY <1>1, DeclarationsKept
<1>5. pass' \in {"relations", "references", "sets", "compile"} => Standing(program, place - 1)'
  BY <1>1, StandingKept
<1>6. ValuesAsDeclared'
  <2>1. CASE pass' = "compiled" /\ BindingsPlain
    BY <1>1, <2>1, ValuesKept
  <2>2. CASE ~(pass' = "compiled" /\ BindingsPlain)
    BY <1>4, <2>2 DEF ValuesAsDeclared
  <2> QED BY <2>1, <2>2
<1> QED BY <1>1, <1>2, <1>3, <1>4, <1>5, <1>6 DEF LoweringInductive

LEMMA LowerDeclarationsStep ==
    ASSUME LoweringInductive, LowerDeclarations
    PROVE  LoweringInductive'
<1>1. /\ UNCHANGED vars /\ pass = "declarations" /\ outcome = "loaded" /\ place' = place
      /\ pass' = "relations"
      /\ program' = [parameters |-> LoweredParameters, derived |-> LoweredRules,
                     relations |-> InferredRelations]
  BY DEF LowerDeclarations, Passed
<1>2. Merging /\ place = 1
  BY <1>1 DEF LoweringInductive
<1>3. Standing(program', 0)
  BY <1>1, <1>2, LoweredStanding
<1>4. Len(Declarations) \in Nat
  BY <1>2, DeclarationsWellFormed
<1> QED BY <1>1, <1>2, <1>3, <1>4, Passes

(* A pass that leaves the parameters as they are.                          *)
LEMMA PassedOver ==
    ASSUME LoweringInductive, UNCHANGED vars, NEW next,
           pass \in {"relations", "references", "sets"},
           Passed(next, program'), program'.parameters = program.parameters,
           program' = [parameters |-> program'.parameters, derived |-> program'.derived,
                       relations |-> program'.relations],
           \/ pass = "relations" /\ next = "references"
           \/ pass = "references" /\ next = "sets"
           \/ pass = "sets" /\ next = "compile" /\ place > Len(Declarations)
    PROVE  LoweringInductive'
<1>1. /\ outcome = "loaded" /\ Merging /\ Standing(program, place - 1)
      /\ place \in 1..(Len(Declarations) + 1)
      /\ pass \in {"relations", "references"} => place = 1
  BY DEF LoweringInductive
<1>2. pass' = next /\ place' = place
  BY DEF Passed
<1>3. Standing(program', place' - 1)
  <2>1. PICK k : k = place - 1
    OBVIOUS
  <2>2. Standing(program, k) /\ place' - 1 = k
    BY <1>1, <1>2, <2>1
  <2>3. Standing(program', k)
    BY <2>2, SameParameters
  <2> QED BY <2>2, <2>3
<1>4. Len(Declarations) \in Nat
  BY <1>1, DeclarationsWellFormed
<1>5. /\ pass' \notin {"declarations", "compiled", "relations"}
      /\ pass' = "references" => place' = 1
      /\ pass' = "compile" => place' = Len(Declarations) + 1
      /\ place' \in 1..(Len(Declarations) + 1)
  BY <1>1, <1>2, <1>4
<1> QED BY <1>1, <1>3, <1>5, Passes

LEMMA RefusedStep ==
    ASSUME LoweringInductive, UNCHANGED vars, outcome = "loaded", pass' = "refused"
    PROVE  LoweringInductive'
BY Passes

LEMMA ProgramShape ==
    ASSUME LoweringInductive, pass \in {"relations", "references", "sets", "compile"}
    PROVE  program = [parameters |-> program.parameters, derived |-> program.derived,
                      relations |-> program.relations]
BY DEF LoweringInductive, Standing, Listed

LEMMA AppendRelationsStep ==
    ASSUME LoweringInductive, AppendRelations
    PROVE  LoweringInductive'
<1>1. UNCHANGED vars /\ pass = "relations" /\ outcome = "loaded"
  BY DEF AppendRelations, LoweringInductive
<1>2. CASE RelationsConflict
  BY <1>1, <1>2, RefusedStep DEF AppendRelations, Refused
<1>3. CASE ~RelationsConflict
  <2>1. PICK r : Passed("references", [program EXCEPT !.relations = r])
    BY <1>1, <1>3 DEF AppendRelations
  <2>2. program' = [program EXCEPT !.relations = r] /\ Passed("references", program')
    BY <2>1 DEF Passed
  <2>3. /\ program'.parameters = program.parameters
        /\ program' = [parameters |-> program'.parameters, derived |-> program'.derived,
                       relations |-> program'.relations]
    BY <1>1, <2>2, ProgramShape
  <2> QED BY <1>1, <2>2, <2>3, PassedOver
<1> QED BY <1>2, <1>3

LEMMA RewriteReferencesStep ==
    ASSUME LoweringInductive, RewriteReferences
    PROVE  LoweringInductive'
<1>1. UNCHANGED vars /\ pass = "references" /\ outcome = "loaded"
  BY DEF RewriteReferences, LoweringInductive
<1>2. CASE AritiesConflict
  BY <1>1, <1>2, RefusedStep DEF RewriteReferences, Refused
<1>3. CASE ~AritiesConflict
  <2>1. PICK p : /\ p = [program EXCEPT
                           !.derived = [i \in DOMAIN @ |-> RewrittenRule(@[i])],
                           !.relations = {RewrittenRelation(r) : r \in @}]
                 /\ Passed("sets", WithoutUnused(p, {<<c[2]>> : c \in Rewrites}))
    BY <1>3 DEF RewriteReferences
  <2>2. p.parameters = program.parameters
        /\ p = [parameters |-> p.parameters, derived |-> p.derived, relations |-> p.relations]
    BY <1>1, <2>1, ProgramShape
  <2>3. PICK r : program' = [p EXCEPT !.relations = r] /\ Passed("sets", program')
    BY <2>1 DEF Passed, WithoutUnused
  <2>4. /\ program'.parameters = program.parameters
        /\ program' = [parameters |-> program'.parameters, derived |-> program'.derived,
                       relations |-> program'.relations]
    BY <2>2, <2>3
  <2> QED BY <1>1, <2>3, <2>4, PassedOver
<1> QED BY <1>2, <1>3

LEMMA ApplySetsStep ==
    ASSUME LoweringInductive, ApplySets
    PROVE  LoweringInductive'
<1>1. /\ UNCHANGED vars /\ pass = "sets" /\ outcome = "loaded" /\ Merging
      /\ place \in 1..(Len(Declarations) + 1) /\ Standing(program, place - 1)
      /\ place <= Len(Declarations) /\ place' = place + 1
  BY DEF ApplySets, LoweringInductive
<1>2. pass' \in {pass, "refused"}
  BY DEF ApplySets, Unset, Stopped, SetParameter, SetRule
<1>3. CASE pass' = "refused"
  BY <1>1, <1>3, RefusedStep
<1>4. CASE pass' = "sets" /\ pass' # "refused"
  <2>1. Len(Declarations) \in Nat
    BY <1>1, DeclarationsWellFormed
  <2>2. PICK k : k = place
    OBVIOUS
  <2>3. k \in 1..Len(Declarations) /\ place' - 1 = k /\ place' \in 1..(Len(Declarations) + 1)
    BY <1>1, <2>1, <2>2
  <2>4. Standing(program', k)
    BY <1>1, <1>4, <2>2, <2>3, SetStep
  <2> QED BY <1>1, <1>4, <2>3, <2>4, Passes
<1> QED BY <1>1, <1>2, <1>3, <1>4

LEMMA ResolveAliasesStep ==
    ASSUME LoweringInductive, ResolveAliases
    PROVE  LoweringInductive'
<1>1. UNCHANGED vars /\ pass = "sets" /\ place > Len(Declarations)
  BY DEF ResolveAliases
<1>2. PICK d, names : Passed("compile", WithoutUnused([program EXCEPT !.derived = d], names))
  BY DEF ResolveAliases
<1>3. PICK p : p = [program EXCEPT !.derived = d]
  OBVIOUS
<1>4. p.parameters = program.parameters
      /\ p = [parameters |-> p.parameters, derived |-> p.derived, relations |-> p.relations]
  BY <1>1, <1>3, ProgramShape
<1>5. PICK r : program' = [p EXCEPT !.relations = r] /\ Passed("compile", program')
  BY <1>2, <1>3 DEF Passed, WithoutUnused
<1>6. /\ program'.parameters = program.parameters
      /\ program' = [parameters |-> program'.parameters, derived |-> program'.derived,
                     relations |-> program'.relations]
  BY <1>4, <1>5
<1> QED BY <1>1, <1>5, <1>6, PassedOver

LEMMA CompileParametersStep ==
    ASSUME LoweringInductive, CompileParameters
    PROVE  LoweringInductive'
<1>1. /\ UNCHANGED vars /\ pass = "compile" /\ outcome = "loaded" /\ Merging
      /\ place = Len(Declarations) + 1 /\ Standing(program, place - 1)
      /\ pass' \in {"refused", "compiled"}
  BY DEF CompileParameters, Refused, Passed, LoweringInductive
<1>2. Len(Declarations) \in Nat
  BY <1>1, DeclarationsWellFormed
<1>3. Standing(program, Len(Declarations))
  BY <1>1, <1>2
<1>4. pass' = "compiled" /\ BindingsPlain => ValuesOf(program')
  BY <1>1, <1>3, CompiledValues
<1> QED BY <1>1, <1>4, Passes

LEMMA LoweringStep ==
    LoweringInductive /\ [LoweringNext]_<<vars, lowering>> => LoweringInductive'
<1> SUFFICES ASSUME LoweringInductive, [LoweringNext]_<<vars, lowering>>
             PROVE  LoweringInductive'
  OBVIOUS
<1>1. CASE Next /\ UNCHANGED lowering
  <2>1. Inductive' /\ outcome = "loading" /\ (outcome' = "loaded" => Merging')
    BY <1>1, InductiveNext, NextLoads DEF LoweringInductive
  <2>2. pass' = "declarations" /\ place' = 1
    BY <1>1, <2>1 DEF LoweringInductive, lowering
  <2> QED BY <2>1, <2>2 DEF LoweringInductive, ValuesAsDeclared
<1>2. CASE RefuseDeclarations
  BY <1>2, RefusedStep DEF RefuseDeclarations, Refused
<1>3. CASE UNCHANGED <<vars, lowering>>
  <2>1. UNCHANGED vars /\ pass' = pass /\ place' = place /\ program' = program
    BY <1>3 DEF lowering
  <2>2. pass = "compiled" /\ BindingsPlain => ValuesOf(program)
    BY DEF LoweringInductive, ValuesAsDeclared, ValuesOf, ParameterNames
  <2>3. outcome = "loaded" \/ pass' = "declarations"
    BY <2>1 DEF LoweringInductive
  <2> QED BY <2>1, <2>2, <2>3, Passes DEF LoweringInductive
<1>4. CASE Terminated
  BY <1>3, <1>4 DEF Terminated
<1> QED BY <1>1, <1>2, <1>3, <1>4, LowerDeclarationsStep, AppendRelationsStep,
           RewriteReferencesStep, ApplySetsStep, ResolveAliasesStep, CompileParametersStep
        DEF LoweringNext

THEOREM LoweringInductiveCorrect == LoweringSpec => []LoweringInductive
BY LoweringInit1, LoweringStep, PTL DEF LoweringSpec

(* Loading does not notice what is done with its result.                   *)
THEOREM LoweringLoads == LoweringSpec => []LoadedExact
<1>1. LoweringInductive => LoadedExact
  BY DEF LoweringInductive, Inductive
<1> QED BY <1>1, LoweringInductiveCorrect, PTL

(* For every program: on every day a compiled parameter gives what its     *)
(* text gives, however many modules repeat it and whatever records set it. *)
THEOREM ValuesCorrect == LoweringSpec => []ValuesAsDeclared
<1>1. LoweringInductive => ValuesAsDeclared
  BY DEF LoweringInductive
<1> QED BY <1>1, LoweringInductiveCorrect, PTL
=============================================================================
