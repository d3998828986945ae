---------------------- MODULE TairDocPersistenceProofs ----------------------
(***************************************************************************)
(* What is read back from a file is well formed, and it is what was saved  *)
(* if text can represent it.  Then documents that differ in the names of   *)
(* array elements stay alike whatever command runs on both, so that a file *)
(* keeps up with memory and a restart brings the documents back.           *)
(***************************************************************************)
EXTENDS TairDocPersistence, TairDocCommandsProofs

\* Nothing but names gets lost when the names of elements are left out.
LEMMA BareLabels ==
  ASSUME NEW d, WellFormed(d)
  PROVE  /\ DOMAIN Bare(d) = DOMAIN d
         /\ \A a \in DOMAIN d :
              /\ Bare(d)[a] \in Label /\ Bare(d)[a].t = d[a].t /\ Bare(d)[a].n = d[a].n
              /\ Bare(d)[a].name = IF a # Root /\ d[Parent(a)].t = "array"
                                   THEN NoName ELSE d[a].name
<1>1. \A a \in DOMAIN d : d[a] \in Label
  BY DEF WellFormed, Labelled
<1>2. DOMAIN Bare(d) = DOMAIN d
  BY DEF Bare
<1>3. \A a \in DOMAIN d :
        Bare(d)[a] = IF a # Root /\ d[Parent(a)].t = "array"
                     THEN [d[a] EXCEPT !.name = NoName] ELSE d[a]
  BY DEF Bare
<1> QED
  BY <1>1, <1>2, <1>3 DEF Label

\* A number stays a number or becomes null, everything else stays as it is.
LEMMA PrintedLabelIs ==
  ASSUME NEW label \in Label
  PROVE  /\ PrintedLabel(label) \in Label
         /\ PrintedLabel(label).name = label.name
         /\ label.t # "number" => PrintedLabel(label) = label
         /\ label.t = "number" => PrintedLabel(label).t \notin Container
         /\ label.t = "number" /\ Finite(label.n) /\ Digits[label.n] = label.n =>
              PrintedLabel(label) = label
<1>1. DOMAIN Digits = (-Huge)..Huge
  BY DigitsAssumption
<1>2. \A n \in DOMAIN Digits : Digits[n] \in Int
  BY DigitsAssumption
<1>3. CASE label.t # "number"
  BY <1>3 DEF PrintedLabel
<1>4. CASE label.t = "number" /\ label.n \in DOMAIN Digits
  <2>1. PrintedLabel(label) = [label EXCEPT !.n = Digits[@]]
    BY <1>4 DEF PrintedLabel
  <2> QED
    BY <1>2, <1>4, <2>1 DEF Label, Container
<1>5. CASE label.t = "number" /\ label.n \notin DOMAIN Digits
  <2>1. PrintedLabel(label) = [label EXCEPT !.t = "null", !.n = 0]
    BY <1>5 DEF PrintedLabel
  <2>2. /\ PrintedLabel(label) \in Label /\ PrintedLabel(label).t = "null"
        /\ PrintedLabel(label).name = label.name
    <3>1. "null" \in Container \cup Scalar /\ 0 \in Int
      BY DEF Scalar
    <3>2. label \in [t : Container \cup Scalar, n : Int, name : Name \cup {NoName}]
      BY DEF Label
    <3> QED
      BY <2>1, <3>1, <3>2 DEF Label
  <2>3. ~Finite(label.n)
    BY <1>1, <1>5 DEF Finite
  <2> QED
    BY <1>5, <2>2, <2>3 DEF Container
<1> QED
  BY <1>3, <1>4, <1>5

\* What printing does to each node.
LEMMA PrintedLabels ==
  ASSUME NEW d, WellFormed(d)
  PROVE  /\ DOMAIN Printed(d) = DOMAIN d
         /\ \A a \in DOMAIN d :
              /\ Printed(d)[a] \in Label
              /\ Printed(d)[a] = PrintedLabel(Bare(d)[a])
              /\ Printed(d)[a].name = Bare(d)[a].name
              /\ d[a].t # "number" => Printed(d)[a] = Bare(d)[a]
              /\ d[a].t = "number" => Printed(d)[a].t \notin Container
<1>1. DOMAIN Printed(d) = DOMAIN d /\ \A a \in DOMAIN d : Printed(d)[a] = PrintedLabel(Bare(d)[a])
  BY BareLabels DEF Printed
<1> QED
  BY <1>1, BareLabels, PrintedLabelIs

\* What is printed is the text of a well-formed document.
LEMMA PrintedWellFormed ==
  ASSUME NEW d, WellFormed(d)
  PROVE  WellFormed(Printed(d))
<1> DEFINE e == Printed(d)
<1>1. DOMAIN e = DOMAIN d
  BY PrintedLabels
<1>2. \A a \in DOMAIN d :
        /\ e[a] \in Label
        /\ e[a].name = IF a # Root /\ d[Parent(a)].t = "array" THEN NoName ELSE d[a].name
        /\ d[a].t \in Container => e[a].t = d[a].t /\ e[a].n = d[a].n
        /\ e[a].t \in Container => d[a].t \in Container
  BY PrintedLabels, BareLabels DEF Container
<1> HIDE DEF e
<1>3. Rooted(e) /\ Labelled(e)
  BY <1>1, <1>2 DEF WellFormed, Rooted, Labelled
<1>4. Counted(e)
  BY <1>1, <1>2 DEF WellFormed, Counted
<1>5. \A a \in DOMAIN d : a # Root =>
        /\ Parent(a) \in DOMAIN e
        /\ e[Parent(a)].t \in Container /\ e[Parent(a)].t = d[Parent(a)].t
        /\ a[Len(a)] <= e[Parent(a)].n
  BY <1>1, <1>2 DEF WellFormed, Attached
<1>6. Attached(e)
  BY <1>1, <1>5 DEF Attached
<1>7. Titled(e)
  BY <1>1, <1>2, <1>5 DEF WellFormed, Titled
<1> QED
  BY <1>3, <1>4, <1>6, <1>7 DEF WellFormed, e

\* What the parser returns is a JSON argument.
LEMMA ParsedIsJson ==
  ASSUME NEW d, WellFormed(d), d = [a \in DOMAIN d |-> d[a]]
  PROVE  IsJson(Parse(d))
BY DEF Parse, IsJson

\* A JSON.SET of the root on a missing key, as a rewritten file has it.
LEMMA SetRootEffect ==
  ASSUME NEW json
  PROVE  SetEffect(SetRoot(json), Empty).val = IF json = BadJson THEN Empty ELSE Doc(json)
<1>1. /\ SetRoot(json).path.style = "slash" /\ SetRoot(json).flag = "none"
      /\ SetRoot(json).json = json /\ IsRoot(PathToPointer(SetRoot(json).path))
  BY DEF SetRoot, PathToPointer, IsRoot
<1>2. Empty # Foreign
  BY DEF Empty, Foreign
<1> QED
  BY <1>1, <1>2 DEF SetEffect, Answer, Commit

\* Both forms of a base read back the same.
LEMMA ReloadedIs ==
  ASSUME NEW form \in {"aof", "rdb"}, NEW v
  PROVE  Reloaded(form, v) =
           IF ~IsDoc(v) THEN v
           ELSE IF Parse(Printed(v.root)) = BadJson THEN Empty
           ELSE Doc(Parse(Printed(v.root)))
BY SetRootEffect DEF Reloaded

\* What is read back is a well-formed value.
LEMMA ReloadedIsValue ==
  ASSUME NEW form \in {"aof", "rdb"}, NEW v, IsValue(v)
  PROVE  IsValue(Reloaded(form, v))
<1>1. CASE ~IsDoc(v)
  BY <1>1, ReloadedIs
<1>2. CASE IsDoc(v)
  <2>1. IsJson(Parse(Printed(v.root)))
    <3>1. Printed(v.root) = [a \in DOMAIN Printed(v.root) |-> Printed(v.root)[a]]
      BY DEF Printed
    <3> QED BY <1>2, <3>1, ValueIsDoc, PrintedWellFormed, ParsedIsJson DEF IsDoc
  <2>2. IsValue(Empty)
    BY DEF IsValue
  <2> QED
    BY <1>2, <2>1, <2>2, ReloadedIs, DocIsValue DEF IsJson
<1> QED
  BY <1>1, <1>2

(***************************************************************************)
(* Type correctness.                                                       *)
(***************************************************************************)
\* A call leaves well-formed values in a keyspace.
LEMMA RunIsValue ==
  ASSUME NEW keys, \A i \in Key : IsValue(keys[i]),
         NEW k \in Key, NEW c \in Calls, c.op \in KeyOps
  PROVE  \A i \in Key : IsValue(Run(keys, k, c)[i])
<1> DEFINE w == Effect(c, keys[k]).val
<1>1. IsValue(w)
  BY CallsAssumption, EffectSound
<1>2. Run(keys, k, c) = [keys EXCEPT ![k] = w]
  BY DEF Run
<1> HIDE DEF w
<1> QED
  BY <1>1, <1>2

\* Every step keeps values well formed, in memory and in the files.
LEMMA PersistenceNext == TypeOK /\ [Next]_vars => TypeOK'
<1> SUFFICES ASSUME TypeOK, [Next]_vars PROVE TypeOK'
  OBVIOUS
<1>1. ASSUME NEW k \in Key, NEW c \in Calls, Execute(k, c) PROVE TypeOK'
  <2>1. \A i \in Key : IsValue(db'[i])
    BY <1>1, RunIsValue DEF Execute, TypeOK
  <2>2. \A i \in Key : IsValue(disk'[i])
    BY <1>1, RunIsValue DEF Execute, TypeOK
  <2>3. ASSUME rewrite'.on PROVE \A i \in Key : IsValue(rewrite'.keys[i])
    <3>1. CASE rewrite' = rewrite
      BY <2>3, <3>1 DEF TypeOK
    <3>2. CASE rewrite.on /\ rewrite' = [rewrite EXCEPT !.keys = Run(@, k, c)]
      <4>1. \A i \in Key : IsValue(Run(rewrite.keys, k, c)[i])
        BY <1>1, <3>2, RunIsValue DEF Execute, TypeOK
      <4>2. rewrite'.keys = Run(rewrite.keys, k, c) \/ rewrite'.keys = rewrite.keys
        BY <3>2
      <4> QED
        BY <3>2, <4>1, <4>2 DEF TypeOK
    <3> QED
      BY <1>1, <3>1, <3>2 DEF Execute
  <2> QED
    BY <2>1, <2>2, <2>3 DEF TypeOK
<1>2. ASSUME NEW form \in {"aof", "rdb"}, StartRewrite(form) PROVE TypeOK'
  <2>1. \A i \in Key : IsValue(Reloaded(form, db[i]))
    BY ReloadedIsValue DEF TypeOK
  <2>2. rewrite'.keys = [i \in Key |-> Reloaded(form, db[i])] /\ UNCHANGED <<db, disk>>
    BY <1>2 DEF StartRewrite
  <2> QED
    BY <2>1, <2>2 DEF TypeOK
<1>3. CASE FinishRewrite
  BY <1>3 DEF FinishRewrite, NoRewrite, TypeOK
<1>4. CASE Restart
  BY <1>4 DEF Restart, NoRewrite, TypeOK
<1>5. CASE UNCHANGED vars
  BY <1>5 DEF vars, TypeOK
<1> QED
  BY <1>1, <1>2, <1>3, <1>4, <1>5 DEF Next

\* No rewrite, restart or sequence of calls in between leaves a document that
\* is not well formed, in memory or in a file.
THEOREM SavedTypeCorrect == Spec => []TypeOK
<1>1. Init => TypeOK
  BY DEF Init, NoKeys, NoRewrite, TypeOK, IsValue
<1> QED
  BY <1>1, PersistenceNext, PTL DEF Spec

(***************************************************************************)
(* What text can represent survives.                                       *)
(***************************************************************************)
\* The parser reads back what the printer wrote, and what is read back differs
\* from what was saved in names of array elements at most, whichever the form.
\* (What stands for the parser's failure must not be a document.)
THEOREM ExactSurvives ==
  ASSUME NEW form \in {"aof", "rdb"}, NEW v, IsValue(v), Exact(v),
         ~WellFormed(BadJson)
  PROVE  Same(Reloaded(form, v), v) /\ CanLoad(form, v)
<1>1. CASE ~IsDoc(v)
  BY <1>1, ReloadedIs DEF Same, CanLoad
<1>2. CASE IsDoc(v)
  <2> DEFINE d == v.root
  <2>1. WellFormed(d) /\ v = Doc(d)
    BY <1>2, ValueIsDoc DEF IsDoc
  <2>2. \A a \in DOMAIN d :
          Bare(d)[a] \in Label /\ Bare(d)[a].t = d[a].t /\ Bare(d)[a].n = d[a].n
    BY <2>1, BareLabels
  <2>3. \A a \in DOMAIN d : PrintedLabel(Bare(d)[a]) = Bare(d)[a]
    BY <1>2, <2>2, PrintedLabelIs DEF Exact
  <2>4. Printed(d) = Bare(d)
    <3>1. Printed(d) = [a \in DOMAIN d |-> PrintedLabel(Bare(d)[a])]
      BY <2>1, BareLabels DEF Printed
    <3>2. Printed(d) = [a \in DOMAIN d |-> Bare(d)[a]]
      BY <2>3, <3>1
    <3>3. Bare(d) = [a \in DOMAIN d |-> Bare(d)[a]]
      BY DEF Bare
    <3> QED
      BY <3>2, <3>3
  <2>5. Shallow(Printed(d))
    <3>1. \A a \in DOMAIN d : d[a].t \in Container => Len(a) < NestingLimit
      <4> SUFFICES ASSUME NEW a \in DOMAIN d, d[a].t \in Container PROVE Len(a) < NestingLimit
        OBVIOUS
      <4>1. a \in Address /\ Len(a) + 1 \in 1..NestingLimit
        BY <1>2, <2>1 DEF Exact, WellFormed, Labelled
      <4> QED
        BY <4>1, NestingAssumption DEF Address
    <3> QED
      BY <2>1, <2>2, <2>4, <3>1, BareLabels DEF Shallow
  <2>6. Parse(Printed(d)) = Bare(d) /\ Bare(d) # BadJson
    <3>1. WellFormed(Printed(d))
      BY <2>1, PrintedWellFormed
    <3> QED
      BY <2>4, <2>5, <3>1 DEF Parse
  <2>7. Reloaded(form, v) = Doc(Bare(d))
    BY <1>2, <2>6, ReloadedIs
  <2>8. Bare(Bare(d)) = Bare(d)
    <3>1. \A a \in DOMAIN d :
            /\ a # Root => Parent(a) \in DOMAIN d
            /\ a # Root /\ d[Parent(a)].t = "array" =>
                 [Bare(d)[a] EXCEPT !.name = NoName] = Bare(d)[a]
      BY <2>1, <2>2, BareLabels DEF WellFormed, Attached, Label
    <3>2. DOMAIN Bare(d) = DOMAIN d
      BY <2>1, BareLabels
    <3>3. Bare(Bare(d)) = [a \in DOMAIN d |->
            IF a # Root /\ Bare(d)[Parent(a)].t = "array"
            THEN [Bare(d)[a] EXCEPT !.name = NoName] ELSE Bare(d)[a]]
      BY <3>2 DEF Bare
    <3>4. Bare(Bare(d)) = [a \in DOMAIN d |-> Bare(d)[a]]
      BY <2>2, <3>1, <3>3
    <3>5. Bare(d) = [a \in DOMAIN d |-> Bare(d)[a]]
      BY DEF Bare
    <3> QED
      BY <3>4, <3>5
  <2>9. IsDoc(Doc(Bare(d))) /\ Doc(Bare(d)).root = Bare(d)
    BY DEF IsDoc, Doc, Empty, Foreign
  <2> QED
    BY <1>2, <2>6, <2>7, <2>8, <2>9 DEF Same, CanLoad
<1> QED
  BY <1>1, <1>2

(***************************************************************************)
(* Documents that differ in names of array elements only.                  *)
(***************************************************************************)
Alike(d, e) ==
  /\ DOMAIN d = DOMAIN e
  /\ \A a \in DOMAIN d : d[a].t = e[a].t /\ d[a].n = e[a].n
  /\ \A a \in Address, j \in Position :
       Append(a, j) \in DOMAIN d /\ d[a].t # "array" => d[Append(a, j)].name = e[Append(a, j)].name

\* Such documents are those that are the same without these names.
LEMMA BareIsAlike ==
  ASSUME NEW d, WellFormed(d), NEW e, WellFormed(e)
  PROVE  Bare(d) = Bare(e) <=> Alike(d, e)
<1>1. /\ DOMAIN Bare(d) = DOMAIN d /\ DOMAIN Bare(e) = DOMAIN e
      /\ \A a \in DOMAIN d :
           /\ Bare(d)[a] \in Label /\ Bare(d)[a].t = d[a].t /\ Bare(d)[a].n = d[a].n
           /\ Bare(d)[a].name = IF a # Root /\ d[Parent(a)].t = "array" THEN NoName ELSE d[a].name
      /\ \A a \in DOMAIN e :
           /\ Bare(e)[a] \in Label /\ Bare(e)[a].t = e[a].t /\ Bare(e)[a].n = e[a].n
           /\ Bare(e)[a].name = IF a # Root /\ e[Parent(a)].t = "array" THEN NoName ELSE e[a].name
  BY BareLabels
<1>2. ASSUME Bare(d) = Bare(e) PROVE Alike(d, e)
  <2>0. DOMAIN d = DOMAIN e
    BY <1>1, <1>2
  <2>1. DOMAIN d = DOMAIN e /\ \A a \in DOMAIN d : d[a].t = e[a].t /\ d[a].n = e[a].n
    <3> SUFFICES ASSUME NEW a \in DOMAIN d PROVE d[a].t = e[a].t /\ d[a].n = e[a].n
      BY <2>0
    <3>1. /\ Bare(d)[a].t = d[a].t /\ Bare(d)[a].n = d[a].n
          /\ Bare(e)[a].t = e[a].t /\ Bare(e)[a].n = e[a].n
      BY <1>1, <2>0
    <3> QED BY <1>2, <3>1
  <2>2. ASSUME NEW a \in Address, NEW j \in Position, Append(a, j) \in DOMAIN d, d[a].t # "array"
        PROVE  d[Append(a, j)].name = e[Append(a, j)].name
    <3> DEFINE b == Append(a, j)
    <3>1. b \in DOMAIN d /\ b # Root /\ Parent(b) = a /\ b \in Address
      BY <2>2, AppendParent
    <3> HIDE DEF b
    <3>2. a \in DOMAIN d
      BY <3>1 DEF WellFormed, Attached
    <3>3. e[a].t # "array" /\ b \in DOMAIN e
      BY <2>1, <2>2, <3>1, <3>2, Zenon
    <3>4. Bare(d)[b].name = d[b].name /\ Bare(e)[b].name = e[b].name
      BY <1>1, <2>2, <3>1, <3>3, Zenon
    <3>5. d[b].name = e[b].name
      BY <1>2, <3>4, Zenon
    <3> QED BY <3>5 DEF b
  <2> QED BY ONLY <2>1, <2>2, Zenon DEF Alike
<1>3. ASSUME Alike(d, e) PROVE Bare(d) = Bare(e)
  <2>1. DOMAIN d = DOMAIN e /\ \A a \in DOMAIN d : d[a].t = e[a].t /\ d[a].n = e[a].n
    BY <1>3 DEF Alike
  <2>2. ASSUME NEW a \in DOMAIN d PROVE Bare(d)[a] = Bare(e)[a]
    <3>1. Bare(d)[a].name = Bare(e)[a].name
      <4>1. CASE a = Root
        BY <1>1, <2>1, <4>1 DEF WellFormed, Rooted
      <4>2. CASE a # Root
        <5>1. a \in Address /\ Parent(a) \in DOMAIN d
          BY <4>2 DEF WellFormed, Labelled, Attached
        <5>2. Parent(a) \in Address /\ a[Len(a)] \in Position /\ a = Append(Parent(a), a[Len(a)])
          BY <4>2, <5>1, ParentAppend
        <5>3. d[Parent(a)].t # "array" => d[a].name = e[a].name
          BY <1>3, <5>2 DEF Alike
        <5>4. /\ Bare(d)[a].name = IF d[Parent(a)].t = "array" THEN NoName ELSE d[a].name
              /\ Bare(e)[a].name = IF e[Parent(a)].t = "array" THEN NoName ELSE e[a].name
          BY <1>1, <2>1, <4>2
        <5>5. d[Parent(a)].t = e[Parent(a)].t
          BY <2>1, <5>1, Zenon
        <5> QED BY ONLY <5>3, <5>4, <5>5
      <4> QED BY <4>1, <4>2
    <3>2. /\ Bare(d)[a] \in Label /\ Bare(e)[a] \in Label
          /\ Bare(d)[a].t = Bare(e)[a].t /\ Bare(d)[a].n = Bare(e)[a].n
      BY <1>1, <2>1, Zenon
    <3> DEFINE x == Bare(d)[a]
               y == Bare(e)[a]
    <3>3. x \in Label /\ y \in Label /\ x.t = y.t /\ x.n = y.n /\ x.name = y.name
      BY <3>1, <3>2
    <3> HIDE DEF x, y
    <3>4. x = y
      BY ONLY <3>3 DEF Label
    <3> QED BY <3>4 DEF x, y
  <2>3. Bare(d) = [a \in DOMAIN d |-> Bare(d)[a]] /\ Bare(e) = [a \in DOMAIN e |-> Bare(e)[a]]
    BY DEF Bare
  <2> QED BY <2>1, <2>2, <2>3
<1> QED BY <1>2, <1>3

(***************************************************************************)
(* A pointer leads to the same node in both.                               *)
(***************************************************************************)
\* The members of an object have the same names.
LEMMA FirstNamedAlike ==
  ASSUME NEW d, WellFormed(d), NEW e, Alike(d, e),
         NEW p \in DOMAIN d, d[p].t = "object", NEW S
  PROVE  FirstNamed(d, p, S) = FirstNamed(e, p, S)
<1>1. p \in Address /\ d[p].n \in Nat /\ e[p].n = d[p].n
  BY DEF WellFormed, Labelled, Counted, Container, Alike
<1>2. \A j \in 1..d[p].n : d[Append(p, j)].name = e[Append(p, j)].name
  <2> TAKE j \in 1..d[p].n
  <2>1. Append(p, j) \in DOMAIN d /\ j \in Position
    BY <1>1 DEF WellFormed, Counted, Container, Position
  <2> QED BY <1>1, <2>1 DEF Alike
<1>3. \A i \in 1..d[p].n : \A j \in 1..(i - 1) : j \in 1..d[p].n
  BY <1>1
<1> QED BY ONLY <1>1, <1>2, <1>3, Zenon DEF FirstNamed, Size

\* A token selects the same child in both.
LEMMA SelectsAlike ==
  ASSUME NEW d, WellFormed(d), NEW e, Alike(d, e), NEW a \in DOMAIN d, NEW tok, NEW i
  PROVE  Selects(d, a, tok, i) <=> Selects(e, a, tok, i)
<1>1. d[a].t = e[a].t /\ d[a].n = e[a].n
  BY DEF Alike
<1>2. d[a].t = "object" => FirstNamed(d, a, {SoughtName[tok]}) = FirstNamed(e, a, {SoughtName[tok]})
  BY FirstNamedAlike
<1> QED BY <1>1, <1>2 DEF Selects, Size

\* So what a pointer denotes is the same.
LEMMA PointerAlike ==
  ASSUME NEW d, WellFormed(d), NEW e, Alike(d, e), NEW ptr
  PROVE  GetPointer(d, ptr) = GetPointer(e, ptr)
<1>1. DOMAIN e = DOMAIN d
  BY DEF Alike
<1>2. ASSUME NEW a \in DOMAIN d, NEW toks PROVE Resolves(d, toks, a) <=> Resolves(e, toks, a)
  <2>1. \A j \in 1..Len(a) : Prefix(a, j - 1) \in DOMAIN d
    <3>1. Len(a) \in Nat
      BY LenProperties DEF WellFormed, Labelled, Address
    <3> TAKE j \in 1..Len(a)
    <3>2. j - 1 \in 0..Len(a)
      BY <3>1
    <3> QED BY <3>2, PrefixInTree
  <2>2. \A j \in 1..Len(a) :
          Selects(d, Prefix(a, j - 1), toks[j], a[j]) <=> Selects(e, Prefix(a, j - 1), toks[j], a[j])
    BY <2>1, SelectsAlike
  <2> QED BY ONLY <2>2, Zenon DEF Resolves
<1> QED BY ONLY <1>1, <1>2, Zenon DEF GetPointer

\* The container a patch works on.
LEMMA HolderAlike ==
  ASSUME NEW d, WellFormed(d), NEW e, Alike(d, e), NEW ptr
  PROVE  Holder(d, ptr) = Holder(e, ptr)
BY PointerAlike, Zenon DEF Holder

\* What a patch takes out is at the same place.
LEMMA DetachPathAlike ==
  ASSUME NEW d, WellFormed(d), NEW e, Alike(d, e), NEW ptr \in Pointer
  PROVE  DetachPath(d, ptr) = DetachPath(e, ptr)
<1>1. Holder(d, ptr) = Holder(e, ptr) /\ Holder(d, ptr) \subseteq DOMAIN d
  BY HolderAlike, HolderOnce
<1>2. ASSUME NEW p \in DOMAIN d, NEW tok PROVE Detached(d, p, tok) = Detached(e, p, tok)
  <2>1. d[p].t = e[p].t /\ d[p].n = e[p].n
    BY DEF Alike
  <2>2. d[p].t = "object" =>
          FirstNamed(d, p, SameFold(ChildName[tok])) = FirstNamed(e, p, SameFold(ChildName[tok]))
    BY FirstNamedAlike
  <2> QED BY <2>1, <2>2, Zenon DEF Detached, Size
<1> DEFINE tok == LastTok(ptr)
           places(p, D) == {<<p, i>> : i \in D}
<1>3. \A p \in Holder(d, ptr) : Detached(d, p, tok) = Detached(e, p, tok)
  BY <1>1, <1>2
<1>4. /\ DetachPath(d, ptr) = UNION {places(p, Detached(d, p, tok)) : p \in Holder(d, ptr)}
      /\ DetachPath(e, ptr) = UNION {places(p, Detached(e, p, tok)) : p \in Holder(e, ptr)}
  BY DEF DetachPath
<1> HIDE DEF tok, places
<1>5. {places(p, Detached(d, p, tok)) : p \in Holder(d, ptr)}
        = {places(p, Detached(e, p, tok)) : p \in Holder(e, ptr)}
  BY ONLY <1>1, <1>3, Zenon
<1> QED BY ONLY <1>4, <1>5, Zenon

(***************************************************************************)
(* Changes of child lists keep documents alike.                            *)
(***************************************************************************)
\* Taking the same children out of both.
LEMMA DetachAlike ==
  ASSUME NEW d, WellFormed(d), NEW e, WellFormed(e), Alike(d, e),
         NEW p \in DOMAIN d, NEW i \in Position, NEW k \in Nat
  PROVE  Alike(DetachItems(d, p, i, k), DetachItems(e, p, i, k))
<1> DEFINE f == DetachItems(d, p, i, k)
           g == DetachItems(e, p, i, k)
           at(b) == Shift(p, i, k, b)
<1>1. p \in Address /\ p \in DOMAIN e /\ DOMAIN e = DOMAIN d /\ Labelled(d) /\ Labelled(e) /\ k \in Int
  BY DEF WellFormed, Labelled, Alike
<1>2. /\ \A b : b \in DOMAIN f <=> b \in Address /\ at(b) \in DOMAIN d
      /\ \A b : b \in DOMAIN g <=> b \in Address /\ at(b) \in DOMAIN e
      /\ \A b \in DOMAIN f : f[b] = IF b = p THEN Resized(d[p], -k) ELSE d[at(b)]
      /\ \A b \in DOMAIN g : g[b] = IF b = p THEN Resized(e[p], -k) ELSE e[at(b)]
  BY <1>1, DetachDomain
<1>3. at(p) = p /\ \A b \in Address, j \in Position :
        /\ Append(b, j) \in Address
        /\ b = p => at(Append(b, j)) = Append(p, IF j >= i THEN j + k ELSE j)
        /\ b # p => at(Append(b, j)) = Append(at(b), j)
  BY <1>1, ShiftAppend, ItselfOutside
<1>4. /\ Resized(d[p], -k).t = d[p].t /\ Resized(d[p], -k).n = d[p].n - k
      /\ Resized(d[p], -k).name = d[p].name
      /\ Resized(e[p], -k).t = e[p].t /\ Resized(e[p], -k).n = e[p].n - k
      /\ Resized(e[p], -k).name = e[p].name
  BY <1>1, ResizedLabel DEF Labelled
<1> HIDE DEF f, g, at
<1>5. DOMAIN f = DOMAIN g
  <2>1. \A b : b \in DOMAIN f <=> b \in DOMAIN g
    BY <1>1, <1>2, Zenon
  <2> QED BY <2>1 DEF f, g, DetachItems
<1>6. ASSUME NEW b \in DOMAIN f
      PROVE  /\ f[b].t = d[at(b)].t /\ g[b].t = e[at(b)].t
             /\ f[b].name = d[at(b)].name /\ g[b].name = e[at(b)].name
             /\ f[b].n = g[b].n
  <2>1. at(b) \in DOMAIN d /\ d[at(b)].n = e[at(b)].n /\ d[p].n = e[p].n
    BY <1>1, <1>2 DEF Alike
  <2>2. CASE b = p
    BY <1>2, <1>3, <1>4, <1>5, <2>1, <2>2
  <2>3. CASE b # p
    BY <1>2, <1>3, <1>5, <2>1, <2>3, Zenon
  <2> QED BY <2>2, <2>3
<1>7. \A b \in DOMAIN f : f[b].t = g[b].t /\ f[b].n = g[b].n
  BY <1>1, <1>2, <1>6 DEF Alike
<1>8. ASSUME NEW a \in Address, NEW j \in Position, Append(a, j) \in DOMAIN f, f[a].t # "array"
      PROVE  f[Append(a, j)].name = g[Append(a, j)].name
  <2>1. PICK m \in Position : at(Append(a, j)) = Append(at(a), m) /\ at(a) \in Address
    <3>1. at(a) \in Address
      BY <1>1, ShiftUp DEF at
    <3>2. CASE a = p
      <4>1. (IF j >= i THEN j + k ELSE j) \in Position
        BY DEF Position
      <4> QED BY <1>3, <3>1, <3>2, <4>1
    <3>3. CASE a # p
      BY <1>3, <3>1, <3>3
    <3> QED BY <3>2, <3>3
  <2>2. Append(at(a), m) \in DOMAIN d
    BY <1>2, <1>8, <2>1
  <2>3. at(a) \in DOMAIN d
    <3>1. Append(at(a), m) # Root /\ Parent(Append(at(a), m)) = at(a)
      BY <2>1, AppendParent
    <3> QED BY <2>2, <3>1 DEF WellFormed, Attached
  <2>4. a \in DOMAIN f
    BY <1>2, <2>3
  <2>5. d[at(a)].t # "array"
    BY <1>6, <1>8, <2>4
  <2>6. d[Append(at(a), m)].name = e[Append(at(a), m)].name
    BY <2>1, <2>2, <2>5 DEF Alike
  <2> QED BY <1>6, <1>8, <2>1, <2>6
<1>9. Alike(f, g)
  BY ONLY <1>5, <1>7, <1>8, Zenon DEF Alike
<1> QED BY <1>9 DEF f, g

\* Putting the same documents into both at the same place.
LEMMA InsertAlike ==
  ASSUME NEW d, WellFormed(d), NEW e, WellFormed(e), Alike(d, e),
         NEW p \in DOMAIN d, NEW i \in Position,
         NEW subs, NEW k \in Nat, k = Len(subs), \A j \in 1..k : Labelled(subs[j])
  PROVE  Alike(InsertItems(d, p, i, subs), InsertItems(e, p, i, subs))
<1> DEFINE f == InsertItems(d, p, i, subs)
           g == InsertItems(e, p, i, subs)
           at(b)   == Shift(p, i, -k, b)
           in(b)   == InBlock(p, i, k, b)
           from(b) == subs[Turn(p, b) - i + 1]
           put(b)  == from(b)[Rest(p, b)]
<1>1. p \in Address /\ p \in DOMAIN e /\ DOMAIN e = DOMAIN d /\ Labelled(d) /\ Labelled(e) /\ k \in Int
  BY DEF WellFormed, Labelled, Alike
<1>2. /\ \A b : b \in DOMAIN f <=>
              b \in Address /\ IF in(b) THEN Rest(p, b) \in DOMAIN from(b) ELSE at(b) \in DOMAIN d
      /\ \A b \in DOMAIN f : f[b] = IF b = p THEN Resized(d[p], k)
                            ELSE IF in(b) THEN put(b) ELSE d[at(b)]
  BY <1>1, InsertDomain
<1>3. /\ \A b : b \in DOMAIN g <=>
              b \in Address /\ IF in(b) THEN Rest(p, b) \in DOMAIN from(b) ELSE at(b) \in DOMAIN e
      /\ \A b \in DOMAIN g : g[b] = IF b = p THEN Resized(e[p], k)
                            ELSE IF in(b) THEN put(b) ELSE e[at(b)]
  BY <1>1, InsertDomain
<1>4. at(p) = p /\ ~in(p)
  BY <1>1, ItselfOutside
<1>5. /\ Resized(d[p], k).t = d[p].t /\ Resized(d[p], k).n = d[p].n + k
      /\ Resized(d[p], k).name = d[p].name
      /\ Resized(e[p], k).t = e[p].t /\ Resized(e[p], k).n = e[p].n + k
      /\ Resized(e[p], k).name = e[p].name
  BY <1>1, ResizedLabel DEF Labelled
<1>6. ASSUME NEW a \in Address, NEW j \in Position, ~in(Append(a, j))
      PROVE  \E m \in Int : at(Append(a, j)) = Append(at(a), m) /\ ~in(a)
  <2>1. CASE a = p
    <3>1. j \notin i..(i + k - 1)
      BY <1>1, <1>6, <2>1, ChildAppend
    <3>2. at(Append(a, j)) = Append(p, IF j < i THEN j ELSE j - k)
      BY <1>1, <2>1, <3>1, ChildAppend
    <3>3. (IF j < i THEN j ELSE j - k) \in Int
      BY DEF Position
    <3> QED BY <1>4, <2>1, <3>2, <3>3
  <2>2. CASE a # p
    <3>1. ~in(a)
      BY <1>1, <1>6, BlockAppend
    <3>2. at(Append(a, j)) = Append(at(a), j)
      BY <1>1, <2>2, <3>1, OutsideAppend
    <3> QED BY <3>1, <3>2 DEF Position
  <2> QED BY <2>1, <2>2
<1> HIDE DEF f, g, at, in, from, put
<1>7. DOMAIN f = DOMAIN g
  <2>1. \A b : b \in DOMAIN f <=> b \in DOMAIN g
    BY <1>1, <1>2, <1>3, Zenon
  <2> QED BY <2>1 DEF f, g, InsertItems
<1>8. ASSUME NEW b \in DOMAIN f, in(b) PROVE f[b] = g[b]
  BY <1>2, <1>3, <1>4, <1>7, <1>8, Zenon
<1>9. ASSUME NEW b \in DOMAIN f, ~in(b)
      PROVE  /\ at(b) \in DOMAIN d
             /\ f[b].t = d[at(b)].t /\ g[b].t = e[at(b)].t
             /\ f[b].name = d[at(b)].name /\ g[b].name = e[at(b)].name
             /\ f[b].n = g[b].n
  <2>1. at(b) \in DOMAIN d /\ d[at(b)].n = e[at(b)].n /\ d[p].n = e[p].n
    BY <1>1, <1>2, <1>9 DEF Alike
  <2>2. CASE b = p
    BY <1>2, <1>3, <1>4, <1>5, <1>7, <2>1, <2>2
  <2>3. CASE b # p
    BY <1>2, <1>3, <1>7, <1>9, <2>1, <2>3, Zenon
  <2> QED BY <2>2, <2>3
<1>10. \A b \in DOMAIN f : f[b].t = g[b].t /\ f[b].n = g[b].n
  BY <1>8, <1>9 DEF Alike
<1>11. ASSUME NEW a \in Address, NEW j \in Position, Append(a, j) \in DOMAIN f, f[a].t # "array"
       PROVE  f[Append(a, j)].name = g[Append(a, j)].name
  <2>1. CASE in(Append(a, j))
    BY <1>8, <1>11, <2>1
  <2>2. CASE ~in(Append(a, j))
    <3>1. PICK m \in Int : at(Append(a, j)) = Append(at(a), m) /\ ~in(a)
      BY <1>6, <2>2
    <3>2. Append(at(a), m) \in DOMAIN d
      BY <1>9, <1>11, <2>2, <3>1
    <3>3. at(a) \in Address
      BY <1>1, <3>1, ShiftDown DEF at, in
    <3>4. m \in Position
      <4>1. Append(at(a), m) \in Seq(Position)
        BY <1>1, <3>2 DEF Labelled, Address
      <4>2. at(a) \in Seq(Int) /\ Len(at(a)) \in Nat
        BY <3>3, LenProperties DEF Address, Position
      <4>3. /\ Len(Append(at(a), m)) = Len(at(a)) + 1
            /\ Append(at(a), m)[Len(at(a)) + 1] = m
        BY <4>2, AppendProperties
      <4>4. Append(at(a), m)[Len(at(a)) + 1] \in Position
        BY <4>1, <4>2, <4>3, ElementOfSeq
      <4> QED BY <4>3, <4>4
    <3>5. at(a) \in DOMAIN d
      <4>1. Append(at(a), m) # Root /\ Parent(Append(at(a), m)) = at(a)
        BY <3>3, <3>4, AppendParent
      <4> QED BY <3>2, <4>1 DEF WellFormed, Attached
    <3>6. a \in DOMAIN f
      BY <1>2, <3>1, <3>5
    <3>7. d[at(a)].t # "array"
      BY <1>9, <1>11, <3>1, <3>6
    <3>8. d[Append(at(a), m)].name = e[Append(at(a), m)].name
      BY <3>2, <3>3, <3>4, <3>7 DEF Alike
    <3> QED BY <1>9, <1>11, <2>2, <3>1, <3>8
  <2> QED BY <2>1, <2>2
<1>12. Alike(f, g)
  BY ONLY <1>7, <1>10, <1>11, Zenon DEF Alike
<1> QED BY <1>12 DEF f, g

\* Putting a member into an object: the member it replaces is the same.
LEMMA PutMemberAlike ==
  ASSUME NEW d, WellFormed(d), NEW e, WellFormed(e), Alike(d, e),
         NEW p \in DOMAIN d, d[p].t = "object",
         NEW name \in Name, NEW value, WellFormed(value)
  PROVE  Alike(PutMember(d, p, name, value), PutMember(e, p, name, value))
<1> DEFINE old  == FirstNamed(d, p, {name})
           i    == CHOOSE j \in old : TRUE
           rid(x) == IF old = {} THEN x ELSE Without(x, <<p, i>>)
           subs == <<Named(value, name)>>
<1>1. /\ p \in DOMAIN e /\ e[p].t = "object" /\ e[p].n = d[p].n /\ d[p].n \in Nat
      /\ d[p].t \in Container /\ e[p].t \in Container
  BY DEF Alike, WellFormed, Counted, Container
<1>2. FirstNamed(e, p, {name}) = old
  BY FirstNamedAlike
<1>3. old # {} => i \in 1..d[p].n /\ i \in Position
  <2>1. old # {} => i \in old
    BY Zenon
  <2>2. old \subseteq 1..d[p].n
    BY <1>1, FirstNamedType
  <2> HIDE DEF i, old
  <2>3. 1..d[p].n \subseteq Position
    BY <1>1 DEF Position
  <2> QED BY <2>1, <2>2, <2>3
<1>4. Alike(rid(d), rid(e)) /\ WellFormed(rid(d)) /\ WellFormed(rid(e))
  <2>1. CASE old = {}
    BY <2>1
  <2>2. CASE old # {}
    <3> HIDE DEF i
    <3>1. i \in 1..d[p].n /\ i \in Position /\ i \in 1..e[p].n
      BY <1>1, <1>3, <2>2
    <3>2. WellFormed(Without(d, <<p, i>>)) /\ WellFormed(Without(e, <<p, i>>))
      BY <1>1, <3>1, WithoutWellFormed
    <3>3. Alike(Without(d, <<p, i>>), Without(e, <<p, i>>))
      BY <3>1, DetachAlike DEF Without
    <3> QED BY <2>2, <3>2, <3>3
  <2> QED BY <2>1, <2>2
<1>5. p \in DOMAIN rid(d) /\ rid(d)[p].n \in Nat /\ rid(d)[p].n = rid(e)[p].n
  <2>1. p \in DOMAIN rid(d) /\ rid(d)[p].t \in Container
    <3> HIDE DEF i
    <3> QED BY <1>1, <1>3, WithoutWellFormed DEF i
  <2> HIDE DEF rid
  <2> QED BY <1>4, <2>1 DEF Alike, WellFormed, Counted
<1>6. Len(subs) = 1 /\ \A j \in 1..1 : Labelled(subs[j])
  BY NamedIsBranch DEF Branch
<1> HIDE DEF subs
<1>7. /\ PutMember(d, p, name, value) = InsertItems(rid(d), p, rid(d)[p].n + 1, subs)
      /\ PutMember(e, p, name, value) = InsertItems(rid(e), p, rid(d)[p].n + 1, subs)
  BY <1>2, <1>5 DEF PutMember, AddItems, Size, subs
<1> HIDE DEF rid
<1>8. rid(d)[p].n + 1 \in Position /\ 1 \in Nat
  BY <1>5 DEF Position
<1> QED BY <1>4, <1>5, <1>6, <1>7, <1>8, InsertAlike

\* What a patch reports is the same, and what it leaves is alike.
AlikePatched(x, y) == x.status = y.status /\ Alike(x.doc, y.doc)

\* A document is like itself.
LEMMA AlikeItself == \A d : Alike(d, d)
BY DEF Alike

\* Adding by a pointer reports the same, and leaves the documents alike.
LEMMA AddToAlike ==
  ASSUME NEW d, WellFormed(d), NEW e, WellFormed(e), Alike(d, e),
         NEW ptr \in Pointer, NEW value, WellFormed(value)
  PROVE  AlikePatched(AddTo(d, ptr, value), AddTo(e, ptr, value))
<1> DEFINE p   == CHOOSE a \in Holder(d, ptr) : TRUE
           tok == LastTok(ptr)
           item == <<Named(value, ValueName)>>
<1>1. Holder(e, ptr) = Holder(d, ptr)
  BY HolderAlike
<1>2. \A st : AlikePatched(Patched(d, st), Patched(e, st))
  BY DEF AlikePatched, Patched
<1>3. CASE Holder(d, ptr) = {}
  BY <1>1, <1>2, <1>3 DEF AddTo
<1>4. CASE Holder(d, ptr) # {}
  <2>1. /\ p \in DOMAIN d /\ d[p].t = e[p].t /\ d[p].n = e[p].n /\ p \in DOMAIN e
    BY <1>4, HolderOnce DEF Alike
  <2>2. ptr.toks # <<>>
    BY <1>4 DEF Holder
  <2>3. tok \in Tok /\ Index[tok] \in Nat \cup {-1} /\ ChildName[tok] \in Name
    BY <2>2, PointerParts
  <2>4. /\ AddTo(d, ptr, value) =
             CASE d[p].t = "array"  -> AddToArray(d, p, tok, value)
               [] d[p].t = "object" -> Patched(PutMember(d, p, ChildName[tok], value), 0)
               [] OTHER             -> Patched(d, 9)
        /\ AddTo(e, ptr, value) =
             CASE e[p].t = "array"  -> AddToArray(e, p, tok, value)
               [] e[p].t = "object" -> Patched(PutMember(e, p, ChildName[tok], value), 0)
               [] OTHER             -> Patched(e, 9)
    BY <1>1, <1>4 DEF AddTo
  <2> HIDE DEF p, tok
  <2>5. CASE d[p].t = "array"
    <3>1. d[p].n \in Nat
      BY <2>1, <2>5 DEF WellFormed, Counted, Container
    <3>2. Len(item) = 1 /\ \A j \in 1..1 : Labelled(item[j])
      BY NamedIsBranch, NameAssumption DEF Branch
    <3> HIDE DEF item
    <3>3. \A i \in Position : Alike(InsertItems(d, p, i, item), InsertItems(e, p, i, item))
      BY <2>1, <3>2, InsertAlike
    <3>4. d[p].n + 1 \in Position /\ (Index[tok] # -1 => Index[tok] + 1 \in Position)
      BY <2>3, <3>1 DEF Position
    <3>5. /\ AddItems(d, p, item) = InsertItems(d, p, d[p].n + 1, item)
          /\ AddItems(e, p, item) = InsertItems(e, p, d[p].n + 1, item)
      BY <2>1 DEF AddItems, Size
    <3>6. \A i \in Position : AlikePatched(Patched(InsertItems(d, p, i, item), 0),
                                          Patched(InsertItems(e, p, i, item), 0))
      BY <3>3 DEF AlikePatched, Patched
    <3>7. /\ AddToArray(d, p, tok, value) =
               IF tok = Dash THEN Patched(AddItems(d, p, item), 0)
               ELSE IF Index[tok] = -1 THEN Patched(d, 11)
               ELSE IF Index[tok] > d[p].n THEN Patched(d, 10)
               ELSE Patched(InsertItems(d, p, Index[tok] + 1, item), 0)
          /\ AddToArray(e, p, tok, value) =
               IF tok = Dash THEN Patched(AddItems(e, p, item), 0)
               ELSE IF Index[tok] = -1 THEN Patched(e, 11)
               ELSE IF Index[tok] > d[p].n THEN Patched(e, 10)
               ELSE Patched(InsertItems(e, p, Index[tok] + 1, item), 0)
      BY <2>1 DEF AddToArray, Size, item
    <3>8. AlikePatched(AddToArray(d, p, tok, value), AddToArray(e, p, tok, value))
      BY <1>2, <3>4, <3>5, <3>6, <3>7, Zenon
    <3> QED BY <2>1, <2>4, <2>5, <3>8
  <2>6. CASE d[p].t = "object"
    <3>1. Alike(PutMember(d, p, ChildName[tok], value), PutMember(e, p, ChildName[tok], value))
      BY <2>1, <2>3, <2>6, PutMemberAlike
    <3> QED BY <2>1, <2>4, <2>6, <3>1 DEF AlikePatched, Patched
  <2>7. CASE d[p].t \notin {"array", "object"}
    BY <1>2, <2>1, <2>4, <2>7
  <2> QED BY <2>5, <2>6, <2>7
<1> QED BY <1>3, <1>4

\* So does each of the three patches.
LEMMA PatchesAlike ==
  ASSUME NEW d, WellFormed(d), NEW e, WellFormed(e), Alike(d, e), NEW ptr \in Pointer
  PROVE  /\ AlikePatched(PatchRemove(d, ptr), PatchRemove(e, ptr))
         /\ \A value : WellFormed(value) =>
              /\ AlikePatched(PatchAdd(d, ptr, value), PatchAdd(e, ptr, value))
              /\ AlikePatched(PatchReplace(d, ptr, value), PatchReplace(e, ptr, value))
<1> DEFINE old == DetachPath(d, ptr)
           pl  == CHOOSE x \in old : TRUE
<1>1. DetachPath(e, ptr) = old
  BY DetachPathAlike
<1>2. \A st : AlikePatched(Patched(d, st), Patched(e, st))
  BY DEF AlikePatched, Patched
<1>3. \A value, st : AlikePatched(Patched(value, st), Patched(value, st))
  BY AlikeItself DEF AlikePatched, Patched
<1>4. ASSUME old # {}
      PROVE  /\ WellFormed(Without(d, pl)) /\ WellFormed(Without(e, pl))
             /\ Alike(Without(d, pl), Without(e, pl))
  <2>1. pl \in old
    BY <1>4
  <2> HIDE DEF pl
  <2>2. PICK p \in DOMAIN d, i \in Int :
          /\ pl = <<p, i>> /\ i \in 1..d[p].n
          /\ d[p].t \in Container /\ d[p].n \in Nat
    BY <2>1, DetachPathType
  <2>3. p \in DOMAIN e /\ e[p].t = d[p].t /\ e[p].n = d[p].n /\ i \in Position
    BY <2>2 DEF Alike, Position
  <2>4. WellFormed(Without(d, <<p, i>>)) /\ WellFormed(Without(e, <<p, i>>))
    BY <2>2, <2>3, WithoutWellFormed
  <2>5. Alike(Without(d, <<p, i>>), Without(e, <<p, i>>))
    BY <2>3, DetachAlike DEF Without
  <2> QED BY <2>2, <2>4, <2>5
<1> HIDE DEF pl
<1>5. AlikePatched(PatchRemove(d, ptr), PatchRemove(e, ptr))
  BY <1>1, <1>2, <1>4 DEF PatchRemove, AlikePatched, Patched, pl
<1>6. ASSUME NEW value, WellFormed(value)
      PROVE  AlikePatched(PatchAdd(d, ptr, value), PatchAdd(e, ptr, value))
  BY <1>3, <1>6, AddToAlike, Zenon DEF PatchAdd
<1>7. ASSUME NEW value, WellFormed(value)
      PROVE  AlikePatched(PatchReplace(d, ptr, value), PatchReplace(e, ptr, value))
  <2>1. /\ PatchReplace(d, ptr, value) =
             IF IsRoot(ptr) THEN Patched(value, 0) ELSE IF old = {} THEN Patched(d, 13)
             ELSE AddTo(Without(d, pl), ptr, value)
        /\ PatchReplace(e, ptr, value) =
             IF IsRoot(ptr) THEN Patched(value, 0) ELSE IF old = {} THEN Patched(e, 13)
             ELSE AddTo(Without(e, pl), ptr, value)
    BY <1>1 DEF PatchReplace, pl
  <2>2. old # {} => AlikePatched(AddTo(Without(d, pl), ptr, value), AddTo(Without(e, pl), ptr, value))
    BY <1>4, <1>7, AddToAlike
  <2> QED BY <1>2, <1>3, <2>1, <2>2, Zenon
<1> QED BY <1>5, <1>6, <1>7

(***************************************************************************)
(* A command does the same to values that differ in names of elements.     *)
(***************************************************************************)
\* Values that are the same but for such names.
Like(v, w) == v = w \/ (IsDoc(v) /\ IsDoc(w) /\ Alike(v.root, w.root))

\* Effects that leave such values, and are propagated or not.
LikeEffects(x, y) == x.sent = y.sent /\ Like(x.val, y.val)

\* Two documents of the kind, the case that is not trivial.
Twins(v, w) ==
  /\ IsValue(v) /\ IsDoc(v) /\ IsValue(w) /\ IsDoc(w)
  /\ Alike(v.root, w.root)

\* On well-formed values Like is the relation that RestartKeepsDocuments names.
LEMMA LikeIsSame ==
  ASSUME NEW v, IsValue(v), NEW w, IsValue(w)
  PROVE  Like(v, w) <=> Same(v, w)
<1>1. IsDoc(v) => WellFormed(v.root)
  BY ValueIsDoc DEF IsDoc
<1>2. IsDoc(w) => WellFormed(w.root)
  BY ValueIsDoc DEF IsDoc
<1>3. IsDoc(v) /\ IsDoc(w) => (Bare(v.root) = Bare(w.root) <=> Alike(v.root, w.root))
  BY <1>1, <1>2, BareIsAlike
<1> QED BY <1>3, Zenon DEF Like, Same

\* Documents that are alike make values that are, also where a childless one is
\* deleted with its key.
LEMMA LikeDocs ==
  ASSUME NEW d, NEW e, Alike(d, e)
  PROVE  Like(Doc(d), Doc(e)) /\ Like(DropIfChildless(d), DropIfChildless(e))
<1>1. \A x : IsDoc(Doc(x)) /\ Doc(x).root = x
  BY DEF IsDoc, Doc, Empty, Foreign
<1>2. Like(Doc(d), Doc(e))
  <2>1. IsDoc(Doc(d)) /\ IsDoc(Doc(e)) /\ Doc(d).root = d /\ Doc(e).root = e
    BY <1>1
  <2> QED BY <2>1 DEF Like
<1>3. DOMAIN d = DOMAIN e
  BY DEF Alike
<1>4. CASE DOMAIN d = {Root}
  <2>1. DropIfChildless(d) = Empty /\ DropIfChildless(e) = Empty
    BY <1>3, <1>4 DEF DropIfChildless
  <2> QED BY <1>2, <2>1 DEF Like
<1>5. CASE DOMAIN d # {Root}
  BY <1>2, <1>3, <1>5, Zenon DEF DropIfChildless
<1> QED BY <1>2, <1>4, <1>5

\* An effect that is not propagated.
LEMMA SameAnswer == \A v, w, r, s : Like(v, w) => LikeEffects(Answer(v, r), Answer(w, s))
BY DEF LikeEffects, Answer

\* An effect that is.
LEMMA SameCommit == \A v, w, r, s : Like(v, w) => LikeEffects(Commit(v, r), Commit(w, s))
BY DEF LikeEffects, Commit

\* A path leads to the same node of both, which has the same type and count.
LEMMA TwinsFind ==
  ASSUME NEW c, c.path \in Path, NEW v, NEW w, Twins(v, w)
  PROVE  /\ Like(v, w)
         /\ WellFormed(v.root) /\ WellFormed(w.root) /\ Alike(v.root, w.root)
         /\ v = Doc(v.root) /\ w = Doc(w.root)
         /\ Found(c, v) = Found(c, w) /\ Node(c, v) = Node(c, w)
         /\ Found(c, v) # {} =>
              /\ Node(c, v) \in DOMAIN v.root /\ Node(c, v) \in DOMAIN w.root
              /\ v.root[Node(c, v)].t = w.root[Node(c, v)].t
              /\ v.root[Node(c, v)].n = w.root[Node(c, v)].n
<1>1. /\ v = Doc(v.root) /\ w = Doc(w.root)
      /\ WellFormed(v.root) /\ WellFormed(w.root) /\ Alike(v.root, w.root)
  BY ValueIsDoc DEF Twins, IsDoc
<1>2. Found(c, v) = Found(c, w)
  BY <1>1, PointerAlike DEF Found
<1>3. Node(c, v) = Node(c, w)
  BY <1>2 DEF Node
<1>4. Found(c, v) # {} => Node(c, v) \in DOMAIN v.root
  BY <1>1, FoundType
<1>5. Like(v, w)
  BY DEF Twins, Like
<1> QED BY <1>1, <1>2, <1>3, <1>4, <1>5 DEF Alike

\* The common starts of the handlers let both through, or neither.
LEMMA OnNodeLike ==
  ASSUME NEW c, c.path \in Path, NEW v, NEW w, Twins(v, w), NEW missing, NEW t,
         NEW then, NEW thenw,
         Reaches(c, v, t) => LikeEffects(then, thenw)
  PROVE  LikeEffects(OnNode(c, v, missing, t, then), OnNode(c, w, missing, t, thenw))
<1>1. /\ Found(c, v) = Found(c, w) /\ Node(c, v) = Node(c, w) /\ Like(v, w)
      /\ Found(c, v) # {} => v.root[Node(c, v)].t = w.root[Node(c, v)].t
  BY TwinsFind
<1>2. Reaches(c, v, t) <=> Reaches(c, w, t)
  <2>1. v # Empty /\ v # Foreign /\ w # Empty /\ w # Foreign
    BY DEF Twins, IsDoc
  <2> QED BY <1>1, <2>1, Zenon DEF Reaches
<1>3. CASE Reaches(c, v, t)
  <2>1. OnNode(c, v, missing, t, then) = then /\ OnNode(c, w, missing, t, thenw) = thenw
    BY <1>2, <1>3, OnNodeCases
  <2> QED BY <1>3, <2>1
<1>4. CASE ~Reaches(c, v, t)
  <2>1. PICK r : OnNode(c, v, missing, t, then) = Answer(v, r)
    BY <1>4, OnNodeCases
  <2>2. PICK s : OnNode(c, w, missing, t, thenw) = Answer(w, s)
    BY <1>2, <1>4, OnNodeCases
  <2> QED BY <1>1, <2>1, <2>2, SameAnswer
<1> QED BY <1>3, <1>4

\* The start of a handler that asks for no type.
LEMMA OnDocLike ==
  ASSUME NEW c, NEW v, NEW w, Twins(v, w), NEW missing, NEW then, NEW thenw,
         LikeEffects(then, thenw)
  PROVE  LikeEffects(OnDoc(c, v, missing, then), OnDoc(c, w, missing, thenw))
<1>1. v # Empty /\ v # Foreign /\ w # Empty /\ w # Foreign /\ Like(v, w)
  BY DEF Twins, IsDoc, Like
<1>2. LikeEffects(Answer(v, Error("path")), Answer(w, Error("path")))
  BY <1>1, SameAnswer
<1>3. OnDoc(c, v, missing, then) = IF c.path.style = "broken" THEN Answer(v, Error("path")) ELSE then
  BY <1>1, Zenon DEF OnDoc
<1>4. OnDoc(c, w, missing, thenw) = IF c.path.style = "broken" THEN Answer(w, Error("path")) ELSE thenw
  BY <1>1, Zenon DEF OnDoc
<1> QED BY <1>2, <1>3, <1>4, Zenon

\* Changing the same number in both.
LEMMA WithNumberAlike ==
  ASSUME NEW d, WellFormed(d), NEW e, WellFormed(e), Alike(d, e), NEW a \in DOMAIN d, NEW n
  PROVE  Alike(WithNumber(d, a, n), WithNumber(e, a, n))
<1> DEFINE f == WithNumber(d, a, n)
           g == WithNumber(e, a, n)
<1>1. a \in DOMAIN e /\ DOMAIN f = DOMAIN d /\ DOMAIN g = DOMAIN e /\ DOMAIN d = DOMAIN e
  BY DEF WithNumber, Alike
<1>2. \A b \in DOMAIN d :
        /\ f[b].t = d[b].t /\ f[b].name = d[b].name
        /\ f[b].n = IF b = a THEN n ELSE d[b].n
  BY DEF WithNumber, WellFormed, Labelled, Label
<1>3. \A b \in DOMAIN e :
        /\ g[b].t = e[b].t /\ g[b].name = e[b].name
        /\ g[b].n = IF b = a THEN n ELSE e[b].n
  BY DEF WithNumber, WellFormed, Labelled, Label
<1> HIDE DEF f, g
<1>4. \A b \in DOMAIN f : f[b].t = g[b].t /\ f[b].n = g[b].n
  BY <1>1, <1>2, <1>3 DEF Alike
<1>5. ASSUME NEW b \in Address, NEW j \in Position, Append(b, j) \in DOMAIN f, f[b].t # "array"
      PROVE  f[Append(b, j)].name = g[Append(b, j)].name
  <2>1. Append(b, j) \in DOMAIN d /\ Append(b, j) \in DOMAIN e
    BY <1>1, <1>5
  <2>2. b \in DOMAIN d
    <3>1. Append(b, j) # Root /\ Parent(Append(b, j)) = b
      BY AppendParent
    <3> QED BY <2>1, <3>1 DEF WellFormed, Attached
  <2>3. d[Append(b, j)].name = e[Append(b, j)].name
    BY <1>2, <1>5, <2>1, <2>2 DEF Alike
  <2> QED BY <1>2, <1>3, <2>1, <2>3
<1>6. Alike(f, g)
  BY ONLY <1>1, <1>4, <1>5, Zenon DEF Alike
<1> QED BY <1>6 DEF f, g

\* JSON.SET.
LEMMA SetLike ==
  ASSUME NEW c, IsCall(c), c.op = "set", NEW v, NEW w, Twins(v, w)
  PROVE  LikeEffects(SetEffect(c, v), SetEffect(c, w))
<1> DEFINE ptr      == PathToPointer(c.path)
           found(x) == GetPointer(x.root, ptr) # {}
           patch(x) == IF found(x) THEN PatchReplace(x.root, ptr, c.json)
                                   ELSE PatchAdd(x.root, ptr, c.json)
           then(x)  == IF c.flag = "xx" /\ ~found(x) THEN Answer(x, Nil)
                       ELSE IF c.flag = "nx" /\ found(x) THEN Answer(x, Nil)
                       ELSE IF patch(x).status # 0
                            THEN Answer(Doc(patch(x).doc), PatchError(patch(x).status))
                       ELSE Commit(Doc(patch(x).doc), Ok)
<1>1. /\ c.path \in Path /\ IsJson(c.json) /\ ptr \in Pointer
  BY PathType DEF IsCall
<1>2. /\ WellFormed(v.root) /\ WellFormed(w.root) /\ Alike(v.root, w.root) /\ Like(v, w)
      /\ v # Empty /\ v # Foreign /\ w # Empty /\ w # Foreign
  BY <1>1, TwinsFind DEF Twins, IsDoc
<1>3. found(v) <=> found(w)
  BY <1>2, PointerAlike
<1>4. ASSUME c.json # BadJson PROVE AlikePatched(patch(v), patch(w))
  <2>1. WellFormed(c.json)
    BY <1>1, <1>4 DEF IsJson
  <2> HIDE DEF ptr
  <2>2. /\ AlikePatched(PatchAdd(v.root, ptr, c.json), PatchAdd(w.root, ptr, c.json))
        /\ AlikePatched(PatchReplace(v.root, ptr, c.json), PatchReplace(w.root, ptr, c.json))
    BY <1>1, <1>2, <2>1, PatchesAlike
  <2> HIDE DEF found
  <2> QED BY <1>3, <2>2
<1>5. \A x : x # Empty /\ x # Foreign =>
        SetEffect(c, x) =
          IF c.path.style = "broken" THEN Answer(x, Error("path"))
          ELSE IF c.flag = "junk"    THEN Answer(x, Error("syntax"))
          ELSE IF c.json = BadJson   THEN Answer(x, Error("json"))
          ELSE then(x)
  BY Zenon DEF SetEffect
<1> HIDE DEF found, patch
<1>6. \A r : LikeEffects(Answer(v, r), Answer(w, r))
  BY <1>2, SameAnswer
<1>7. ASSUME c.json # BadJson PROVE LikeEffects(then(v), then(w))
  <2>1. patch(v).status = patch(w).status /\ Like(Doc(patch(v).doc), Doc(patch(w).doc))
    BY <1>4, <1>7, LikeDocs DEF AlikePatched
  <2>2. \A r, s : /\ LikeEffects(Answer(Doc(patch(v).doc), r), Answer(Doc(patch(w).doc), s))
                  /\ LikeEffects(Commit(Doc(patch(v).doc), r), Commit(Doc(patch(w).doc), s))
    BY <2>1, SameAnswer, SameCommit
  <2> QED BY <1>3, <1>6, <2>1, <2>2, Zenon
<1> HIDE DEF then
<1>8. /\ SetEffect(c, v) =
          IF c.path.style = "broken" THEN Answer(v, Error("path"))
          ELSE IF c.flag = "junk"    THEN Answer(v, Error("syntax"))
          ELSE IF c.json = BadJson   THEN Answer(v, Error("json"))
          ELSE then(v)
      /\ SetEffect(c, w) =
          IF c.path.style = "broken" THEN Answer(w, Error("path"))
          ELSE IF c.flag = "junk"    THEN Answer(w, Error("syntax"))
          ELSE IF c.json = BadJson   THEN Answer(w, Error("json"))
          ELSE then(w)
  BY <1>2, <1>5, Zenon
<1> QED BY <1>6, <1>7, <1>8, Zenon

\* JSON.DEL.
LEMMA DelLike ==
  ASSUME NEW c, c.path \in Path, NEW v, NEW w, Twins(v, w)
  PROVE  LikeEffects(DelEffect(c, v), DelEffect(c, w))
<1> DEFINE ptr      == PathToPointer(c.path)
           patch(x) == PatchRemove(x.root, ptr)
           then(x)  == IF IsRoot(ptr)             THEN Commit(Empty, Number(1))
                       ELSE IF patch(x).status # 0
                            THEN Answer(Doc(patch(x).doc), PatchError(patch(x).status))
                       ELSE Commit(DropIfChildless(patch(x).doc), Number(1))
<1>1. /\ WellFormed(v.root) /\ WellFormed(w.root) /\ Alike(v.root, w.root)
      /\ ptr \in Pointer
  BY TwinsFind, PathType
<1>2. AlikePatched(patch(v), patch(w))
  <2> HIDE DEF ptr
  <2> QED BY <1>1, PatchesAlike
<1>3. /\ DelEffect(c, v) = OnDoc(c, v, Number(0), then(v))
      /\ DelEffect(c, w) = OnDoc(c, w, Number(0), then(w))
  BY DEF DelEffect
<1> HIDE DEF patch
<1>4. /\ patch(v).status = patch(w).status
      /\ Like(Doc(patch(v).doc), Doc(patch(w).doc))
      /\ Like(DropIfChildless(patch(v).doc), DropIfChildless(patch(w).doc))
  BY <1>2, LikeDocs DEF AlikePatched
<1>5. /\ \A r, s : LikeEffects(Answer(Doc(patch(v).doc), r), Answer(Doc(patch(w).doc), s))
      /\ \A r, s : LikeEffects(Commit(DropIfChildless(patch(v).doc), r),
                                  Commit(DropIfChildless(patch(w).doc), s))
      /\ \A r, s : LikeEffects(Commit(Empty, r), Commit(Empty, s))
  BY <1>4, SameAnswer, SameCommit DEF Like
<1>6. LikeEffects(then(v), then(w))
  BY <1>4, <1>5, Zenon
<1> HIDE DEF then
<1> QED BY <1>3, <1>6, OnDocLike

\* A read leaves both as they are.
LEMMA ReadsLike ==
  ASSUME NEW c, c.path \in Path, NEW v, NEW w, Twins(v, w)
  PROVE  /\ LikeEffects(GetEffect(c, v), GetEffect(c, w))
         /\ LikeEffects(TypeEffect(c, v), TypeEffect(c, w))
         /\ LikeEffects(StrLenEffect(c, v), StrLenEffect(c, w))
         /\ LikeEffects(ArrLenEffect(c, v), ArrLenEffect(c, w))
<1>1. Like(v, w)
  BY TwinsFind
<1>2. \A r, s : LikeEffects(Answer(v, r), Answer(w, s))
  BY <1>1, SameAnswer
<1>3. LikeEffects(GetEffect(c, v), GetEffect(c, w))
  <2> DEFINE then(x) == IF c.path.style = "bare"   THEN Answer(x, Error("illegal"))
                        ELSE IF Found(c, x) = {}   THEN Answer(x, Error("pointer"))
                        ELSE Answer(x, Bulk(Subtree(x.root, Node(c, x))))
  <2>1. \A x : \E r : then(x) = Answer(x, r)
    BY Zenon
  <2>2. /\ GetEffect(c, v) = OnDoc(c, v, Nil, then(v))
        /\ GetEffect(c, w) = OnDoc(c, w, Nil, then(w))
    BY DEF GetEffect
  <2> HIDE DEF then
  <2>3. LikeEffects(then(v), then(w))
    BY <1>2, <2>1
  <2> QED BY <2>2, <2>3, OnDocLike
<1>4. LikeEffects(TypeEffect(c, v), TypeEffect(c, w))
  <2> DEFINE then(x) == IF Found(c, x) = {} THEN Answer(x, Nil)
                        ELSE Answer(x, TypeName(x.root[Node(c, x)].t))
  <2>1. \A x : \E r : then(x) = Answer(x, r)
    BY Zenon
  <2>2. /\ TypeEffect(c, v) = OnDoc(c, v, Nil, then(v))
        /\ TypeEffect(c, w) = OnDoc(c, w, Nil, then(w))
    BY DEF TypeEffect
  <2> HIDE DEF then
  <2>3. LikeEffects(then(v), then(w))
    BY <1>2, <2>1
  <2> QED BY <2>2, <2>3, OnDocLike
<1>5. LikeEffects(StrLenEffect(c, v), StrLenEffect(c, w))
  BY <1>2, OnNodeLike DEF StrLenEffect
<1>6. LikeEffects(ArrLenEffect(c, v), ArrLenEffect(c, w))
  BY <1>2, OnNodeLike DEF ArrLenEffect
<1> QED BY <1>3, <1>4, <1>5, <1>6

\* JSON.INCRBY and JSON.STRAPPEND: the number they start from is the same.
LEMMA NumbersLike ==
  ASSUME NEW c, IsCall(c), NEW v, NEW w, Twins(v, w)
  PROVE  /\ c.op = "incrby" => LikeEffects(IncrByEffect(c, v), IncrByEffect(c, w))
         /\ c.op = "strappend" => LikeEffects(StrAppendEffect(c, v), StrAppendEffect(c, w))
<1> DEFINE a == Node(c, v)
<1>1. /\ c.path \in Path
      /\ WellFormed(v.root) /\ WellFormed(w.root) /\ Alike(v.root, w.root) /\ Like(v, w)
      /\ Node(c, w) = a
      /\ Found(c, v) # {} => a \in DOMAIN v.root /\ v.root[a].n = w.root[a].n
  BY TwinsFind DEF IsCall
<1>2. ASSUME NEW t, Reaches(c, v, t)
      PROVE  /\ v.root[a].n = w.root[a].n
             /\ \A n, r, s : LikeEffects(Commit(Doc(WithNumber(v.root, a, n)), r),
                                         Commit(Doc(WithNumber(w.root, a, n)), s))
  <2>1. a \in DOMAIN v.root /\ v.root[a].n = w.root[a].n
    BY <1>1, <1>2 DEF Reaches
  <2> HIDE DEF a
  <2>2. \A n : Alike(WithNumber(v.root, a, n), WithNumber(w.root, a, n))
    BY <1>1, <2>1, WithNumberAlike
  <2>3. \A n : Like(Doc(WithNumber(v.root, a, n)), Doc(WithNumber(w.root, a, n)))
    BY <2>2, LikeDocs
  <2> QED BY <2>1, <2>3, SameCommit
<1>3. \A r, s : LikeEffects(Answer(v, r), Answer(w, s))
  BY <1>1, SameAnswer
<1>4. LikeEffects(IncrByEffect(c, v), IncrByEffect(c, w))
  <2> DEFINE old(x)   == x.root[a].n
             total(x) == old(x) + c.by
             after(x) == WithNumber(x.root, a, total(x))
             then(x)  == IF ~(Finite(old(x)) /\ Finite(c.by) /\ Finite(total(x)))
                         THEN Answer(x, Error("overflow"))
                         ELSE Commit(Doc(after(x)), Bulk(Subtree(after(x), a)))
  <2>1. /\ IncrByEffect(c, v) = IF c.by = NotInt THEN Answer(v, Error("range"))
                                ELSE OnNode(c, v, Error("no key"), "number", then(v))
        /\ IncrByEffect(c, w) = IF c.by = NotInt THEN Answer(w, Error("range"))
                                ELSE OnNode(c, w, Error("no key"), "number", then(w))
    BY <1>1 DEF IncrByEffect
  <2> HIDE DEF a
  <2>2. ASSUME Reaches(c, v, "number") PROVE LikeEffects(then(v), then(w))
    <3>1. old(v) = old(w) /\ total(v) = total(w)
      BY <1>2, <2>2
    <3>2. \A r, s : LikeEffects(Commit(Doc(WithNumber(v.root, a, total(v))), r),
                                Commit(Doc(WithNumber(w.root, a, total(v))), s))
      BY <1>2, <2>2
    <3>3. \A r, s : LikeEffects(Commit(Doc(after(v)), r), Commit(Doc(after(w)), s))
      BY <3>1, <3>2
    <3> HIDE DEF after, total, old
    <3> QED BY <1>3, <3>1, <3>3, Zenon
  <2> HIDE DEF then
  <2>3. LikeEffects(OnNode(c, v, Error("no key"), "number", then(v)),
                    OnNode(c, w, Error("no key"), "number", then(w)))
    BY <1>1, <2>2, OnNodeLike
  <2> QED BY <1>3, <2>1, <2>3, Zenon
<1>5. LikeEffects(StrAppendEffect(c, v), StrAppendEffect(c, w))
  <2> DEFINE old(x)  == x.root[a].n
             then(x) == Commit(Doc(WithNumber(x.root, a, old(x) + c.seen)), Number(old(x) + c.len))
  <2>1. /\ StrAppendEffect(c, v) = OnNode(c, v, Number(-1), "string", then(v))
        /\ StrAppendEffect(c, w) = OnNode(c, w, Number(-1), "string", then(w))
    BY <1>1 DEF StrAppendEffect
  <2> HIDE DEF a
  <2>2. ASSUME Reaches(c, v, "string") PROVE LikeEffects(then(v), then(w))
    <3>1. old(v) + c.seen = old(w) + c.seen
      BY <1>2, <2>2
    <3>2. \A n, r, s : LikeEffects(Commit(Doc(WithNumber(v.root, a, n)), r),
                                   Commit(Doc(WithNumber(w.root, a, n)), s))
      BY <1>2, <2>2
    <3> HIDE DEF old
    <3> QED BY <3>1, <3>2
  <2> HIDE DEF then
  <2> QED BY <1>1, <2>1, <2>2, OnNodeLike
<1> QED BY <1>4, <1>5

\* The arguments of a batch put in both arrays.
LEMMA BatchAlike ==
  ASSUME NEW c, IsCall(c), c.op \in {"arrpush", "arrinsert"},
         NEW d, WellFormed(d), NEW e, WellFormed(e), Alike(d, e),
         NEW p \in DOMAIN d, NEW i \in Position
  PROVE  Alike(InsertItems(d, p, i, Parsed(c.jsons)), InsertItems(e, p, i, Parsed(c.jsons)))
<1> DEFINE s == Parsed(c.jsons)
           k == Len(s)
<1>1. /\ c.jsons = [l \in 1..Len(c.jsons) |-> c.jsons[l]] /\ Len(c.jsons) \in Nat
      /\ \A l \in 1..Len(c.jsons) : IsJson(c.jsons[l])
  BY DEF IsCall
<1>2. k \in 0..Len(c.jsons) /\ \A l \in 1..k : s[l] = c.jsons[l] /\ c.jsons[l] # BadJson
  BY <1>1, ParsedType
<1> HIDE DEF s
<1>3. k \in Nat /\ \A l \in 1..k : l \in 1..Len(c.jsons)
  BY <1>1, <1>2
<1>4. \A l \in 1..k : Labelled(s[l])
  BY <1>1, <1>2, <1>3 DEF IsJson, WellFormed
<1>5. Alike(InsertItems(d, p, i, s), InsertItems(e, p, i, s))
  <2> HIDE DEF k
  <2>1. k = Len(s)
    BY DEF k
  <2> QED BY <1>3, <1>4, <2>1, InsertAlike
<1> QED BY <1>5 DEF s

\* JSON.ARRPUSH and JSON.ARRINSERT.
LEMMA BatchesLike ==
  ASSUME NEW c, IsCall(c), NEW v, NEW w, Twins(v, w)
  PROVE  /\ c.op = "arrpush" => LikeEffects(ArrPushEffect(c, v), ArrPushEffect(c, w))
         /\ c.op = "arrinsert" => LikeEffects(ArrInsertEffect(c, v), ArrInsertEffect(c, w))
<1> DEFINE a       == Node(c, v)
           size(x) == Size(x.root, a)
           short   == Len(Parsed(c.jsons)) < Len(c.jsons)
<1>1. /\ c.path \in Path
      /\ WellFormed(v.root) /\ WellFormed(w.root) /\ Alike(v.root, w.root) /\ Like(v, w)
      /\ Node(c, w) = a
      /\ Found(c, v) # {} => a \in DOMAIN v.root /\ v.root[a].n = w.root[a].n
  BY TwinsFind DEF IsCall
<1>2. ASSUME Reaches(c, v, "array")
      PROVE  a \in DOMAIN v.root /\ size(v) \in Nat /\ size(v) = size(w)
  <2>1. a \in DOMAIN v.root /\ size(v) = size(w) /\ v.root[a].t = "array"
    BY <1>1, <1>2 DEF Reaches, Size
  <2> QED BY <1>1, <2>1 DEF WellFormed, Counted, Container, Size
<1>3. \A r, s : LikeEffects(Answer(v, r), Answer(w, s))
  BY <1>1, SameAnswer
<1>4. ASSUME c.op \in {"arrpush", "arrinsert"}, Reaches(c, v, "array")
      PROVE  \A i \in Position : \A r, s :
               LET x == Doc(InsertItems(v.root, a, i, Parsed(c.jsons)))
                   y == Doc(InsertItems(w.root, a, i, Parsed(c.jsons)))
               IN LikeEffects(Answer(x, r), Answer(y, s)) /\ LikeEffects(Commit(x, r), Commit(y, s))
  <2> HIDE DEF a, size
  <2>1. \A i \in Position : Alike(InsertItems(v.root, a, i, Parsed(c.jsons)),
                                  InsertItems(w.root, a, i, Parsed(c.jsons)))
    BY <1>1, <1>2, <1>4, BatchAlike
  <2>2. \A i \in Position : Like(Doc(InsertItems(v.root, a, i, Parsed(c.jsons))),
                                 Doc(InsertItems(w.root, a, i, Parsed(c.jsons))))
    BY <2>1, LikeDocs
  <2> QED BY <2>2, SameAnswer, SameCommit
<1>5. ASSUME c.op = "arrpush" PROVE LikeEffects(ArrPushEffect(c, v), ArrPushEffect(c, w))
  <2> DEFINE after(x) == Doc(InsertItems(x.root, a, size(x) + 1, Parsed(c.jsons)))
             then(x)  == IF short THEN Answer(after(x), Error("json"))
                         ELSE Commit(after(x), Number(size(x) + Len(c.jsons)))
  <2>1. /\ ArrPushEffect(c, v) = OnNode(c, v, Number(-1), "array", then(v))
        /\ ArrPushEffect(c, w) = OnNode(c, w, Number(-1), "array", then(w))
    BY <1>1 DEF ArrPushEffect, AddItems
  <2> HIDE DEF a, short
  <2>2. ASSUME Reaches(c, v, "array") PROVE LikeEffects(then(v), then(w))
    <3>1. size(v) + 1 \in Position /\ size(v) = size(w)
      BY <1>2, <2>2 DEF Position
    <3> HIDE DEF size
    <3>2. \A r, s : /\ LikeEffects(Answer(after(v), r), Answer(after(w), s))
                    /\ LikeEffects(Commit(after(v), r), Commit(after(w), s))
      BY <1>4, <1>5, <2>2, <3>1
    <3> HIDE DEF after
    <3> QED BY <3>2, Zenon
  <2> HIDE DEF then
  <2> QED BY <1>1, <2>1, <2>2, OnNodeLike
<1>6. ASSUME c.op = "arrinsert" PROVE LikeEffects(ArrInsertEffect(c, v), ArrInsertEffect(c, w))
  <2> DEFINE index(x) == FromEnd(c.index, size(x))
             after(x) == Doc(InsertItems(x.root, a, index(x) + 1, Parsed(c.jsons)))
             then(x)  == IF c.index = NotInt THEN Answer(x, Error("range"))
                         ELSE IF index(x) \notin 0..size(x) THEN Answer(x, Error("outflow"))
                         ELSE IF short THEN Answer(after(x), Error("json"))
                         ELSE Commit(after(x), Number(size(x) + Len(c.jsons)))
  <2>1. /\ ArrInsertEffect(c, v) = OnNode(c, v, Number(-1), "array", then(v))
        /\ ArrInsertEffect(c, w) = OnNode(c, w, Number(-1), "array", then(w))
    BY <1>1 DEF ArrInsertEffect
  <2> HIDE DEF a, short
  <2>2. ASSUME Reaches(c, v, "array") PROVE LikeEffects(then(v), then(w))
    <3>1. size(v) = size(w) /\ index(v) = index(w)
      BY <1>2, <2>2
    <3>2. index(v) \in 0..size(v) => index(v) + 1 \in Position
      BY DEF Position
    <3> HIDE DEF index, size
    <3>3. index(v) \in 0..size(v) => \A r, s :
             /\ LikeEffects(Answer(after(v), r), Answer(after(w), s))
             /\ LikeEffects(Commit(after(v), r), Commit(after(w), s))
      BY <1>4, <1>6, <2>2, <3>1, <3>2
    <3> HIDE DEF after
    <3> QED BY <1>3, <3>1, <3>3, Zenon
  <2> HIDE DEF then
  <2> QED BY <1>1, <2>1, <2>2, OnNodeLike
<1> QED BY <1>5, <1>6

\* JSON.ARRPOP and JSON.ARRTRIM.
LEMMA CutsLike ==
  ASSUME NEW c, IsCall(c), NEW v, NEW w, Twins(v, w)
  PROVE  /\ c.op = "arrpop" => LikeEffects(ArrPopEffect(c, v), ArrPopEffect(c, w))
         /\ c.op = "arrtrim" => LikeEffects(ArrTrimEffect(c, v), ArrTrimEffect(c, w))
<1> DEFINE a       == Node(c, v)
           size(x) == Size(x.root, a)
<1>1. /\ c.path \in Path
      /\ WellFormed(v.root) /\ WellFormed(w.root) /\ Alike(v.root, w.root) /\ Like(v, w)
      /\ Node(c, w) = a
      /\ Found(c, v) # {} => /\ a \in DOMAIN v.root /\ a \in DOMAIN w.root
                             /\ v.root[a].n = w.root[a].n /\ v.root[a].t = w.root[a].t
  BY TwinsFind DEF IsCall
<1>2. ASSUME Reaches(c, v, "array")
      PROVE  /\ a \in DOMAIN v.root /\ a \in DOMAIN w.root
             /\ v.root[a].t \in Container /\ w.root[a].t \in Container
             /\ size(v) \in Nat /\ size(v) = size(w)
             /\ size(v) = v.root[a].n /\ size(w) = w.root[a].n
  <2>1. /\ a \in DOMAIN v.root /\ a \in DOMAIN w.root /\ size(v) = size(w)
        /\ v.root[a].t = "array" /\ w.root[a].t = "array"
    BY <1>1, <1>2 DEF Reaches, Size
  <2> QED BY <1>1, <2>1 DEF WellFormed, Counted, Container, Size
<1>3. \A r, s : LikeEffects(Answer(v, r), Answer(w, s))
  BY <1>1, SameAnswer
<1>4. ASSUME c.op = "arrpop" PROVE LikeEffects(ArrPopEffect(c, v), ArrPopEffect(c, w))
  <2> DEFINE index(x) == FromEnd(c.index, size(x))
             after(x) == DropIfChildless(DetachItems(x.root, a, index(x) + 1, 1))
             then(x)  == IF c.index = NotInt THEN Answer(x, Error("range"))
                         ELSE IF index(x) \notin 0..(size(x) - 1) THEN Answer(x, Error("outflow"))
                         ELSE Commit(after(x), Bulk(Subtree(x.root, Append(a, index(x) + 1))))
  <2>1. /\ ArrPopEffect(c, v) = OnNode(c, v, Error("no key"), "array", then(v))
        /\ ArrPopEffect(c, w) = OnNode(c, w, Error("no key"), "array", then(w))
    BY <1>1 DEF ArrPopEffect
  <2> HIDE DEF a
  <2>2. ASSUME Reaches(c, v, "array") PROVE LikeEffects(then(v), then(w))
    <3>1. size(v) = size(w) /\ index(v) = index(w) /\ a \in DOMAIN v.root
      BY <1>2, <2>2
    <3>2. index(v) \in 0..(size(v) - 1) => index(v) + 1 \in Position
      BY DEF Position
    <3> HIDE DEF index, size
    <3>3. ASSUME index(v) \in 0..(size(v) - 1)
          PROVE  \A r, s : LikeEffects(Commit(after(v), r), Commit(after(w), s))
      <4>1. Alike(DetachItems(v.root, a, index(v) + 1, 1), DetachItems(w.root, a, index(v) + 1, 1))
        BY <1>1, <3>1, <3>2, <3>3, DetachAlike
      <4>2. Like(after(v), after(w))
        BY <3>1, <4>1, LikeDocs
      <4> HIDE DEF after
      <4> QED BY <4>2, SameCommit
    <3> HIDE DEF after
    <3> QED BY <1>3, <3>1, <3>3, Zenon
  <2> HIDE DEF then
  <2> QED BY <1>1, <2>1, <2>2, OnNodeLike
<1>5. ASSUME c.op = "arrtrim" PROVE LikeEffects(ArrTrimEffect(c, v), ArrTrimEffect(c, w))
  <2> DEFINE kept     == c.stop - c.start + 1
             tail(x)  == DetachItems(x.root, a, 1, c.start)
             rest(x)  == size(x) - c.start - kept
             after(x) == DropIfChildless(DetachItems(tail(x), a, kept + 1, rest(x)))
             told(x)  == IF after(x) = Empty THEN Garbage ELSE Number(Size(after(x).root, a))
             bad(x)   == ~(0 <= c.start /\ c.start <= c.stop /\ c.stop < size(x))
             then(x)  == IF NotInt \in {c.start, c.stop} THEN Answer(x, Error("range"))
                         ELSE IF bad(x) THEN Answer(x, Error("outflow"))
                         ELSE Commit(after(x), told(x))
  <2>1. /\ ArrTrimEffect(c, v) = OnNode(c, v, Number(-1), "array", then(v))
        /\ ArrTrimEffect(c, w) = OnNode(c, w, Number(-1), "array", then(w))
    BY <1>1 DEF ArrTrimEffect
  <2>2. c.start \in Int \cup {NotInt} /\ c.stop \in Int \cup {NotInt}
    BY <1>5 DEF IsCall
  <2> HIDE DEF a
  <2>3. ASSUME Reaches(c, v, "array") PROVE LikeEffects(then(v), then(w))
    <3>1. /\ size(v) = size(w) /\ rest(v) = rest(w) /\ (bad(v) <=> bad(w))
          /\ a \in DOMAIN v.root /\ a \in DOMAIN w.root
          /\ v.root[a].t \in Container /\ w.root[a].t \in Container
          /\ size(v) \in Nat /\ size(v) = v.root[a].n /\ size(v) = w.root[a].n
      BY <1>2, <2>3
    <3>2. ASSUME NotInt \notin {c.start, c.stop}, ~bad(v)
          PROVE  \A r, s : LikeEffects(Commit(after(v), r), Commit(after(w), s))
      <4>1. /\ c.start \in Nat /\ c.stop \in Nat /\ 1 \in Position
            /\ 1 + c.start - 1 <= size(v)
            /\ kept + 1 \in Position /\ rest(v) \in Nat
        <5> HIDE DEF size
        <5> QED BY <2>2, <3>1, <3>2 DEF Position
      <4> HIDE DEF size, kept, rest
      <4>2. /\ WellFormed(tail(v)) /\ a \in DOMAIN tail(v)
            /\ WellFormed(tail(w))
        BY <1>1, <3>1, <4>1, DetachedContainer
      <4>3. Alike(tail(v), tail(w))
        BY <1>1, <3>1, <4>1, DetachAlike
      <4> HIDE DEF tail
      <4>4. Alike(DetachItems(tail(v), a, kept + 1, rest(v)),
                  DetachItems(tail(w), a, kept + 1, rest(v)))
        BY <4>1, <4>2, <4>3, DetachAlike
      <4>5. Like(after(v), after(w))
        BY <3>1, <4>4, LikeDocs
      <4> HIDE DEF after
      <4> QED BY <4>5, SameCommit
    <3> HIDE DEF after, told, bad
    <3> QED BY <1>3, <3>1, <3>2, Zenon
  <2> HIDE DEF then
  <2> QED BY <1>1, <2>1, <2>3, OnNodeLike
<1> QED BY <1>4, <1>5

\* No command tells documents apart that differ in names of elements only.
THEOREM EffectLike ==
  ASSUME NEW c, IsCall(c), c.op \in KeyOps,
         NEW v, IsValue(v), NEW w, IsValue(w), Like(v, w)
  PROVE  LikeEffects(Effect(c, v), Effect(c, w))
<1>1. CASE v = w
  BY <1>1 DEF LikeEffects, Like
<1>2. CASE v # w
  <2>1. Twins(v, w) /\ c.path \in Path
    BY <1>2 DEF Like, Twins, IsCall
  <2>2. CASE c.op = "set"
    BY <2>1, <2>2, SetLike DEF Effect
  <2>3. CASE c.op \in {"get", "type", "strlen", "arrlen"}
    BY <2>1, <2>3, ReadsLike DEF Effect
  <2>4. CASE c.op = "del"
    BY <2>1, <2>4, DelLike DEF Effect
  <2>5. CASE c.op \in {"incrby", "strappend"}
    BY <2>1, <2>5, NumbersLike DEF Effect
  <2>6. CASE c.op \in {"arrpush", "arrinsert"}
    BY <2>1, <2>6, BatchesLike DEF Effect
  <2>7. CASE c.op \in {"arrpop", "arrtrim"}
    BY <2>1, <2>7, CutsLike DEF Effect
  <2>8. CASE c.op = "native"
    BY <2>8, SameCommit DEF Effect, NativeEffect, Like
  <2> QED BY <2>2, <2>3, <2>4, <2>5, <2>6, <2>7, <2>8 DEF KeyOps
<1> QED BY <1>1, <1>2

(***************************************************************************)
(* The file holds what memory holds.                                       *)
(***************************************************************************)
\* Reading the file now, or the one a rewrite is to leave, gives documents that
\* are like those in memory, but for the keys whose base is not exact.
FileKeepsUp ==
  /\ DOMAIN db = Key /\ DOMAIN disk = Key
  /\ \A k \in Key \ lossy : Like(disk[k], db[k])
  /\ rewrite # NoRewrite =>
       /\ rewrite = [on |-> TRUE, keys |-> rewrite.keys,
                     readable |-> rewrite.readable, lossy |-> rewrite.lossy]
       /\ DOMAIN rewrite.keys = Key
       /\ \A k \in Key \ rewrite.lossy : Like(rewrite.keys[k], db[k])

PersistenceInv == TypeOK /\ FileKeepsUp

\* What a call does to one key, and that it leaves the others.
LEMMA RunIs ==
  ASSUME NEW keys, DOMAIN keys = Key, NEW k \in Key, NEW c
  PROVE  /\ DOMAIN Run(keys, k, c) = Key
         /\ \A i \in Key : Run(keys, k, c)[i] = IF i = k THEN Effect(c, keys[k]).val ELSE keys[i]
<1> DEFINE w == Effect(c, keys[k]).val
<1>1. Run(keys, k, c) = [keys EXCEPT ![k] = w]
  BY DEF Run
<1> HIDE DEF w
<1>2. /\ DOMAIN Run(keys, k, c) = Key
      /\ \A i \in Key : Run(keys, k, c)[i] = IF i = k THEN w ELSE keys[i]
  BY <1>1
<1> QED BY <1>2 DEF w

\* A call keeps a file up with memory: appended, it is run on what the file
\* gives as it was in memory, and if it is not appended it changed nothing.
LEMMA CallKeepsUp ==
  ASSUME NEW k \in Key, NEW c \in Calls, c.op \in KeyOps, WholeBatch(c),
         NEW keys, DOMAIN keys = Key, \A i \in Key : IsValue(keys[i]),
         NEW file, DOMAIN file = Key, \A i \in Key : IsValue(file[i]),
         NEW gone, \A i \in Key \ gone : Like(file[i], keys[i])
  PROVE  /\ Effect(c, keys[k]).sent =>
              \A i \in Key \ gone : Like(Run(file, k, c)[i], Run(keys, k, c)[i])
         /\ ~Effect(c, keys[k]).sent =>
              \A i \in Key \ gone : Like(file[i], Run(keys, k, c)[i])
<1>1. IsCall(c)
  BY CallsAssumption
<1>2. k \notin gone => Like(Effect(c, file[k]).val, Effect(c, keys[k]).val)
  BY <1>1, EffectLike DEF LikeEffects
<1>3. ~Effect(c, keys[k]).sent => Effect(c, keys[k]).val = keys[k]
  BY <1>1, UnsentKeeps
<1>4. /\ \A i \in Key : Run(keys, k, c)[i] = IF i = k THEN Effect(c, keys[k]).val ELSE keys[i]
      /\ \A i \in Key : Run(file, k, c)[i] = IF i = k THEN Effect(c, file[k]).val ELSE file[i]
  BY RunIs
<1> QED BY <1>2, <1>3, <1>4

\* Every step keeps the files up with memory, given that no batch has a malformed
\* argument (such a batch changes memory and is not appended).
LEMMA PersistenceInvNext ==
  ASSUME \A c \in Calls : c.op \in KeyOps => WholeBatch(c), ~WellFormed(BadJson)
  PROVE  PersistenceInv /\ [Next]_vars => PersistenceInv'
<1> SUFFICES ASSUME PersistenceInv, [Next]_vars PROVE FileKeepsUp'
  BY PersistenceNext DEF PersistenceInv
<1>0. /\ \A k \in Key : IsValue(db[k]) /\ IsValue(disk[k])
      /\ DOMAIN db = Key /\ DOMAIN disk = Key
      /\ \A k \in Key \ lossy : Like(disk[k], db[k])
  BY DEF PersistenceInv, TypeOK, FileKeepsUp
<1>1. ASSUME rewrite.on
      PROVE  /\ rewrite = [on |-> TRUE, keys |-> rewrite.keys,
                           readable |-> rewrite.readable, lossy |-> rewrite.lossy]
             /\ DOMAIN rewrite.keys = Key
             /\ \A k \in Key : IsValue(rewrite.keys[k])
             /\ \A k \in Key \ rewrite.lossy : Like(rewrite.keys[k], db[k])
  <2>1. rewrite # NoRewrite
    BY <1>1 DEF NoRewrite
  <2> QED BY <1>1, <2>1 DEF PersistenceInv, TypeOK, FileKeepsUp
<1>2. rewrite # NoRewrite => rewrite.on
  BY DEF PersistenceInv, FileKeepsUp
<1>3. ASSUME NEW k \in Key, NEW c \in Calls, Execute(k, c) PROVE FileKeepsUp'
  <2>1. /\ c.op \in KeyOps /\ WholeBatch(c) /\ db' = Run(db, k, c) /\ lossy' = lossy
    BY <1>3 DEF Execute
  <2>2. DOMAIN db' = Key
    BY <1>0, <2>1, RunIs
  <2>3. CASE Effect(c, db[k]).sent
    <3>1. /\ disk' = Run(disk, k, c)
          /\ rewrite' = IF rewrite.on THEN [rewrite EXCEPT !.keys = Run(rewrite.keys, k, c)]
                        ELSE rewrite
      BY <1>3, <2>3 DEF Execute
    <3>2. DOMAIN disk' = Key /\ \A i \in Key \ lossy' : Like(disk'[i], db'[i])
      BY <1>0, <2>1, <2>3, <3>1, RunIs, CallKeepsUp
    <3>3. CASE rewrite.on
      <4> DEFINE new == Run(rewrite.keys, k, c)
      <4>1. DOMAIN new = Key /\ \A i \in Key \ rewrite.lossy : Like(new[i], db'[i])
        BY <1>0, <1>1, <2>1, <2>3, <3>3, RunIs, CallKeepsUp
      <4> HIDE DEF new
      <4>2. rewrite' = [rewrite EXCEPT !.keys = new]
        BY <3>1, <3>3 DEF new
      <4>3. rewrite' = [on |-> TRUE, keys |-> new,
                          readable |-> rewrite.readable, lossy |-> rewrite.lossy]
        BY <1>1, <3>3, <4>2
      <4>4. rewrite'.keys = new /\ rewrite'.lossy = rewrite.lossy /\ rewrite'.readable = rewrite.readable
        BY <4>3
      <4> QED BY <2>2, <3>2, <4>1, <4>3, <4>4 DEF FileKeepsUp
    <3>4. CASE ~rewrite.on
      <4>1. rewrite' = rewrite /\ rewrite' = NoRewrite
        BY <1>2, <3>1, <3>4
      <4>2. NoRewrite' = NoRewrite
        BY DEF NoRewrite
      <4> QED BY <2>2, <3>2, <4>1, <4>2 DEF FileKeepsUp
    <3> QED BY <3>3, <3>4
  <2>4. CASE ~Effect(c, db[k]).sent
    <3>1. disk' = disk /\ rewrite' = rewrite
      BY <1>3, <2>4 DEF Execute
    <3>2. \A i \in Key \ lossy : Like(disk[i], db'[i])
      BY <1>0, <2>1, <2>4, CallKeepsUp
    <3>3. rewrite.on => \A i \in Key \ rewrite.lossy : Like(rewrite.keys[i], db'[i])
      BY <1>0, <1>1, <2>1, <2>4, CallKeepsUp
    <3> QED BY <1>0, <1>1, <1>2, <2>1, <2>2, <3>1, <3>2, <3>3 DEF FileKeepsUp, NoRewrite
  <2> QED BY <2>3, <2>4
<1>4. ASSUME NEW form \in {"aof", "rdb"}, StartRewrite(form) PROVE FileKeepsUp'
  <2> DEFINE base == [i \in Key |-> Reloaded(form, db[i])]
             gone == {i \in Key : ~Exact(db[i])}
             can  == \A i \in Key : CanLoad(form, db[i])
  <2>1. /\ rewrite' = [on |-> TRUE, keys |-> base, readable |-> can, lossy |-> gone]
        /\ db' = db /\ disk' = disk /\ lossy' = lossy
    BY <1>4 DEF StartRewrite
  <2>2. \A i \in Key \ gone : Like(base[i], db[i])
    <3> SUFFICES ASSUME NEW i \in Key \ gone PROVE Like(base[i], db[i])
      OBVIOUS
    <3>1. i \in Key /\ Exact(db[i]) /\ IsValue(db[i]) /\ base[i] = Reloaded(form, db[i])
      BY <1>0
    <3>2. Same(Reloaded(form, db[i]), db[i])
      BY <3>1, ExactSurvives
    <3>3. IsValue(Reloaded(form, db[i]))
      BY <3>1, ReloadedIsValue
    <3> QED BY <3>1, <3>2, <3>3, LikeIsSame
  <2>3. DOMAIN base = Key
    OBVIOUS
  <2> HIDE DEF base, gone, can
  <2>4. /\ rewrite'.keys = base /\ rewrite'.lossy = gone /\ rewrite'.readable = can
    BY <2>1
  <2> QED BY <1>0, <2>1, <2>2, <2>3, <2>4 DEF FileKeepsUp
<1>5. CASE FinishRewrite
  <2>1. /\ rewrite.on /\ disk' = rewrite.keys /\ lossy' = rewrite.lossy
        /\ rewrite' = NoRewrite /\ db' = db
    BY <1>5 DEF FinishRewrite
  <2>2. NoRewrite' = NoRewrite
    BY DEF NoRewrite
  <2> QED BY <1>0, <1>1, <2>1, <2>2 DEF FileKeepsUp
<1>6. CASE Restart
  <2>1. db' = disk /\ disk' = disk /\ lossy' = lossy /\ rewrite' = NoRewrite
    BY <1>6 DEF Restart
  <2>2. NoRewrite' = NoRewrite /\ \A i \in Key : Like(disk[i], disk[i])
    BY DEF NoRewrite, Like
  <2> QED BY <1>0, <2>1, <2>2 DEF FileKeepsUp
<1>7. CASE UNCHANGED vars
  <2>1. FileKeepsUp
    BY DEF PersistenceInv
  <2> QED BY <1>7, <2>1 DEF vars, FileKeepsUp, NoRewrite
<1> QED BY <1>3, <1>4, <1>5, <1>6, <1>7 DEF Next

\* A server that restarts has the documents it had, but for the keys whose base
\* could not hold them as they were: for any keys, documents and calls, with
\* rewrites and restarts at any time.
THEOREM RestartIsFaithful ==
  ASSUME \A c \in Calls : c.op \in KeyOps => WholeBatch(c), ~WellFormed(BadJson)
  PROVE  Spec => RestartKeepsDocuments
<1>1. Init => PersistenceInv
  <2>1. Init => TypeOK
    BY DEF Init, NoKeys, NoRewrite, TypeOK, IsValue
  <2>2. Init => FileKeepsUp
    BY DEF Init, NoKeys, NoRewrite, FileKeepsUp, Like
  <2> QED BY <2>1, <2>2 DEF PersistenceInv
<1>2. PersistenceInv /\ [Next]_vars => PersistenceInv'
  BY PersistenceInvNext
<1>3. PersistenceInv =>
        [Restart => \A k \in Key \ lossy : Same(db'[k], db[k])]_vars
  <2> SUFFICES ASSUME PersistenceInv, Restart, NEW k \in Key \ lossy PROVE Same(db'[k], db[k])
    OBVIOUS
  <2>1. db'[k] = disk[k] /\ Like(disk[k], db[k]) /\ IsValue(db[k]) /\ IsValue(disk[k])
    BY DEF PersistenceInv, TypeOK, FileKeepsUp, Restart
  <2> QED BY <2>1, LikeIsSame
<1> QED BY <1>1, <1>2, <1>3, PTL DEF Spec, RestartKeepsDocuments
=============================================================================
