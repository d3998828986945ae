------------------------ MODULE TairDocCommandsProofs ------------------------
(***************************************************************************)
(* Patches keep documents well formed, and a patch that fails changes      *)
(* nothing.  Every command leaves a well-formed value, and a command that  *)
(* is not propagated leaves the value it found, unless an array got a      *)
(* batch with a malformed argument.                                        *)
(***************************************************************************)
EXTENDS TairDocCommands, JsonDocProofs

(***************************************************************************)
(* Pointers.                                                               *)
(***************************************************************************)
LEMMA PointerParts ==
  ASSUME NEW ptr \in Pointer, ptr.toks # <<>>
  PROVE  /\ LastTok(ptr) \in Tok
         /\ Prefix(ptr.toks, Len(ptr.toks) - 1) \in Seq(Tok)
         /\ Index[LastTok(ptr)] \in Nat \cup {-1}
         /\ ChildName[LastTok(ptr)] \in Name
<1>1. ptr.toks \in Seq(Tok) /\ Len(ptr.toks) \in Nat \ {0}
  BY EmptySeq, LenProperties DEF Pointer
<1>2. \A j \in 1..Len(ptr.toks) : ptr.toks[j] \in Tok
  BY <1>1, ElementOfSeq
<1>3. LastTok(ptr) \in Tok
  BY <1>1, <1>2 DEF LastTok
<1>4. Prefix(ptr.toks, Len(ptr.toks) - 1) \in Seq(Tok)
  BY <1>1, <1>2 DEF Prefix
<1> QED
  BY <1>3, <1>4, TokAssumption

\* The first child of a name is one child of the container, or none.
LEMMA FirstNamedType ==
  ASSUME NEW d, WellFormed(d), NEW p \in DOMAIN d, d[p].t \in Container, NEW S
  PROVE  /\ FirstNamed(d, p, S) \subseteq 1..d[p].n
         /\ \A i, j \in FirstNamed(d, p, S) : i = j
<1>1. d[p].n \in Nat
  BY DEF WellFormed, Counted
<1>2. FirstNamed(d, p, S) \subseteq 1..d[p].n
  BY DEF FirstNamed, Size
<1>3. ASSUME NEW i \in FirstNamed(d, p, S), NEW j \in FirstNamed(d, p, S), i < j PROVE FALSE
  <2>1. i \in 1..(j - 1)
    BY <1>1, <1>2, <1>3
  <2> QED
    BY <2>1 DEF FirstNamed
<1>4. \A i, j \in FirstNamed(d, p, S) : i = j
  BY <1>1, <1>2, <1>3
<1> QED
  BY <1>2, <1>4

\* A token selects at most one child.
LEMMA SelectsOne ==
  ASSUME NEW d, WellFormed(d), NEW a \in DOMAIN d, NEW tok \in Tok, NEW i, NEW j,
         Selects(d, a, tok, i), Selects(d, a, tok, j)
  PROVE  i = j
<1>1. CASE d[a].t = "array"
  BY <1>1, TokAssumption DEF Selects
<1>2. CASE d[a].t = "object"
  BY <1>2, FirstNamedType DEF Selects, Container
<1> QED
  BY <1>1, <1>2 DEF Selects

\* A prefix of the address of a node is the address of a node.
LEMMA PrefixInTree ==
  ASSUME NEW d, WellFormed(d), NEW a \in DOMAIN d, NEW k \in 0..Len(a)
  PROVE  Prefix(a, k) \in DOMAIN d
<1> DEFINE Bad == {l \in 0..Len(a) : Prefix(a, Len(a) - l) \notin DOMAIN d}
<1>1. a \in Address /\ Len(a) \in Nat
  BY LenProperties DEF WellFormed, Labelled, Address
<1>2. \A l \in 1..Len(a) : a[l] \in Position
  BY <1>1, ElementOfSeq DEF Address
<1>3. \A l \in 0..Len(a) : Prefix(a, l) \in Address /\ Len(Prefix(a, l)) = l
  BY <1>1, <1>2 DEF Prefix, Address
<1>4. Prefix(a, Len(a)) = a
  <2>1. \A l \in 1..Len(a) : Prefix(a, Len(a))[l] = a[l]
    BY <1>1 DEF Prefix
  <2> QED
    BY <1>1, <1>3, <2>1, AddressEqual
<1>5. ASSUME Bad # {} PROVE FALSE
  <2>1. PICK m \in Bad : \A l \in Bad : ~(<<l, m>> \in OpToRel(<, Nat))
    <3>1. Bad \subseteq Nat
      BY <1>1
    <3> HIDE DEF Bad
    <3> QED
      BY <1>5, <3>1, NatLessThanWellFounded, WFMin
  <2>2. m # 0
    BY <1>1, <1>4
  <2>3. m - 1 \in 0..Len(a) /\ m - 1 \notin Bad
    <3>1. m \in Nat /\ m - 1 \in Nat
      BY <1>1, <2>2
    <3>2. <<m - 1, m>> \in OpToRel(<, Nat)
      BY <3>1 DEF OpToRel
    <3>3. m - 1 \notin Bad
      <4> HIDE DEF Bad
      <4> QED
        BY <2>1, <3>2
    <3> QED
      BY <1>1, <3>1, <3>3
  <2>4. Prefix(a, Len(a) - (m - 1)) \in DOMAIN d
    BY <2>3
  <2> DEFINE n == Len(a) - (m - 1)
             b == Prefix(a, n)
  <2>5. n \in 1..Len(a) /\ n - 1 = Len(a) - m /\ n - 1 \in 0..Len(a)
    BY <1>1, <2>2
  <2>6. b \in DOMAIN d /\ Len(b) = n /\ b # Root
    <3>1. Len(b) = n
      <4> HIDE DEF n
      <4> QED
        BY <1>1, <1>3, <2>5
    <3>2. Len(Root) = 0
      BY DEF Root
    <3> QED
      BY <2>4, <2>5, <3>1, <3>2
  <2>7. Parent(b) \in DOMAIN d
    BY <2>6 DEF WellFormed, Attached
  <2>8. Parent(b) = Prefix(a, n - 1)
    BY <2>5, <2>6 DEF Parent, Prefix
  <2>9. Prefix(a, Len(a) - m) \in DOMAIN d
    BY <2>5, <2>7, <2>8
  <2> QED
    BY <2>9
<1>6. Len(a) - k \in 0..Len(a) /\ Len(a) - (Len(a) - k) = k
  BY <1>1
<1> QED
  BY <1>5, <1>6

\* Tokens lead to at most one node.
LEMMA ResolvesOnce ==
  ASSUME NEW d, WellFormed(d), NEW toks \in Seq(Tok),
         NEW a \in DOMAIN d, Resolves(d, toks, a),
         NEW b \in DOMAIN d, Resolves(d, toks, b)
  PROVE  a = b
<1> DEFINE Bad == {l \in 1..Len(a) : a[l] # b[l]}
<1>1. a \in Address /\ b \in Address /\ Len(a) \in Nat /\ Len(a) = Len(b) /\ Len(a) = Len(toks)
  BY LenProperties DEF WellFormed, Labelled, Address, Resolves
<1>2. ASSUME Bad # {} PROVE FALSE
  <2>1. PICK m \in Bad : \A l \in Bad : ~(<<l, m>> \in OpToRel(<, Nat))
    <3>1. Bad \subseteq Nat
      BY <1>1
    <3> HIDE DEF Bad
    <3> QED
      BY <1>2, <3>1, NatLessThanWellFounded, WFMin
  <2>2. m \in 1..Len(a) /\ a[m] # b[m] /\ m - 1 \in 0..Len(a)
    BY <1>1
  <2>3. \A l \in 1..(m - 1) : a[l] = b[l]
    <3> SUFFICES ASSUME NEW l \in 1..(m - 1), l \in Bad
                 PROVE  FALSE
      BY <1>1, <2>2
    <3>1. l \in Nat /\ m \in Nat /\ l < m
      BY <1>1, <2>2
    <3>2. <<l, m>> \in OpToRel(<, Nat)
      BY <3>1 DEF OpToRel
    <3> HIDE DEF Bad
    <3> QED
      BY <2>1, <3>2
  <2>4. Prefix(a, m - 1) = Prefix(b, m - 1)
    BY <2>3 DEF Prefix
  <2>5. Prefix(a, m - 1) \in DOMAIN d
    BY <2>2, PrefixInTree
  <2>6. /\ Selects(d, Prefix(a, m - 1), toks[m], a[m])
        /\ Selects(d, Prefix(a, m - 1), toks[m], b[m])
    BY <1>1, <2>2, <2>4 DEF Resolves
  <2>7. toks[m] \in Tok
    BY <1>1, <2>2, ElementOfSeq
  <2> QED
    BY <2>2, <2>5, <2>6, <2>7, SelectsOne
<1>3. \A l \in 1..Len(a) : a[l] = b[l]
  BY <1>2
<1> QED
  BY <1>1, <1>3, AddressEqual

\* What a pointer denotes is a node, and one node only.
LEMMA PointerOnce ==
  ASSUME NEW d, WellFormed(d), NEW ptr \in Pointer
  PROVE  /\ GetPointer(d, ptr) \subseteq DOMAIN d
         /\ \A a, b \in GetPointer(d, ptr) : a = b
<1>1. Root \in DOMAIN d /\ ptr.toks \in Seq(Tok)
  BY DEF WellFormed, Rooted, Pointer
<1> QED
  BY <1>1, ResolvesOnce DEF GetPointer

LEMMA HolderOnce ==
  ASSUME NEW d, WellFormed(d), NEW ptr \in Pointer
  PROVE  /\ Holder(d, ptr) \subseteq DOMAIN d
         /\ \A a, b \in Holder(d, ptr) : a = b
<1>1. CASE ptr.toks = <<>>
  BY <1>1 DEF Holder
<1>2. CASE ptr.toks # <<>>
  <2> DEFINE up == [ptr EXCEPT !.toks = Prefix(@, Len(@) - 1)]
  <2>1. up \in Pointer
    BY <1>2, PointerParts DEF Pointer
  <2>2. Holder(d, ptr) = GetPointer(d, up)
    BY <1>2 DEF Holder
  <2> HIDE DEF up
  <2> QED
    BY <2>1, <2>2, PointerOnce
<1> QED
  BY <1>1, <1>2

\* What detach_path takes out is one child of the holder.
LEMMA DetachedType ==
  ASSUME NEW d, WellFormed(d), NEW ptr \in Pointer, ptr.toks # <<>>,
         NEW p \in Holder(d, ptr), NEW i \in Detached(d, p, LastTok(ptr))
  PROVE  /\ p \in DOMAIN d /\ d[p].t \in Container
         /\ i \in 1..d[p].n /\ d[p].n \in Nat
         /\ d[p].t = "array" => i = Index[LastTok(ptr)] + 1
<1>1. p \in DOMAIN d
  BY HolderOnce
<1>2. d[p].t \in Container
  BY DEF Detached, Container
<1>3. d[p].n \in Nat
  BY <1>1, <1>2 DEF WellFormed, Counted
<1>4. CASE d[p].t = "array"
  BY <1>1, <1>2, <1>3, <1>4 DEF Detached, Size
<1>5. CASE d[p].t = "object"
  BY <1>1, <1>2, <1>3, <1>5, FirstNamedType DEF Detached
<1> QED
  BY <1>1, <1>2, <1>3, <1>4, <1>5 DEF Container

\* Nodes that are not below p are where they were once children of p are gone.
LEMMA ShallowKept ==
  ASSUME NEW d, WellFormed(d), NEW p \in DOMAIN d, d[p].t \in Container,
         NEW i \in 1..d[p].n,
         NEW b \in DOMAIN d, Len(b) <= Len(p)
  PROVE  LET e == Without(d, <<p, i>>)
         IN /\ b \in DOMAIN e /\ e[b].name = d[b].name /\ e[b].t = d[b].t
            /\ b # p => e[b] = d[b]
            /\ b = p => e[b].n = d[b].n - 1
<1> DEFINE e == DetachItems(d, p, i, 1)
<1>1. /\ Labelled(d) /\ p \in Address /\ b \in Address /\ d[p] \in Label
      /\ i \in Position /\ 1 \in Nat /\ 1 \in Int
  BY DEF WellFormed, Labelled, Counted, Position
<1>2. Without(d, <<p, i>>) = e
  BY DEF Without
<1>3. Shift(p, i, 1, b) = b
  <2>1. Len(p) \in Nat /\ Len(b) \in Nat
    BY <1>1, LenProperties DEF Address
  <2> QED
    BY <2>1 DEF Shift, FromChild
<1>4. /\ b \in DOMAIN e
      /\ e[b] = IF b = p THEN Resized(d[p], -1) ELSE d[b]
  BY <1>1, <1>3, DetachDomain
<1>5. /\ Resized(d[p], -1).name = d[p].name /\ Resized(d[p], -1).t = d[p].t
      /\ Resized(d[p], -1).n = d[p].n - 1
  BY <1>1, ResizedLabel
<1> QED
  BY <1>2, <1>4, <1>5

LEMMA WithoutWellFormed ==
  ASSUME NEW d, WellFormed(d), NEW p \in DOMAIN d, d[p].t \in Container,
         NEW i \in 1..d[p].n
  PROVE  /\ WellFormed(Without(d, <<p, i>>))
         /\ p \in DOMAIN Without(d, <<p, i>>)
         /\ Without(d, <<p, i>>)[p].t = d[p].t
         /\ Without(d, <<p, i>>)[p].n = d[p].n - 1
<1>1. d[p].n \in Nat /\ p \in Address /\ Len(p) \in Nat
  BY LenProperties DEF WellFormed, Counted, Labelled, Address
<1>2. i \in Position /\ i + 1 - 1 <= d[p].n /\ 1 \in Nat
  BY <1>1 DEF Position
<1>3. WellFormed(DetachItems(d, p, i, 1))
  BY <1>2, DetachWellFormed
<1> QED
  BY <1>1, <1>3, ShallowKept DEF Without

\* Taking out a child of the holder leaves the holder what it was: the pointer
\* still leads to it.
LEMMA HolderKept ==
  ASSUME NEW d, WellFormed(d), NEW ptr \in Pointer, ptr.toks # <<>>,
         NEW p \in Holder(d, ptr), d[p].t \in Container, NEW i \in 1..d[p].n
  PROVE  p \in Holder(Without(d, <<p, i>>), ptr)
<1> DEFINE e    == Without(d, <<p, i>>)
           toks == Prefix(ptr.toks, Len(ptr.toks) - 1)
           up   == [ptr EXCEPT !.toks = Prefix(@, Len(@) - 1)]
<1>1. p \in DOMAIN d /\ p \in Address /\ Len(p) \in Nat
  BY HolderOnce, LenProperties DEF WellFormed, Labelled, Address
<1>2. /\ up.lead = ptr.lead /\ up.toks = toks /\ toks \in Seq(Tok)
      /\ Holder(d, ptr) = GetPointer(d, up) /\ Holder(e, ptr) = GetPointer(e, up)
  BY PointerParts DEF Pointer, Holder
<1>3. \A b \in DOMAIN d : Len(b) <= Len(p) =>
        /\ b \in DOMAIN e /\ e[b].name = d[b].name
        /\ b # p => e[b] = d[b]
  BY <1>1, ShallowKept
<1> HIDE DEF e, toks, up
<1>4. ASSUME ptr.lead PROVE p \in Holder(e, ptr)
  BY <1>2, <1>4 DEF GetPointer
<1>5. ASSUME ~ptr.lead PROVE p \in Holder(e, ptr)
  <2>1. Resolves(d, toks, p)
    BY <1>2, <1>5 DEF GetPointer
  <2>2. ASSUME NEW j \in 1..Len(p)
        PROVE  Selects(e, Prefix(p, j - 1), toks[j], p[j])
    <3> DEFINE q == Prefix(p, j - 1)
    <3>1. q \in DOMAIN d /\ q \in Address /\ Len(q) = j - 1
      <4>1. j - 1 \in 0..Len(p)
        BY <1>1
      <4>2. q \in DOMAIN d /\ q \in Address
        BY <1>1, <4>1, PrefixInTree DEF WellFormed, Labelled
      <4>3. Len(q) = j - 1
        BY <1>1, <4>1 DEF Prefix
      <4> QED
        BY <4>2, <4>3
    <3>2. Selects(d, q, toks[j], p[j])
      BY <2>1 DEF Resolves
    <3> HIDE DEF q
    <3>3. q \in DOMAIN e /\ e[q] = d[q]
      BY <1>1, <1>3, <3>1
    <3>4. ASSUME d[q].t = "object"
          PROVE  FirstNamed(e, q, {SoughtName[toks[j]]}) = FirstNamed(d, q, {SoughtName[toks[j]]})
      <4>1. d[q].n \in Nat
        BY <3>1, <3>4 DEF WellFormed, Counted, Container
      <4>2. ASSUME NEW l \in 1..d[q].n
            PROVE  e[Append(q, l)].name = d[Append(q, l)].name
        <5>1. Append(q, l) \in DOMAIN d
          BY <3>1, <3>4 DEF WellFormed, Counted, Container
        <5>2. Len(Append(q, l)) = j
          BY <3>1, <4>1, AppendProperties DEF Address, Position
        <5>3. \A b : b \in DOMAIN d /\ Len(b) = j => e[b].name = d[b].name
          BY <1>1, <1>3
        <5> QED
          BY <5>1, <5>2, <5>3
      <4>3. \A l \in 1..d[q].n : \A m \in 1..(l - 1) : m \in 1..d[q].n
        BY <4>1
      <4> QED
        BY <3>3, <4>1, <4>2, <4>3 DEF FirstNamed, Size
    <3> QED
      BY <3>2, <3>3, <3>4 DEF Selects, Size, q
  <2>3. Resolves(e, toks, p)
    BY <2>1, <2>2 DEF Resolves
  <2> QED
    BY <1>1, <1>2, <1>3, <1>5, <2>3 DEF GetPointer
<1> QED
  BY <1>4, <1>5 DEF e

(***************************************************************************)
(* Patches.                                                                *)
(***************************************************************************)
\* One document is put into a container, under a name that fits it.
LEMMA PutOne ==
  ASSUME NEW d, WellFormed(d), NEW p \in DOMAIN d, d[p].t \in Container,
         NEW i \in 1..(d[p].n + 1), NEW value, WellFormed(value), NEW name,
         IF d[p].t = "object" THEN name \in Name ELSE name \in {NoName, ValueName}
  PROVE  WellFormed(InsertItems(d, p, i, <<Named(value, name)>>))
<1> DEFINE subs == <<Named(value, name)>>
<1>1. d[p].n \in Nat
  BY DEF WellFormed, Counted
<1>2. i \in Position /\ i <= d[p].n + 1 /\ 1 \in Nat
  BY <1>1 DEF Position
<1>3. name \in Name \cup {NoName}
  BY NameAssumption
<1>4. Branch(Named(value, name)) /\ Named(value, name)[Root].name = name
  BY <1>3, NamedIsBranch
<1>5. Len(subs) = 1 /\ subs[1] = Named(value, name)
  OBVIOUS
<1> HIDE DEF subs
<1>6. \A j \in 1..1 :
        /\ Branch(subs[j])
        /\ IF d[p].t = "object"
           THEN subs[j][Root].name \in Name
           ELSE subs[j][Root].name \in {NoName, ValueName}
  BY <1>4, <1>5
<1>7. WellFormed(InsertItems(d, p, i, subs))
  BY <1>2, <1>5, <1>6, InsertWellFormed
<1> QED
  BY <1>7 DEF subs

LEMMA PutMemberWellFormed ==
  ASSUME NEW d, WellFormed(d), NEW p \in DOMAIN d, d[p].t = "object",
         NEW name \in Name, NEW value, WellFormed(value)
  PROVE  WellFormed(PutMember(d, p, name, value))
<1> DEFINE old == FirstNamed(d, p, {name})
           rid == IF old = {} THEN d ELSE Without(d, <<p, CHOOSE i \in old : TRUE>>)
<1>1. d[p].t \in Container
  BY DEF Container
<1>2. WellFormed(rid) /\ p \in DOMAIN rid /\ rid[p].t = "object"
  <2>1. CASE old = {}
    BY <2>1
  <2>2. CASE old # {}
    <3>1. (CHOOSE i \in old : TRUE) \in 1..d[p].n
      BY <1>1, <2>2, FirstNamedType
    <3> HIDE DEF old
    <3> QED
      BY <1>1, <2>2, <3>1, WithoutWellFormed
  <2> QED
    BY <2>1, <2>2
<1>3. PutMember(d, p, name, value) = InsertItems(rid, p, rid[p].n + 1, <<Named(value, name)>>)
  BY DEF PutMember, AddItems, Size
<1> HIDE DEF rid
<1>4. rid[p].t \in Container /\ rid[p].n + 1 \in 1..(rid[p].n + 1)
  BY <1>2 DEF Container, WellFormed, Counted
<1> QED
  BY <1>2, <1>3, <1>4, PutOne

\* Adding below the holder.
LEMMA AddToWellFormed ==
  ASSUME NEW d, WellFormed(d), NEW ptr \in Pointer, NEW value, WellFormed(value)
  PROVE  /\ WellFormed(AddTo(d, ptr, value).doc)
         /\ AddTo(d, ptr, value).status # 0 => AddTo(d, ptr, value).doc = d
<1> DEFINE p == CHOOSE a \in Holder(d, ptr) : TRUE
           tok == LastTok(ptr)
<1>1. CASE Holder(d, ptr) = {}
  BY <1>1 DEF AddTo, Patched
<1>2. CASE Holder(d, ptr) # {}
  <2>1. p \in Holder(d, ptr) /\ p \in DOMAIN d /\ ptr.toks # <<>>
    BY <1>2, HolderOnce DEF Holder
  <2>2. AddTo(d, ptr, value) =
          CASE d[p].t = "array"  -> AddToArray(d, p, tok, value)
            [] d[p].t = "object" -> Patched(PutMember(d, p, ChildName[tok], value), 0)
            [] OTHER             -> Patched(d, 9)
    BY <1>2 DEF AddTo
  <2>3. tok \in Tok /\ Index[tok] \in Nat \cup {-1} /\ ChildName[tok] \in Name
    BY <2>1, PointerParts
  <2> HIDE DEF p, tok
  <2>4. CASE d[p].t = "array"
    <3> DEFINE item == <<Named(value, ValueName)>>
    <3>0. d[p].t \in Container /\ d[p].n \in Nat /\ d[p].t # "object"
      BY <2>1, <2>4 DEF Container, WellFormed, Counted
    <3>1. \A i \in 1..(d[p].n + 1) : WellFormed(InsertItems(d, p, i, item))
      BY <2>1, <3>0, PutOne
    <3>2. AddItems(d, p, item) = InsertItems(d, p, d[p].n + 1, item)
      BY DEF AddItems, Size
    <3>3. AddTo(d, ptr, value) =
            IF tok = Dash THEN Patched(AddItems(d, p, item), 0)
            ELSE IF Index[tok] = -1 THEN Patched(d, 11)
            ELSE IF Index[tok] > d[p].n THEN Patched(d, 10)
            ELSE Patched(InsertItems(d, p, Index[tok] + 1, item), 0)
      BY <2>2, <2>4 DEF AddToArray, Size
    <3> HIDE DEF item
    <3>4. CASE tok = Dash
      BY <3>0, <3>1, <3>2, <3>3, <3>4 DEF Patched
    <3>5. CASE tok # Dash /\ (Index[tok] = -1 \/ Index[tok] > d[p].n)
      BY <3>3, <3>5 DEF Patched
    <3>6. CASE tok # Dash /\ ~(Index[tok] = -1 \/ Index[tok] > d[p].n)
      <4>1. Index[tok] + 1 \in 1..(d[p].n + 1)
        BY <2>3, <3>0, <3>6
      <4>2. WellFormed(InsertItems(d, p, Index[tok] + 1, item))
        BY <3>1, <4>1
      <4> QED
        BY <3>3, <3>6, <4>2 DEF Patched
    <3> QED
      BY <3>4, <3>5, <3>6
  <2>5. CASE d[p].t = "object"
    <3>1. WellFormed(PutMember(d, p, ChildName[tok], value))
      BY <2>1, <2>3, <2>5, PutMemberWellFormed
    <3> QED
      BY <2>2, <2>5, <3>1 DEF Patched
  <2>6. CASE d[p].t # "array" /\ d[p].t # "object"
    BY <2>2, <2>6 DEF Patched
  <2> QED
    BY <2>4, <2>5, <2>6
<1> QED
  BY <1>1, <1>2

\* "add" leaves a well-formed document, and changes nothing when it fails.
THEOREM AddIsSafe ==
  ASSUME NEW d, WellFormed(d), NEW ptr \in Pointer, NEW value, WellFormed(value)
  PROVE  /\ WellFormed(PatchAdd(d, ptr, value).doc)
         /\ PatchAdd(d, ptr, value).status # 0 => PatchAdd(d, ptr, value).doc = d
<1>1. CASE IsRoot(ptr)
  BY <1>1 DEF PatchAdd, Patched
<1>2. CASE ~IsRoot(ptr)
  BY <1>2, AddToWellFormed DEF PatchAdd
<1> QED
  BY <1>1, <1>2

\* The place detach_path finds.
LEMMA DetachPathType ==
  ASSUME NEW d, WellFormed(d), NEW ptr \in Pointer, NEW pl \in DetachPath(d, ptr)
  PROVE  \E p \in Holder(d, ptr) :
           \E i \in Detached(d, p, LastTok(ptr)) :
             /\ pl = <<p, i>> /\ ptr.toks # <<>>
             /\ p \in DOMAIN d /\ d[p].t \in Container
             /\ i \in 1..d[p].n /\ d[p].n \in Nat
             /\ d[p].t = "array" => i = Index[LastTok(ptr)] + 1
<1>1. PICK p \in Holder(d, ptr) : pl \in {<<p, i>> : i \in Detached(d, p, LastTok(ptr))}
  BY DEF DetachPath
<1>2. PICK i \in Detached(d, p, LastTok(ptr)) : pl = <<p, i>>
  BY <1>1
<1>3. ptr.toks # <<>>
  BY DEF Holder
<1>4. /\ p \in DOMAIN d /\ d[p].t \in Container
      /\ i \in 1..d[p].n /\ d[p].n \in Nat
      /\ d[p].t = "array" => i = Index[LastTok(ptr)] + 1
  BY <1>3, DetachedType
<1> QED
  BY <1>2, <1>3, <1>4

\* "remove" leaves a well-formed document, and changes nothing when it fails.
THEOREM RemoveIsSafe ==
  ASSUME NEW d, WellFormed(d), NEW ptr \in Pointer
  PROVE  /\ WellFormed(PatchRemove(d, ptr).doc)
         /\ PatchRemove(d, ptr).status # 0 => PatchRemove(d, ptr).doc = d
<1> DEFINE old == DetachPath(d, ptr)
           pl  == CHOOSE x \in old : TRUE
<1>1. CASE old = {}
  BY <1>1 DEF PatchRemove, Patched
<1>2. CASE old # {}
  <2>1. pl \in old
    BY <1>2
  <2>2. WellFormed(Without(d, pl))
    <3> HIDE DEF pl
    <3> QED
      BY <2>1, DetachPathType, WithoutWellFormed
  <2> QED
    BY <1>2, <2>2 DEF PatchRemove, Patched
<1> QED
  BY <1>1, <1>2

\* "replace" detaches the old item before it adds the new one.  When something
\* is there to detach, the add cannot fail: a replace that reports an error has
\* not lost the old item.
THEOREM ReplaceIsSafe ==
  ASSUME NEW d, WellFormed(d), NEW ptr \in Pointer, NEW value, WellFormed(value)
  PROVE  /\ WellFormed(PatchReplace(d, ptr, value).doc)
         /\ PatchReplace(d, ptr, value).status # 0 => PatchReplace(d, ptr, value).doc = d
<1> DEFINE old == DetachPath(d, ptr)
           pl  == CHOOSE x \in old : TRUE
           e   == Without(d, pl)
<1>1. CASE IsRoot(ptr) \/ old = {}
  BY <1>1 DEF PatchReplace, Patched
<1>2. CASE ~IsRoot(ptr) /\ old # {}
  <2>1. PatchReplace(d, ptr, value) = AddTo(e, ptr, value)
    BY <1>2 DEF PatchReplace
  <2>2. PICK p \in Holder(d, ptr), i \in Nat :
          /\ pl = <<p, i>> /\ ptr.toks # <<>>
          /\ p \in DOMAIN d /\ d[p].t \in Container
          /\ i \in 1..d[p].n /\ d[p].n \in Nat
          /\ d[p].t = "array" => i = Index[LastTok(ptr)] + 1
    <3>1. pl \in old
      BY <1>2
    <3> HIDE DEF pl
    <3>2. PICK p \in Holder(d, ptr) :
            \E i \in Detached(d, p, LastTok(ptr)) :
              /\ pl = <<p, i>> /\ ptr.toks # <<>>
              /\ p \in DOMAIN d /\ d[p].t \in Container
              /\ i \in 1..d[p].n /\ d[p].n \in Nat
              /\ d[p].t = "array" => i = Index[LastTok(ptr)] + 1
      BY <3>1, DetachPathType
    <3> QED
      BY <3>2
  <2> HIDE DEF pl
  <2>3. /\ WellFormed(e) /\ p \in DOMAIN e
        /\ e[p].t = d[p].t /\ e[p].n = d[p].n - 1
    BY <2>2, WithoutWellFormed
  <2>4. p \in Holder(e, ptr)
    BY <2>2, HolderKept
  <2> HIDE DEF e
  <2>5. WellFormed(AddTo(e, ptr, value).doc)
    BY <2>3, AddToWellFormed
  <2>6. AddTo(e, ptr, value).status = 0
    <3> DEFINE q == CHOOSE a \in Holder(e, ptr) : TRUE
    <3>1. q = p
      BY <2>3, <2>4, HolderOnce
    <3>2. AddTo(e, ptr, value) =
            CASE e[p].t = "array"  -> AddToArray(e, p, LastTok(ptr), value)
              [] e[p].t = "object" -> Patched(PutMember(e, p, ChildName[LastTok(ptr)], value), 0)
              [] OTHER             -> Patched(e, 9)
      BY <2>4, <3>1 DEF AddTo
    <3>3. CASE e[p].t = "array"
      <4>1. Index[LastTok(ptr)] \in Nat \cup {-1}
        BY <2>2, PointerParts
      <4>2. Index[LastTok(ptr)] # -1 /\ ~(Index[LastTok(ptr)] > e[p].n)
        BY <2>2, <2>3, <3>3, <4>1
      <4>3. AddToArray(e, p, LastTok(ptr), value).status = 0
        BY <4>2 DEF AddToArray, Size, Patched
      <4> QED
        BY <3>2, <3>3, <4>3
    <3>4. CASE e[p].t = "object"
      BY <3>2, <3>4 DEF Patched
    <3> QED
      BY <2>2, <2>3, <3>3, <3>4 DEF Container
  <2> QED
    BY <2>1, <2>5, <2>6
<1> QED
  BY <1>1, <1>2

(***************************************************************************)
(* Tokens that are told apart: by case-insensitive lookups too, as names and *)
(* as indices.  Where all of them are, the two lookups of the code agree.  *)
(***************************************************************************)

\* In a plain document a token selects the element it is the index of, or the
\* member it is the name of.
LEMMA SelectsIs ==
  ASSUME NEW M, NEW T, ToldApart(M, T), NEW d, WellFormed(d), Plain(M, d),
         NEW p \in DOMAIN d, d[p].t \in Container, NEW tok \in T, NEW i
  PROVE  /\ Selects(d, p, tok, i) <=>
              /\ i \in 1..d[p].n
              /\ IF d[p].t = "array" THEN Index[tok] >= 0 /\ i = Index[tok] + 1
                 ELSE d[Append(p, i)].name = SoughtName[tok]
         /\ i \in Detached(d, p, tok) <=> Selects(d, p, tok, i)
<1>1. /\ d[p].n \in Nat /\ Index[tok] \in Nat \cup {-1} /\ tok \in Tok
      /\ ChildName[tok] = SoughtName[tok] /\ SoughtName[tok] \in M
  BY TokAssumption DEF WellFormed, Counted, ToldApart
<1>2. CASE d[p].t = "array"
  BY <1>1, <1>2 DEF Selects, Detached, Size
<1>3. CASE d[p].t = "object"
  <2> DEFINE name(j) == d[Append(p, j)].name
             n       == d[p].n
             S       == SameFold(ChildName[tok])
             m       == SoughtName[tok]
  <2>1. \A j \in 1..n : name(j) \in M /\ \A l \in 1..n : name(j) = name(l) => j = l
    BY <1>3 DEF Plain, Distinct, MemberNames
  <2>2. \A x \in M : x \in S <=> x = m
    BY <1>1 DEF SameFold, ToldApart
  <2>3. \A U : i \in FirstNamed(d, p, U) <=>
                 i \in 1..n /\ name(i) \in U /\ \A j \in 1..(i - 1) : name(j) \notin U
    BY DEF FirstNamed, Size
  <2>4. Selects(d, p, tok, i) <=> i \in FirstNamed(d, p, {m})
    BY <1>3 DEF Selects
  <2>5. i \in Detached(d, p, tok) <=> i \in FirstNamed(d, p, S)
    BY <1>3 DEF Detached
  <2> HIDE DEF name, n, S, m
  <2>6. ASSUME NEW U, \A x \in M : x \in U <=> x = m
        PROVE  i \in FirstNamed(d, p, U) <=> i \in 1..n /\ name(i) = m
    <3>1. ASSUME i \in 1..n, name(i) = m, NEW j \in 1..(i - 1)
          PROVE  name(j) \notin U
      <4>1. n \in Nat /\ j \in 1..n /\ i # j
        BY <1>1, <3>1 DEF n
      <4> QED BY <2>1, <2>6, <3>1, <4>1
    <3> QED BY <2>1, <2>3, <2>6, <3>1
  <2>7. i \in FirstNamed(d, p, {m}) <=> i \in 1..n /\ name(i) = m
    BY <2>6
  <2>8. i \in FirstNamed(d, p, S) <=> i \in 1..n /\ name(i) = m
    BY <2>2, <2>6
  <2>9. d[p].t # "array"
    BY <1>3
  <2> QED BY <2>4, <2>5, <2>7, <2>8, <2>9 DEF name, n, m
<1> QED BY <1>2, <1>3 DEF Container

\* The tokens of the path a patch works on: with a lead only the last counts.
Aim(ptr) == IF ptr.lead /\ ptr.toks # <<>> THEN <<LastTok(ptr)>> ELSE ptr.toks

\* The holder is where all tokens but the last lead.
LEMMA HolderIs ==
  ASSUME NEW d, WellFormed(d), NEW ptr \in Pointer, ptr.toks # <<>>
  PROVE  /\ Aim(ptr) \in Seq(Tok) /\ Len(Aim(ptr)) \in Nat \ {0}
         /\ Aim(ptr)[Len(Aim(ptr))] = LastTok(ptr)
         /\ Parent(Aim(ptr)) \in Seq(Tok)
         /\ \A p : p \in Holder(d, ptr) <=> p \in DOMAIN d /\ Resolves(d, Parent(Aim(ptr)), p)
<1>1. LastTok(ptr) \in Tok /\ Prefix(ptr.toks, Len(ptr.toks) - 1) \in Seq(Tok)
  BY PointerParts
<1>2. /\ Root \in DOMAIN d /\ \A p \in DOMAIN d : p \in Address
      /\ ptr.toks \in Seq(Tok) /\ Len(ptr.toks) \in Nat \ {0}
  BY EmptySeq, LenProperties DEF WellFormed, Rooted, Labelled, Pointer
<1>3. CASE ~ptr.lead
  <2>1. Aim(ptr) = ptr.toks
    BY <1>3 DEF Aim
  <2> QED BY <1>1, <1>2, <1>3, <2>1 DEF Holder, GetPointer, Parent, LastTok
<1>4. CASE ptr.lead
  <2>1. Aim(ptr) = <<LastTok(ptr)>>
    BY <1>4 DEF Aim
  <2>2. Holder(d, ptr) = {Root}
    BY <1>4 DEF Holder, GetPointer
  <2>3. Parent(Aim(ptr)) = <<>>
    BY <2>1 DEF Parent, Prefix
  <2>4. \A p \in Address : Len(p) = 0 <=> p = Root
    BY EmptySeq, LenProperties DEF Address, Root
  <2>5. \A p \in DOMAIN d : Resolves(d, <<>>, p) <=> p = Root
    BY <1>2, <2>4 DEF Resolves, Root
  <2> QED BY <1>1, <1>2, <2>1, <2>2, <2>3, <2>5
<1> QED BY <1>3, <1>4 DEF Pointer

(***************************************************************************)
(* Following a path step by step, and in a copy of a node.                 *)
(***************************************************************************)

\* A position that a token selects holds a child.
LEMMA SelectedIsChild ==
  ASSUME NEW d, WellFormed(d), NEW p \in DOMAIN d, NEW tok \in Tok, NEW x, Selects(d, p, tok, x)
  PROVE  /\ d[p].t \in Container /\ d[p].n \in Nat /\ x \in 1..d[p].n /\ x \in Position
         /\ Append(p, x) \in DOMAIN d
<1>1. d[p].t \in Container
  BY DEF Selects, Container
<1>2. d[p].n \in Nat /\ \A i \in 1..d[p].n : Append(p, i) \in DOMAIN d
  BY <1>1 DEF WellFormed, Counted
<1>3. x \in 1..d[p].n
  BY <1>2, TokAssumption DEF Selects, FirstNamed, Size
<1> QED BY <1>1, <1>2, <1>3 DEF Position

\* Following one token more.
LEMMA ResolvesStep ==
  ASSUME NEW d, NEW t \in Seq(Tok), Len(t) \in Nat \ {0}, NEW p \in Address, NEW x \in Position
  PROVE  Resolves(d, t, Append(p, x)) <=>
           Resolves(d, Parent(t), p) /\ Selects(d, p, t[Len(t)], x)
<1> DEFINE a == Append(p, x)
           n == Len(t)
           s == Parent(t)
<1>1. /\ a \in Address /\ Len(a) = Len(p) + 1 /\ a[Len(p) + 1] = x /\ Len(p) \in Nat
      /\ \A j \in 1..Len(p) : a[j] = p[j]
  BY AppendProperties, LenProperties DEF Address
<1>2. s = [j \in 1..(n - 1) |-> t[j]] /\ Len(s) = n - 1
  BY DEF Parent, Prefix
<1>3. \A j \in 1..(Len(p) + 1) : Prefix(a, j - 1) = Prefix(p, j - 1)
  BY <1>1 DEF Prefix
<1>4. Prefix(p, Len(p)) = p
  <2>1. p = [j \in 1..Len(p) |-> p[j]]
    BY <1>1, LenProperties DEF Address
  <2> QED BY <2>1 DEF Prefix
<1>5. n \in Nat \ {0}
  OBVIOUS
<1> HIDE DEF a, n, s
<1>6. ASSUME Len(p) = n - 1
      PROVE  Resolves(d, t, a) <=> Resolves(d, s, p) /\ Selects(d, p, t[n], x)
  <2>1. Len(a) = n /\ Len(s) = Len(p) /\ 1..n = 1..Len(p) \cup {n}
    BY <1>1, <1>2, <1>5, <1>6
  <2>2. \A j \in 1..Len(p) : Selects(d, Prefix(a, j - 1), t[j], a[j])
                               <=> Selects(d, Prefix(p, j - 1), s[j], p[j])
    <3>1. TAKE j \in 1..Len(p)
    <3>2. s[j] = t[j] /\ a[j] = p[j] /\ Prefix(a, j - 1) = Prefix(p, j - 1)
      BY <1>1, <1>2, <1>3, <1>6
    <3> QED BY <3>2
  <2>3. Selects(d, Prefix(a, n - 1), t[n], a[n]) <=> Selects(d, p, t[n], x)
    <3>1. n \in 1..(Len(p) + 1) /\ n = Len(p) + 1
      BY <1>5, <1>6
    <3>2. Prefix(a, n - 1) = p /\ a[n] = x
      BY <1>1, <1>3, <1>4, <1>6, <3>1
    <3> QED BY <3>2
  <2> QED BY <2>1, <2>2, <2>3 DEF Resolves, n
<1>7. ASSUME Len(p) # n - 1
      PROVE  ~Resolves(d, t, a) /\ ~Resolves(d, s, p)
  BY <1>1, <1>2, <1>5, <1>7 DEF Resolves, n
<1> QED BY <1>6, <1>7 DEF a, n, s

\* A token selects the same child in the copy.
LEMMA SubtreeSelects ==
  ASSUME NEW d, WellFormed(d), NEW a \in DOMAIN d, NEW r \in Address, a \o r \in DOMAIN d,
         NEW tok, NEW x
  PROVE  Selects(Subtree(d, a), r, tok, x) <=> Selects(d, a \o r, tok, x)
<1> DEFINE s == Subtree(d, a)
           b == a \o r
<1>1. s[r].t = d[b].t /\ s[r].n = d[b].n /\ b \in DOMAIN d /\ a \in Address
  BY SubtreeLabels
<1>2. ASSUME d[b].t = "object", NEW j \in 1..d[b].n
      PROVE  s[Append(r, j)].name = d[Append(b, j)].name
  <2>1. j \in Position /\ Append(b, j) \in DOMAIN d
    <3>1. d[b].n \in Nat /\ \A l \in 1..d[b].n : Append(b, l) \in DOMAIN d
      BY <1>1, <1>2 DEF WellFormed, Counted, Container
    <3> QED BY <3>1 DEF Position
  <2>2. Append(b, j) = a \o Append(r, j)
    BY <1>1, <2>1, ConcatAppend
  <2>3. Append(r, j) \in Address /\ Append(r, j) # Root
    BY <2>1, AppendParent
  <2>4. s[Append(r, j)] = d[a \o Append(r, j)]
    <3> DEFINE y == Append(r, j)
    <3>1. y \in Address /\ y # Root /\ a \o y \in DOMAIN d
      BY <2>1, <2>2, <2>3
    <3> HIDE DEF y
    <3>2. s[y] = d[a \o y]
      BY <3>1, SubtreeLabels
    <3> QED BY <3>2 DEF y
  <2> QED BY <2>2, <2>4
<1>3. ASSUME d[b].t = "object"
      PROVE  \A i : i \in FirstNamed(s, r, {SoughtName[tok]})
                      <=> i \in FirstNamed(d, b, {SoughtName[tok]})
  <2>1. d[b].n \in Nat
    BY <1>1, <1>3 DEF WellFormed, Counted, Container
  <2> DEFINE n  == d[b].n
             f(j) == s[Append(r, j)].name
             g(j) == d[Append(b, j)].name
             S    == {SoughtName[tok]}
  <2>2. \A i : i \in FirstNamed(s, r, S) <=>
                 i \in 1..n /\ f(i) \in S /\ \A j \in 1..(i - 1) : f(j) \notin S
    BY <1>1 DEF FirstNamed, Size
  <2>3. \A i : i \in FirstNamed(d, b, S) <=>
                 i \in 1..n /\ g(i) \in S /\ \A j \in 1..(i - 1) : g(j) \notin S
    BY DEF FirstNamed, Size
  <2>4. \A j \in 1..n : f(j) = g(j)
    BY <1>2, <1>3
  <2>5. \A i \in 1..n : \A j \in 1..(i - 1) : j \in 1..n
    BY <2>1
  <2> HIDE DEF n, f, g, S
  <2> QED BY <2>2, <2>3, <2>4, <2>5 DEF S
<1> HIDE DEF s, b
<1>4. Selects(s, r, tok, x) <=> Selects(d, b, tok, x)
  BY <1>1, <1>3 DEF Selects, Size
<1> QED BY <1>4 DEF s, b

\* Following a path beyond a node is following its rest in the copy of the node.
LEMMA SubtreeResolves ==
  ASSUME NEW d, WellFormed(d), NEW a \in DOMAIN d, NEW r \in Address, a \o r \in DOMAIN d,
         NEW s, Resolves(d, s, a), NEW u \in Seq(Tok), Under(s, u)
  PROVE  Resolves(d, u, a \o r) <=> Resolves(Subtree(d, a), Suffix(u, Len(a)), r)
<1> DEFINE c == Subtree(d, a)
           b == a \o r
           n == Len(a)
           k == Len(r)
           w == Suffix(u, n)
           m == Len(u)
<1>1. /\ a \in Address /\ n \in Nat /\ k \in Nat /\ m \in Nat /\ Len(b) = n + k
      /\ \A l \in 1..(n + k) : b[l] = IF l <= n THEN a[l] ELSE r[l - n]
  BY LenProperties, ConcatAddress DEF WellFormed, Labelled, Address
<1>2. n <= m /\ \A j \in 1..n : u[j] = s[j] /\ Selects(d, Prefix(a, j - 1), s[j], a[j])
  BY <1>1 DEF Resolves, Under
<1>3. Len(w) = m - n /\ \A j \in 1..(m - n) : w[j] = u[j + n]
  BY <1>1, <1>2 DEF Suffix
<1>4. ASSUME NEW j \in 1..n
      PROVE  Selects(d, Prefix(b, j - 1), u[j], b[j])
  <2>1. j \in 1..(n + k) /\ \A l \in 1..(j - 1) : l \in 1..(n + k) /\ l <= n
    BY <1>1
  <2>2. b[j] = a[j] /\ Prefix(b, j - 1) = Prefix(a, j - 1)
    BY <1>1, <2>1 DEF Prefix
  <2> QED BY <1>2, <2>2
<1>5. ASSUME NEW j \in 1..k
      PROVE  /\ Selects(c, Prefix(r, j - 1), u[j + n], r[j])
                  <=> Selects(d, Prefix(b, j + n - 1), u[j + n], b[j + n])
  <2> DEFINE q == Prefix(r, j - 1)
  <2>1. b[j + n] = r[j]
    <3>1. j + n \in 1..(n + k) /\ ~(j + n <= n) /\ j + n - n = j
      BY <1>1
    <3> QED BY <1>1, <3>1
  <2>2. q \in Address /\ Len(q) = j - 1
    <3>1. j - 1 \in Nat /\ \A l \in 1..(j - 1) : r[l] \in Position
      BY <1>1, ElementOfSeq DEF Address
    <3> QED BY <3>1, AddressOf DEF Prefix
  <2>3. a \o q = Prefix(b, j + n - 1)
    <3>1. /\ a \o q \in Address /\ Len(a \o q) = n + (j - 1)
          /\ \A l \in 1..(n + (j - 1)) : (a \o q)[l] = IF l <= n THEN a[l] ELSE q[l - n]
      BY <1>1, <2>2, ConcatAddress
    <3>2. Prefix(b, j + n - 1) \in Address /\ Len(Prefix(b, j + n - 1)) = j + n - 1
      <4>1. j + n - 1 \in 0..Len(b)
        BY <1>1
      <4>2. Prefix(b, j + n - 1) \in DOMAIN d
        <5> HIDE DEF b
        <5> QED BY <4>1, PrefixInTree DEF b
      <4>3. Prefix(b, j + n - 1) \in Address
        BY <4>2 DEF WellFormed, Labelled
      <4>4. Len(Prefix(b, j + n - 1)) = j + n - 1
        <5>1. j + n - 1 \in Nat
          BY <1>1
        <5> HIDE DEF b, n
        <5> QED BY <5>1 DEF Prefix
      <4> QED BY <4>3, <4>4
    <3>3. ASSUME NEW l \in 1..(n + (j - 1))
          PROVE  (a \o q)[l] = Prefix(b, j + n - 1)[l]
      <4>1. l \in 1..(j + n - 1) /\ l \in 1..(n + k)
        BY <1>1
      <4>2. Prefix(b, j + n - 1)[l] = b[l]
        BY <4>1 DEF Prefix
      <4>3. ~(l <= n) => q[l - n] = r[l - n]
        BY <1>1 DEF Prefix
      <4> HIDE DEF q, b
      <4> QED BY <1>1, <3>1, <4>1, <4>2, <4>3
    <3>4. Len(a \o q) = Len(Prefix(b, j + n - 1))
      BY <1>1, <3>1, <3>2
    <3> HIDE DEF q, b, n
    <3> QED BY <3>1, <3>2, <3>3, <3>4, AddressEqual
  <2>4. a \o q \in DOMAIN d
    <3>1. j + n - 1 \in 0..Len(b)
      BY <1>1
    <3> HIDE DEF b, q
    <3> QED BY <2>3, <3>1, PrefixInTree DEF b
  <2>5. Selects(c, q, u[j + n], r[j]) <=> Selects(d, a \o q, u[j + n], r[j])
    <3> HIDE DEF q
    <3> QED BY <2>2, <2>4, SubtreeSelects
  <2> QED BY <2>1, <2>3, <2>5
<1>6. Len(r) = k /\ Len(u) = m
  OBVIOUS
<1> HIDE DEF c, b, n, k, w, m
<1>7. ASSUME n + k = m
      PROVE  Resolves(d, u, b) <=> Resolves(c, w, r)
  <2>1. Len(b) = Len(u) /\ Len(r) = Len(w) /\ Len(b) = n + k /\ Len(r) = k
    BY <1>1, <1>3, <1>7, <1>6
  <2>2. Resolves(d, u, b) <=>
          \A j \in 1..(n + k) : Selects(d, Prefix(b, j - 1), u[j], b[j])
    BY <2>1 DEF Resolves
  <2>3. Resolves(c, w, r) <=> \A j \in 1..k : Selects(c, Prefix(r, j - 1), w[j], r[j])
    BY <2>1 DEF Resolves
  <2>4. \A j \in 1..k : w[j] = u[j + n]
    BY <1>1, <1>3, <1>7
  <2>5. \A j \in 1..k : j + n \in 1..(n + k)
    BY <1>1
  <2>6. \A j \in 1..(n + k) : j \in 1..n \/ (j - n \in 1..k /\ (j - n) + n = j)
    BY <1>1
  <2>7. Resolves(d, u, b) => Resolves(c, w, r)
    <3> SUFFICES ASSUME Resolves(d, u, b), NEW j \in 1..k
                 PROVE  Selects(c, Prefix(r, j - 1), w[j], r[j])
      BY <2>3
    <3>1. Selects(d, Prefix(b, j + n - 1), u[j + n], b[j + n])
      BY <1>1, <2>2, <2>5
    <3> QED BY <1>5, <2>4, <3>1
  <2>8. Resolves(c, w, r) => Resolves(d, u, b)
    <3> SUFFICES ASSUME Resolves(c, w, r), NEW j \in 1..(n + k)
                 PROVE  Selects(d, Prefix(b, j - 1), u[j], b[j])
      BY <2>2
    <3>1. CASE j \in 1..n
      BY <1>4, <3>1
    <3>2. ASSUME NEW l, l \in 1..k, l + n = j
          PROVE  Selects(d, Prefix(b, j - 1), u[j], b[j])
      <4>1. Selects(c, Prefix(r, l - 1), u[l + n], r[l])
        BY <2>3, <2>4, <3>2
      <4>2. Selects(d, Prefix(b, l + n - 1), u[l + n], b[l + n])
        BY <1>5, <3>2, <4>1
      <4>3. l + n - 1 = j - 1
        BY <1>1, <3>2
      <4> QED BY <3>2, <4>2, <4>3
    <3> QED BY <2>6, <3>1, <3>2
  <2> QED BY <2>7, <2>8
<1>8. ASSUME n + k # m
      PROVE  ~Resolves(d, u, b) /\ ~Resolves(c, w, r)
  BY <1>1, <1>3, <1>8 DEF Resolves, k, m
<1> QED BY <1>7, <1>8 DEF c, b, n, w

(***************************************************************************)
(* Commands.                                                               *)
(***************************************************************************)
\* An effect that keeps values well formed and is propagated if it matters.
Sound(v, e) == IsValue(e.val) /\ (~e.sent => e.val = v)

LEMMA AnswerSound ==
  ASSUME NEW v, IsValue(v), NEW r
  PROVE  Sound(v, Answer(v, r))
BY DEF Sound, Answer

LEMMA CommitSound ==
  ASSUME NEW v, NEW w, IsValue(w), NEW r
  PROVE  Sound(v, Commit(w, r))
BY DEF Sound, Commit

LEMMA DocIsValue ==
  ASSUME NEW d, WellFormed(d)
  PROVE  IsValue(Doc(d)) /\ Doc(d).root = d /\ IsValue(DropIfChildless(d))
BY DEF IsValue, Doc, Empty, DropIfChildless

LEMMA ValueIsDoc ==
  ASSUME NEW v, IsValue(v), v # Empty, v # Foreign
  PROVE  v = Doc(v.root) /\ WellFormed(v.root)
BY DEF IsValue

\* The common start of the handlers: only the document case is left.
LEMMA OnDocSound ==
  ASSUME NEW c, NEW v, IsValue(v), NEW missing, NEW then,
         v # Empty /\ v # Foreign => Sound(v, then)
  PROVE  Sound(v, OnDoc(c, v, missing, then))
BY AnswerSound DEF OnDoc

LEMMA PathType ==
  ASSUME NEW path \in Path
  PROVE  PathToPointer(path) \in Pointer
BY DEF Path, Pointer, PathToPointer

LEMMA FoundType ==
  ASSUME NEW c, c.path \in Path, NEW v, WellFormed(v.root)
  PROVE  /\ Found(c, v) \subseteq DOMAIN v.root
         /\ Found(c, v) # {} => Node(c, v) \in DOMAIN v.root
BY PathType, PointerOnce DEF Found, Node

LEMMA OnNodeSound ==
  ASSUME NEW c, c.path \in Path, NEW v, IsValue(v), NEW missing, NEW t, NEW then,
         v # Empty /\ v # Foreign /\ Node(c, v) \in DOMAIN v.root
           /\ v.root[Node(c, v)].t = t => Sound(v, then)
  PROVE  Sound(v, OnNode(c, v, missing, t, then))
<1> DEFINE inner == IF Found(c, v) # {} /\ v.root[Node(c, v)].t = t
                    THEN then ELSE Answer(v, WantedType(t))
<1>1. ASSUME v # Empty, v # Foreign PROVE Sound(v, inner)
  <2>1. WellFormed(v.root)
    BY <1>1, ValueIsDoc
  <2>2. Found(c, v) # {} => Node(c, v) \in DOMAIN v.root
    BY <2>1, FoundType
  <2>3. CASE Found(c, v) # {} /\ v.root[Node(c, v)].t = t
    BY <1>1, <2>2, <2>3
  <2>4. CASE ~(Found(c, v) # {} /\ v.root[Node(c, v)].t = t)
    BY <2>4, AnswerSound
  <2> QED
    BY <2>3, <2>4
<1>2. OnNode(c, v, missing, t, then) = OnDoc(c, v, missing, inner)
  BY DEF OnNode
<1> HIDE DEF inner
<1> QED
  BY <1>1, <1>2, OnDocSound

(***************************************************************************)
(* The arguments that parse.                                               *)
(***************************************************************************)
LEMMA ParsedType ==
  ASSUME NEW jsons, jsons = [i \in 1..Len(jsons) |-> jsons[i]], Len(jsons) \in Nat
  PROVE  /\ Len(Parsed(jsons)) \in 0..Len(jsons)
         /\ \A i \in 1..Len(Parsed(jsons)) :
              Parsed(jsons)[i] = jsons[i] /\ jsons[i] # BadJson
         /\ Len(Parsed(jsons)) = Len(jsons) => Parsed(jsons) = jsons
         /\ Parsed(Parsed(jsons)) = Parsed(jsons)
<1> DEFINE bad == {i \in 1..Len(jsons) : jsons[i] = BadJson}
           m   == CHOOSE i \in bad : \A j \in bad : i <= j
           s   == Parsed(jsons)
<1>1. CASE bad = {}
  <2>1. s = jsons
    BY <1>1 DEF Parsed
  <2> QED
    BY <1>1, <2>1 DEF Parsed
<1>2. CASE bad # {}
  <2>1. m \in bad /\ \A j \in bad : m <= j
    <3>1. bad \subseteq Nat
      OBVIOUS
    <3>2. PICK i \in bad : \A j \in bad : ~(<<j, i>> \in OpToRel(<, Nat))
      <4> HIDE DEF bad
      <4> QED
        BY <1>2, <3>1, NatLessThanWellFounded, WFMin
    <3>3. ASSUME NEW j \in bad PROVE i <= j
      <4>1. i \in Nat /\ j \in Nat
        BY <3>1
      <4>2. j < i => <<j, i>> \in OpToRel(<, Nat)
        BY <4>1 DEF OpToRel
      <4> HIDE DEF bad
      <4>3. ~(j < i)
        BY <3>2, <3>3, <4>2
      <4> QED
        BY <4>1, <4>3
    <3> HIDE DEF bad
    <3> QED
      BY <3>3
  <2>2. s = Prefix(jsons, m - 1)
    BY <1>2 DEF Parsed
  <2>3. m \in 1..Len(jsons) /\ m - 1 \in Nat
    BY <2>1
  <2>4. \A i \in 1..(m - 1) : i \in 1..Len(jsons) /\ jsons[i] # BadJson
    BY <2>1, <2>3
  <2> HIDE DEF bad, m
  <2>5. Len(s) = m - 1 /\ \A i \in 1..(m - 1) : s[i] = jsons[i]
    BY <2>2, <2>3 DEF Prefix
  <2> HIDE DEF s
  <2>6. {i \in 1..Len(s) : s[i] = BadJson} = {}
    BY <2>3, <2>4, <2>5
  <2>7. Parsed(s) = s
    BY <2>6 DEF Parsed
  <2> QED
    BY <2>3, <2>4, <2>5, <2>7 DEF s
<1> QED
  BY <1>1, <1>2

(***************************************************************************)
(* Changing one container or one scalar.                                   *)
(***************************************************************************)
LEMMA DetachedContainer ==
  ASSUME NEW d, WellFormed(d), NEW p \in DOMAIN d, d[p].t \in Container,
         NEW i \in Position, NEW k \in Nat, i + k - 1 <= d[p].n
  PROVE  LET e == DetachItems(d, p, i, k)
         IN WellFormed(e) /\ p \in DOMAIN e /\ e[p].t = d[p].t /\ e[p].n = d[p].n - k
<1>1. Labelled(d) /\ p \in Address /\ d[p] \in Label /\ k \in Int
  BY DEF WellFormed, Labelled
<1>2. Shift(p, i, k, p) = p
  BY <1>1, ShiftAppend DEF Position
<1>3. p \in DOMAIN DetachItems(d, p, i, k) /\ DetachItems(d, p, i, k)[p] = Resized(d[p], -k)
  BY <1>1, <1>2, DetachDomain
<1> QED
  BY <1>1, <1>3, ResizedLabel, DetachWellFormed

LEMMA WithNumberWellFormed ==
  ASSUME NEW d, WellFormed(d), NEW a \in DOMAIN d, d[a].t \notin Container, NEW n \in Int
  PROVE  WellFormed(WithNumber(d, a, n))
<1> DEFINE e == WithNumber(d, a, n)
<1>1. d[a] \in Label
  BY DEF WellFormed, Labelled
<1>2. DOMAIN e = DOMAIN d
  BY DEF WithNumber
<1>3. \A b \in DOMAIN d :
        /\ e[b] \in Label /\ e[b].t = d[b].t /\ e[b].name = d[b].name
        /\ b # a => e[b] = d[b]
  BY <1>1 DEF WithNumber, WellFormed, Labelled, Label
<1> HIDE DEF e
<1>4. Rooted(e) /\ Labelled(e)
  BY <1>2, <1>3 DEF WellFormed, Rooted, Labelled
<1>5. Counted(e)
  BY <1>2, <1>3 DEF WellFormed, Counted
<1>6. \A b \in DOMAIN d : b # Root =>
        Parent(b) \in DOMAIN e /\ d[Parent(b)].t \in Container /\ e[Parent(b)] = d[Parent(b)]
          /\ b[Len(b)] <= d[Parent(b)].n
  BY <1>2, <1>3 DEF WellFormed, Attached
<1>7. Attached(e) /\ Titled(e)
  BY <1>2, <1>3, <1>6 DEF WellFormed, Attached, Titled
<1> QED
  BY <1>4, <1>5, <1>7 DEF WellFormed, e

\* Parsed arguments put in an array.
LEMMA BatchWellFormed ==
  ASSUME NEW d, WellFormed(d), NEW p \in DOMAIN d, d[p].t = "array",
         NEW i \in 1..(d[p].n + 1), NEW jsons,
         jsons = [l \in 1..Len(jsons) |-> jsons[l]], Len(jsons) \in Nat,
         \A l \in 1..Len(jsons) : IsJson(jsons[l])
  PROVE  WellFormed(InsertItems(d, p, i, Parsed(jsons)))
<1> DEFINE s == Parsed(jsons)
<1>1. d[p].t \in Container /\ d[p].n \in Nat /\ d[p].t # "object"
  BY DEF WellFormed, Counted, Container
<1>2. i \in Position /\ i <= d[p].n + 1
  BY <1>1 DEF Position
<1>3. Len(s) \in 0..Len(jsons) /\ \A l \in 1..Len(s) : s[l] = jsons[l] /\ jsons[l] # BadJson
  BY ParsedType
<1>4. Len(s) \in Nat
  BY <1>3
<1>5. \A l \in 1..Len(s) : WellFormed(s[l])
  BY <1>3 DEF IsJson
<1> HIDE DEF s
<1>6. \A l \in 1..Len(s) : Branch(s[l]) /\ s[l][Root].name \in {NoName, ValueName}
  BY <1>5, WellFormedIsBranch DEF WellFormed, Rooted
<1>7. WellFormed(InsertItems(d, p, i, s))
  BY <1>1, <1>2, <1>4, <1>6, InsertWellFormed
<1> QED
  BY <1>7 DEF s

(***************************************************************************)
(* The commands, one by one.                                               *)
(***************************************************************************)
LEMMA SetSound ==
  ASSUME NEW c, IsCall(c), c.op = "set", NEW v, IsValue(v)
  PROVE  Sound(v, SetEffect(c, v))
<1> DEFINE ptr   == PathToPointer(c.path)
           found == GetPointer(v.root, ptr) # {}
           patch == IF found THEN PatchReplace(v.root, ptr, c.json)
                             ELSE PatchAdd(v.root, ptr, c.json)
<1>1. ptr \in Pointer /\ IsJson(c.json)
  BY PathType DEF IsCall
<1>2. ASSUME v # Empty, v # Foreign, c.json # BadJson
      PROVE  WellFormed(patch.doc) /\ (patch.status # 0 => Doc(patch.doc) = v)
  <2>1. v = Doc(v.root) /\ WellFormed(v.root) /\ WellFormed(c.json)
    BY <1>1, <1>2, ValueIsDoc DEF IsJson
  <2> HIDE DEF ptr
  <2>2. WellFormed(patch.doc) /\ (patch.status # 0 => patch.doc = v.root)
    BY <1>1, <2>1, AddIsSafe, ReplaceIsSafe
  <2> HIDE DEF patch
  <2> QED
    BY <2>1, <2>2
<1>3. v = Empty /\ c.json # BadJson => IsValue(Doc(c.json))
  BY <1>1, DocIsValue DEF IsJson
<1>4. SetEffect(c, v) =
        IF c.path.style = "broken"           THEN Answer(v, Error("path"))
        ELSE IF c.flag = "junk"              THEN Answer(v, Error("syntax"))
        ELSE IF v = Empty /\ c.flag = "xx"   THEN Answer(v, Nil)
        ELSE IF v = Foreign                  THEN Answer(v, Error("wrongtype"))
        ELSE IF c.json = BadJson             THEN Answer(v, Error("json"))
        ELSE IF v = Empty /\ IsRoot(ptr)     THEN Commit(Doc(c.json), Ok)
        ELSE IF v = Empty                    THEN Answer(v, Error("new"))
        ELSE IF c.flag = "xx" /\ ~found      THEN Answer(v, Nil)
        ELSE IF c.flag = "nx" /\ found       THEN Answer(v, Nil)
        ELSE IF patch.status # 0 THEN Answer(Doc(patch.doc), PatchError(patch.status))
        ELSE Commit(Doc(patch.doc), Ok)
  BY DEF SetEffect
<1> HIDE DEF ptr, found, patch
<1>5. ASSUME v # Empty, v # Foreign, c.json # BadJson
      PROVE  /\ Sound(v, Commit(Doc(patch.doc), Ok))
             /\ patch.status # 0 => Sound(v, Answer(Doc(patch.doc), PatchError(patch.status)))
  <2>1. IsValue(Doc(patch.doc))
    BY <1>2, <1>5, DocIsValue
  <2>2. Sound(v, Commit(Doc(patch.doc), Ok))
    BY <2>1, CommitSound
  <2>3. patch.status # 0 => Sound(v, Answer(Doc(patch.doc), PatchError(patch.status)))
    BY <1>2, <1>5, AnswerSound
  <2> QED
    BY <2>2, <2>3
<1>6. \A r : Sound(v, Answer(v, r))
  BY AnswerSound
<1>7. v = Empty /\ c.json # BadJson => Sound(v, Commit(Doc(c.json), Ok))
  BY <1>3, CommitSound
<1> QED
  BY <1>4, <1>5, <1>6, <1>7

LEMMA DelSound ==
  ASSUME NEW c, c.path \in Path, NEW v, IsValue(v)
  PROVE  Sound(v, DelEffect(c, v))
<1> DEFINE ptr   == PathToPointer(c.path)
           patch == PatchRemove(v.root, ptr)
           then  == IF IsRoot(ptr)             THEN Commit(Empty, Number(1))
                    ELSE IF patch.status # 0   THEN Answer(Doc(patch.doc), PatchError(patch.status))
                    ELSE Commit(DropIfChildless(patch.doc), Number(1))
<1>1. ASSUME v # Empty, v # Foreign PROVE Sound(v, then)
  <2>1. ptr \in Pointer /\ v = Doc(v.root) /\ WellFormed(v.root)
    BY <1>1, PathType, ValueIsDoc
  <2> HIDE DEF ptr
  <2>2. WellFormed(patch.doc) /\ (patch.status # 0 => patch.doc = v.root)
    BY <2>1, RemoveIsSafe
  <2> HIDE DEF patch
  <2>3. IsValue(Empty) /\ IsValue(DropIfChildless(patch.doc))
    BY <2>2, DocIsValue DEF IsValue
  <2>4. Sound(v, Commit(Empty, Number(1))) /\ Sound(v, Commit(DropIfChildless(patch.doc), Number(1)))
    BY <2>3, CommitSound
  <2>5. patch.status # 0 => Sound(v, Answer(Doc(patch.doc), PatchError(patch.status)))
    BY <2>1, <2>2, AnswerSound
  <2> QED
    BY <2>4, <2>5
<1>2. DelEffect(c, v) = OnDoc(c, v, Number(0), then)
  BY DEF DelEffect
<1> HIDE DEF then
<1> QED
  BY <1>1, <1>2, OnDocSound

\* A read is no write: it answers with the value it found.
LEMMA ReadsSound ==
  ASSUME NEW c, c.path \in Path, NEW v, IsValue(v)
  PROVE  /\ Sound(v, GetEffect(c, v)) /\ Sound(v, TypeEffect(c, v))
         /\ Sound(v, StrLenEffect(c, v)) /\ Sound(v, ArrLenEffect(c, v))
<1>1. \A r : Sound(v, Answer(v, r))
  BY AnswerSound
<1>2. Sound(v, GetEffect(c, v))
  <2> DEFINE then == IF c.path.style = "bare"   THEN Answer(v, Error("illegal"))
                     ELSE IF Found(c, v) = {}   THEN Answer(v, Error("pointer"))
                     ELSE Answer(v, Bulk(Subtree(v.root, Node(c, v))))
  <2>1. Sound(v, then)
    BY <1>1
  <2>2. GetEffect(c, v) = OnDoc(c, v, Nil, then)
    BY DEF GetEffect
  <2> HIDE DEF then
  <2> QED
    BY <2>1, <2>2, OnDocSound
<1>3. Sound(v, TypeEffect(c, v))
  <2> DEFINE then == IF Found(c, v) = {} THEN Answer(v, Nil)
                     ELSE Answer(v, TypeName(v.root[Node(c, v)].t))
  <2>1. Sound(v, then)
    BY <1>1
  <2>2. TypeEffect(c, v) = OnDoc(c, v, Nil, then)
    BY DEF TypeEffect
  <2> HIDE DEF then
  <2> QED
    BY <2>1, <2>2, OnDocSound
<1>4. Sound(v, StrLenEffect(c, v)) /\ Sound(v, ArrLenEffect(c, v))
  BY <1>1, OnNodeSound DEF StrLenEffect, ArrLenEffect
<1> QED
  BY <1>2, <1>3, <1>4

LEMMA NumbersSound ==
  ASSUME NEW c, IsCall(c), NEW v, IsValue(v)
  PROVE  /\ c.op = "incrby" => Sound(v, IncrByEffect(c, v))
         /\ c.op = "strappend" => Sound(v, StrAppendEffect(c, v))
<1> DEFINE a == Node(c, v)
<1>1. c.path \in Path
  BY DEF IsCall
<1>2. \A r : Sound(v, Answer(v, r))
  BY AnswerSound
<1>3. ASSUME v # Empty, v # Foreign, a \in DOMAIN v.root, v.root[a].t \in Scalar
      PROVE  /\ v.root[a].n \in Int
             /\ \A r : \A n \in Int : Sound(v, Commit(Doc(WithNumber(v.root, a, n)), r))
  <2>1. WellFormed(v.root)
    BY <1>3, ValueIsDoc
  <2>2. v.root[a].t \notin Container /\ v.root[a].n \in Int
    BY <1>3, <2>1 DEF Scalar, Container, WellFormed, Labelled, Label
  <2> HIDE DEF a
  <2>3. \A n \in Int : WellFormed(WithNumber(v.root, a, n))
    BY <1>3, <2>1, <2>2, WithNumberWellFormed
  <2> QED
    BY <2>2, <2>3, DocIsValue, CommitSound
<1>4. ASSUME c.op = "incrby" PROVE Sound(v, IncrByEffect(c, v))
  <2> DEFINE old   == v.root[a].n
             total == old + c.by
             after == WithNumber(v.root, a, total)
             then  == IF ~(Finite(old) /\ Finite(c.by) /\ Finite(total))
                      THEN Answer(v, Error("overflow"))
                      ELSE Commit(Doc(after), Bulk(Subtree(after, a)))
  <2>1. c.by \in Int \cup {NotInt}
    BY <1>4 DEF IsCall
  <2>2. ASSUME c.by # NotInt, v # Empty, v # Foreign, a \in DOMAIN v.root, v.root[a].t = "number"
        PROVE  Sound(v, then)
    <3>1. total \in Int
      BY <1>3, <2>1, <2>2 DEF Scalar
    <3>2. \A r : Sound(v, Commit(Doc(WithNumber(v.root, a, total)), r))
      <4> HIDE DEF total, a
      <4> QED
        BY <1>3, <2>2, <3>1 DEF Scalar
    <3> HIDE DEF total, old
    <3> QED
      BY <1>2, <3>2
  <2>3. IncrByEffect(c, v) = IF c.by = NotInt THEN Answer(v, Error("range"))
                             ELSE OnNode(c, v, Error("no key"), "number", then)
    BY DEF IncrByEffect
  <2> HIDE DEF then
  <2>4. c.by # NotInt => Sound(v, OnNode(c, v, Error("no key"), "number", then))
    BY <1>1, <2>2, OnNodeSound
  <2> QED
    BY <1>2, <2>3, <2>4
<1>5. ASSUME c.op = "strappend" PROVE Sound(v, StrAppendEffect(c, v))
  <2> DEFINE old  == v.root[a].n
             then == Commit(Doc(WithNumber(v.root, a, old + c.seen)), Number(old + c.len))
  <2>1. c.seen \in Int
    BY <1>5 DEF IsCall
  <2>2. ASSUME v # Empty, v # Foreign, a \in DOMAIN v.root, v.root[a].t = "string"
        PROVE  Sound(v, then)
    <3>1. old + c.seen \in Int
      BY <1>3, <2>1, <2>2 DEF Scalar
    <3> HIDE DEF a, old
    <3> QED
      BY <1>3, <2>2, <3>1 DEF Scalar
  <2>3. StrAppendEffect(c, v) = OnNode(c, v, Number(-1), "string", then)
    BY DEF StrAppendEffect
  <2> HIDE DEF then
  <2> QED
    BY <1>1, <2>2, <2>3, OnNodeSound
<1> QED
  BY <1>4, <1>5

LEMMA PopSound ==
  ASSUME NEW c, IsCall(c), c.op = "arrpop", NEW v, IsValue(v)
  PROVE  Sound(v, ArrPopEffect(c, v))
<1> DEFINE a     == Node(c, v)
           index == FromEnd(c.index, Size(v.root, a))
           then  == IF c.index = NotInt THEN Answer(v, Error("range"))
                    ELSE IF index \notin 0..(Size(v.root, a) - 1) THEN Answer(v, Error("outflow"))
                    ELSE Commit(DropIfChildless(DetachItems(v.root, a, index + 1, 1)),
                                Bulk(Subtree(v.root, Append(a, index + 1))))
<1>1. c.path \in Path
  BY DEF IsCall
<1>2. \A r : Sound(v, Answer(v, r))
  BY AnswerSound
<1>3. ASSUME v # Empty, v # Foreign, a \in DOMAIN v.root, v.root[a].t = "array"
      PROVE  Sound(v, then)
  <2>1. WellFormed(v.root) /\ v.root[a].t \in Container /\ v.root[a].n \in Nat
    BY <1>3, ValueIsDoc DEF WellFormed, Counted, Container
  <2>2. ASSUME index \in 0..(Size(v.root, a) - 1)
        PROVE  IsValue(DropIfChildless(DetachItems(v.root, a, index + 1, 1)))
    <3>1. index + 1 \in Position /\ index + 1 + 1 - 1 <= v.root[a].n /\ 1 \in Nat
      BY <2>1, <2>2 DEF Position, Size
    <3> HIDE DEF index, a
    <3>2. WellFormed(DetachItems(v.root, a, index + 1, 1))
      BY <1>3, <2>1, <3>1, DetachedContainer
    <3> QED
      BY <3>2, DocIsValue
  <2> HIDE DEF index
  <2>3. index \in 0..(Size(v.root, a) - 1) =>
          \A r : Sound(v, Commit(DropIfChildless(DetachItems(v.root, a, index + 1, 1)), r))
    BY <2>2, CommitSound
  <2> QED
    BY <1>2, <2>3
<1>4. ArrPopEffect(c, v) = OnNode(c, v, Error("no key"), "array", then)
  BY DEF ArrPopEffect
<1> HIDE DEF then
<1> QED
  BY <1>1, <1>3, <1>4, OnNodeSound

LEMMA TrimSound ==
  ASSUME NEW c, IsCall(c), c.op = "arrtrim", NEW v, IsValue(v)
  PROVE  Sound(v, ArrTrimEffect(c, v))
<1> DEFINE a     == Node(c, v)
           size  == Size(v.root, a)
           kept  == c.stop - c.start + 1
           tail  == DetachItems(v.root, a, 1, c.start)
           cut   == DetachItems(tail, a, kept + 1, size - c.start - kept)
           after == DropIfChildless(cut)
           then  == IF NotInt \in {c.start, c.stop} THEN Answer(v, Error("range"))
                    ELSE IF ~(0 <= c.start /\ c.start <= c.stop /\ c.stop < size)
                         THEN Answer(v, Error("outflow"))
                    ELSE Commit(after, IF after = Empty THEN Garbage ELSE Number(Size(after.root, a)))
<1>1. c.path \in Path /\ c.start \in Int \cup {NotInt} /\ c.stop \in Int \cup {NotInt}
  BY DEF IsCall
<1>2. \A r : Sound(v, Answer(v, r))
  BY AnswerSound
<1>3. ASSUME v # Empty, v # Foreign, a \in DOMAIN v.root, v.root[a].t = "array"
      PROVE  Sound(v, then)
  <2>1. WellFormed(v.root) /\ v.root[a].t \in Container /\ size \in Nat /\ size = v.root[a].n
    BY <1>3, ValueIsDoc DEF WellFormed, Counted, Container, Size
  <2>2. ASSUME NotInt \notin {c.start, c.stop}, 0 <= c.start, c.start <= c.stop, c.stop < size
        PROVE  IsValue(after)
    <3>1. /\ c.start \in Nat /\ c.stop \in Nat /\ 1 \in Position
          /\ 1 + c.start - 1 <= v.root[a].n
      BY <1>1, <2>1, <2>2 DEF Position
    <3>2. WellFormed(tail) /\ a \in DOMAIN tail /\ tail[a].t \in Container /\ tail[a].n = size - c.start
      <4> HIDE DEF a
      <4> QED
        BY <1>3, <2>1, <3>1, DetachedContainer
    <3>3. /\ kept + 1 \in Position /\ size - c.start - kept \in Nat
          /\ (kept + 1) + (size - c.start - kept) - 1 <= tail[a].n
      BY <2>1, <2>2, <3>1, <3>2 DEF Position
    <3> HIDE DEF tail, kept, size, a
    <3>4. WellFormed(cut)
      BY <3>2, <3>3, DetachedContainer
    <3> HIDE DEF cut
    <3> QED
      BY <3>4, DocIsValue
  <2> HIDE DEF after, size
  <2>3. IsValue(after) => \A r : Sound(v, Commit(after, r))
    BY CommitSound
  <2> QED
    BY <1>2, <2>2, <2>3
<1>4. ArrTrimEffect(c, v) = OnNode(c, v, Number(-1), "array", then)
  BY DEF ArrTrimEffect
<1> HIDE DEF then
<1> QED
  BY <1>1, <1>3, <1>4, OnNodeSound

(***************************************************************************)
(* Batches.                                                                *)
(***************************************************************************)
\* An effect that is sound but for a batch of which only a part was added: e is
\* that of the call, part that of the call with the parsed arguments only.
SoundInPart(v, e, part) ==
  /\ IsValue(e.val)
  /\ ~e.sent /\ e.val # v => e.reply = Error("json") /\ e.val = part.val

\* The handler reaches a node of type t.
Reaches(c, v, t) ==
  /\ v # Empty /\ v # Foreign /\ c.path.style # "broken"
  /\ Found(c, v) # {} /\ v.root[Node(c, v)].t = t

LEMMA OnNodeCases ==
  ASSUME NEW c, NEW v, NEW missing, NEW t, NEW then
  PROVE  /\ Reaches(c, v, t) => OnNode(c, v, missing, t, then) = then
         /\ ~Reaches(c, v, t) => \E r : OnNode(c, v, missing, t, then) = Answer(v, r)
<1>1. CASE v = Empty \/ v = Foreign \/ c.path.style = "broken"
  <2>1. \E r : OnNode(c, v, missing, t, then) = Answer(v, r)
    BY <1>1 DEF OnNode, OnDoc
  <2> QED
    BY <1>1, <2>1 DEF Reaches
<1>2. CASE ~(v = Empty \/ v = Foreign \/ c.path.style = "broken")
  BY <1>2 DEF OnNode, OnDoc, Reaches
<1> QED
  BY <1>1, <1>2

LEMMA OnlyParsedIsCall ==
  ASSUME NEW c, IsCall(c), c.op \in {"arrpush", "arrinsert"}
  PROVE  LET part == OnlyParsed(c)
         IN /\ part.op = c.op /\ part.path = c.path /\ part.jsons = Parsed(c.jsons)
            /\ "index" \in DOMAIN c => part.index = c.index
            /\ Parsed(part.jsons) = part.jsons
<1>1. {"op", "path", "jsons"} \subseteq DOMAIN c
  BY DEF IsCall
<1>2. c.jsons = [i \in 1..Len(c.jsons) |-> c.jsons[i]] /\ Len(c.jsons) \in Nat
  BY DEF IsCall
<1>3. OnlyParsed(c) = [c EXCEPT !.jsons = Parsed(c.jsons)]
  BY <1>1 DEF OnlyParsed
<1>4. Parsed(Parsed(c.jsons)) = Parsed(c.jsons)
  BY <1>2, ParsedType
<1> QED
  BY <1>1, <1>3, <1>4

LEMMA PushSound ==
  ASSUME NEW c, IsCall(c), c.op = "arrpush", NEW v, IsValue(v)
  PROVE  SoundInPart(v, ArrPushEffect(c, v), ArrPushEffect(OnlyParsed(c), v))
<1> DEFINE a     == Node(c, v)
           after == Doc(AddItems(v.root, a, Parsed(c.jsons)))
           then  == IF Len(Parsed(c.jsons)) < Len(c.jsons) THEN Answer(after, Error("json"))
                    ELSE Commit(after, Number(Size(v.root, a) + Len(c.jsons)))
           part  == OnlyParsed(c)
           whole == Commit(after, Number(Size(v.root, a) + Len(part.jsons)))
<1>1. /\ part.path = c.path /\ part.jsons = Parsed(c.jsons)
      /\ Parsed(part.jsons) = part.jsons
  BY OnlyParsedIsCall
<1>2. /\ c.jsons = [i \in 1..Len(c.jsons) |-> c.jsons[i]] /\ Len(c.jsons) \in Nat
      /\ \A i \in 1..Len(c.jsons) : IsJson(c.jsons[i]) /\ c.path \in Path
  BY DEF IsCall
<1>3. ArrPushEffect(c, v) = OnNode(c, v, Number(-1), "array", then)
  BY DEF ArrPushEffect
<1>4. ASSUME Reaches(c, v, "array")
      PROVE  IsValue(after) /\ ArrPushEffect(part, v).val = after
  <2>1. WellFormed(v.root) /\ a \in DOMAIN v.root /\ v.root[a].t = "array"
    BY <1>4, ValueIsDoc, FoundType DEF Reaches, IsCall
  <2>2. v.root[a].n + 1 \in 1..(v.root[a].n + 1)
    BY <2>1 DEF WellFormed, Counted, Container
  <2>3. IsValue(after)
    <3> HIDE DEF a
    <3>1. WellFormed(InsertItems(v.root, a, v.root[a].n + 1, Parsed(c.jsons)))
      BY <1>2, <2>1, <2>2, BatchWellFormed
    <3> QED
      BY <3>1, DocIsValue DEF AddItems, Size
  <2>4. /\ Found(part, v) = Found(c, v) /\ Node(part, v) = a /\ Reaches(part, v, "array")
        /\ ~(Len(Parsed(part.jsons)) < Len(part.jsons))
    <3>1. Len(part.jsons) \in Int
      BY <1>1, <1>2, ParsedType
    <3> HIDE DEF part
    <3> QED
      BY <1>1, <1>4, <3>1 DEF Found, Node, Reaches
  <2> HIDE DEF part
  <2>5. ArrPushEffect(part, v) = OnNode(part, v, Number(-1), "array", whole)
    BY <1>1, <2>4 DEF ArrPushEffect
  <2>6. ArrPushEffect(part, v) = whole
    <3> HIDE DEF whole
    <3> QED
      BY <2>4, <2>5, OnNodeCases
  <2> QED
    BY <2>3, <2>6 DEF Commit
<1> HIDE DEF after, part
<1>5. CASE Reaches(c, v, "array")
  <2>1. ArrPushEffect(c, v) = then
    <3> HIDE DEF then
    <3> QED
      BY <1>3, <1>5, OnNodeCases
  <2>2. then.val = after /\ (~then.sent => then.reply = Error("json"))
    BY DEF Answer, Commit
  <2> HIDE DEF then
  <2> QED
    BY <1>4, <1>5, <2>1, <2>2 DEF SoundInPart, part
<1>6. CASE ~Reaches(c, v, "array")
  <2> HIDE DEF then
  <2>1. PICK r : ArrPushEffect(c, v) = Answer(v, r)
    BY <1>3, <1>6, OnNodeCases
  <2> QED
    BY <2>1 DEF SoundInPart, Answer
<1> QED
  BY <1>5, <1>6

LEMMA InsertSound ==
  ASSUME NEW c, IsCall(c), c.op = "arrinsert", NEW v, IsValue(v)
  PROVE  SoundInPart(v, ArrInsertEffect(c, v), ArrInsertEffect(OnlyParsed(c), v))
<1> DEFINE a     == Node(c, v)
           index == FromEnd(c.index, Size(v.root, a))
           after == Doc(InsertItems(v.root, a, index + 1, Parsed(c.jsons)))
           then  == IF c.index = NotInt THEN Answer(v, Error("range"))
                    ELSE IF index \notin 0..Size(v.root, a) THEN Answer(v, Error("outflow"))
                    ELSE IF Len(Parsed(c.jsons)) < Len(c.jsons) THEN Answer(after, Error("json"))
                    ELSE Commit(after, Number(Size(v.root, a) + Len(c.jsons)))
           part  == OnlyParsed(c)
           whole == IF c.index = NotInt THEN Answer(v, Error("range"))
                    ELSE IF index \notin 0..Size(v.root, a) THEN Answer(v, Error("outflow"))
                    ELSE Commit(after, Number(Size(v.root, a) + Len(part.jsons)))
<1>1. /\ part.path = c.path /\ part.jsons = Parsed(c.jsons) /\ part.index = c.index
      /\ Parsed(part.jsons) = part.jsons
  BY OnlyParsedIsCall DEF IsCall
<1>2. /\ c.jsons = [i \in 1..Len(c.jsons) |-> c.jsons[i]] /\ Len(c.jsons) \in Nat
      /\ \A i \in 1..Len(c.jsons) : IsJson(c.jsons[i]) /\ c.path \in Path
  BY DEF IsCall
<1>3. ArrInsertEffect(c, v) = OnNode(c, v, Number(-1), "array", then)
  BY DEF ArrInsertEffect
<1>4. ASSUME Reaches(c, v, "array"), c.index # NotInt, index \in 0..Size(v.root, a)
      PROVE  IsValue(after) /\ ArrInsertEffect(part, v).val = after
  <2>1. WellFormed(v.root) /\ a \in DOMAIN v.root /\ v.root[a].t = "array"
    BY <1>4, ValueIsDoc, FoundType DEF Reaches, IsCall
  <2>2. index + 1 \in 1..(v.root[a].n + 1)
    BY <1>4, <2>1 DEF WellFormed, Counted, Container, Size
  <2>3. IsValue(after)
    <3> HIDE DEF a, index
    <3>1. WellFormed(InsertItems(v.root, a, index + 1, Parsed(c.jsons)))
      BY <1>2, <2>1, <2>2, BatchWellFormed
    <3> QED
      BY <3>1, DocIsValue
  <2>4. /\ Found(part, v) = Found(c, v) /\ Node(part, v) = a /\ Reaches(part, v, "array")
        /\ ~(Len(Parsed(part.jsons)) < Len(part.jsons))
    <3>1. Len(part.jsons) \in Int
      BY <1>1, <1>2, ParsedType
    <3> HIDE DEF part
    <3> QED
      BY <1>1, <1>4, <3>1 DEF Found, Node, Reaches
  <2> HIDE DEF part
  <2>5. ArrInsertEffect(part, v) = OnNode(part, v, Number(-1), "array", whole)
    BY <1>1, <2>4 DEF ArrInsertEffect
  <2>6. ArrInsertEffect(part, v) = whole
    <3> HIDE DEF whole
    <3> QED
      BY <2>4, <2>5, OnNodeCases
  <2>7. whole.val = after
    BY <1>4 DEF Commit
  <2> QED
    BY <2>3, <2>6, <2>7
<1> HIDE DEF after, part, index
<1>5. CASE Reaches(c, v, "array")
  <2>1. ArrInsertEffect(c, v) = then
    <3> HIDE DEF then
    <3> QED
      BY <1>3, <1>5, OnNodeCases
  <2>2. CASE c.index # NotInt /\ index \in 0..Size(v.root, a)
    <3>1. then.val = after /\ (~then.sent => then.reply = Error("json"))
      BY <2>2 DEF Answer, Commit
    <3> HIDE DEF then
    <3> QED
      BY <1>4, <1>5, <2>1, <2>2, <3>1 DEF SoundInPart, part
  <2>3. CASE ~(c.index # NotInt /\ index \in 0..Size(v.root, a))
    <3>1. then.val = v
      BY <2>3 DEF Answer
    <3> HIDE DEF then
    <3> QED
      BY <2>1, <3>1 DEF SoundInPart
  <2> QED
    BY <2>2, <2>3
<1>6. CASE ~Reaches(c, v, "array")
  <2> HIDE DEF then
  <2>1. PICK r : ArrInsertEffect(c, v) = Answer(v, r)
    BY <1>3, <1>6, OnNodeCases
  <2> QED
    BY <2>1 DEF SoundInPart, Answer
<1> QED
  BY <1>5, <1>6

(***************************************************************************)
(* All commands.                                                           *)
(***************************************************************************)
\* Every command leaves a well-formed value, and changes it only if the call is
\* propagated or was a batch with a malformed argument.
THEOREM EffectSound ==
  ASSUME NEW c, IsCall(c), c.op \in KeyOps, NEW v, IsValue(v)
  PROVE  /\ IsValue(Effect(c, v).val)
         /\ ~Effect(c, v).sent /\ Effect(c, v).val # v =>
              /\ c.op \in {"arrpush", "arrinsert"}
              /\ Effect(c, v).reply = Error("json")
              /\ Effect(c, v).val = Effect(OnlyParsed(c), v).val
<1>0. c.path \in Path
  BY DEF IsCall
<1>1. CASE c.op = "set"
  BY <1>1, SetSound DEF Effect, Sound
<1>2. CASE c.op = "get"
  BY <1>0, <1>2, ReadsSound DEF Effect, Sound
<1>3. CASE c.op = "del"
  BY <1>0, <1>3, DelSound DEF Effect, Sound
<1>4. CASE c.op = "type"
  BY <1>0, <1>4, ReadsSound DEF Effect, Sound
<1>5. CASE c.op = "strlen"
  BY <1>0, <1>5, ReadsSound DEF Effect, Sound
<1>6. CASE c.op = "arrlen"
  BY <1>0, <1>6, ReadsSound DEF Effect, Sound
<1>7. CASE c.op = "incrby"
  BY <1>7, NumbersSound DEF Effect, Sound
<1>8. CASE c.op = "strappend"
  BY <1>8, NumbersSound DEF Effect, Sound
<1>9. CASE c.op = "arrpush"
  <2>1. OnlyParsed(c).op = "arrpush"
    BY <1>9, OnlyParsedIsCall
  <2>2. Effect(c, v) = ArrPushEffect(c, v) /\ Effect(OnlyParsed(c), v) = ArrPushEffect(OnlyParsed(c), v)
    BY <1>9, <2>1 DEF Effect
  <2> QED
    BY <1>9, <2>2, PushSound DEF SoundInPart
<1>10. CASE c.op = "arrinsert"
  <2>1. OnlyParsed(c).op = "arrinsert"
    BY <1>10, OnlyParsedIsCall
  <2>2. Effect(c, v) = ArrInsertEffect(c, v) /\ Effect(OnlyParsed(c), v) = ArrInsertEffect(OnlyParsed(c), v)
    BY <1>10, <2>1 DEF Effect
  <2> QED
    BY <1>10, <2>2, InsertSound DEF SoundInPart
<1>11. CASE c.op = "arrpop"
  BY <1>11, PopSound DEF Effect, Sound
<1>12. CASE c.op = "arrtrim"
  BY <1>12, TrimSound DEF Effect, Sound
<1>13. CASE c.op = "native"
  <2>1. IsValue(c.to)
    BY <1>13 DEF IsCall, IsValue
  <2> QED
    BY <1>13, <2>1, CommitSound DEF Effect, NativeEffect, Sound
<1> QED
  BY <1>1, <1>2, <1>3, <1>4, <1>5, <1>6, <1>7, <1>8, <1>9, <1>10, <1>11, <1>12, <1>13
     DEF KeyOps

\* A batch without a malformed argument is added as a whole, and propagated.
WholeBatch(c) ==
  c.op \in {"arrpush", "arrinsert"} =>
    \A i \in 1..Len(c.jsons) : c.jsons[i] # BadJson

\* Then a call that is not propagated changes nothing.
THEOREM UnsentKeeps ==
  ASSUME NEW c, IsCall(c), c.op \in KeyOps, WholeBatch(c), NEW v, IsValue(v),
         ~Effect(c, v).sent
  PROVE  Effect(c, v).val = v
<1>1. CASE c.op \notin {"arrpush", "arrinsert"}
  BY <1>1, EffectSound
<1>2. CASE c.op \in {"arrpush", "arrinsert"}
  <2>1. Parsed(c.jsons) = c.jsons
    <3>1. {i \in 1..Len(c.jsons) : c.jsons[i] = BadJson} = {}
      BY <1>2 DEF WholeBatch
    <3> QED
      BY <3>1 DEF Parsed
  <2>2. ~(Len(Parsed(c.jsons)) < Len(c.jsons))
    BY <1>2, <2>1 DEF IsCall
  <2>3. CASE c.op = "arrpush"
    <3> DEFINE then == Commit(Doc(AddItems(v.root, Node(c, v), Parsed(c.jsons))),
                              Number(Size(v.root, Node(c, v)) + Len(c.jsons)))
    <3>1. Effect(c, v) = OnNode(c, v, Number(-1), "array", then)
      BY <2>2, <2>3 DEF Effect, ArrPushEffect
    <3>2. then.sent
      BY DEF Commit
    <3> HIDE DEF then
    <3>3. \E r : Effect(c, v) = Answer(v, r)
      BY <3>1, <3>2, OnNodeCases
    <3> QED
      BY <3>3 DEF Answer
  <2>4. CASE c.op = "arrinsert"
    <3> DEFINE index == FromEnd(c.index, Size(v.root, Node(c, v)))
               then  == IF c.index = NotInt THEN Answer(v, Error("range"))
                        ELSE IF index \notin 0..Size(v.root, Node(c, v)) THEN Answer(v, Error("outflow"))
                        ELSE Commit(Doc(InsertItems(v.root, Node(c, v), index + 1, Parsed(c.jsons))),
                                    Number(Size(v.root, Node(c, v)) + Len(c.jsons)))
    <3>1. Effect(c, v) = OnNode(c, v, Number(-1), "array", then)
      BY <2>2, <2>4 DEF Effect, ArrInsertEffect
    <3>2. then.sent \/ \E r : then = Answer(v, r)
      BY DEF Commit
    <3> HIDE DEF then
    <3>3. \E r : Effect(c, v) = Answer(v, r)
      BY <3>1, <3>2, OnNodeCases
    <3> QED
      BY <3>3 DEF Answer
  <2> QED
    BY <1>2, <2>3, <2>4
<1> QED
  BY <1>1, <1>2
=============================================================================
