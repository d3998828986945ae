---------------------------- MODULE PathTextProofs ----------------------------
(***************************************************************************)
(* Proofs about paths and pointers as texts, for every document and every  *)
(* path.                                                                   *)
(***************************************************************************)
EXTENDS PathTextMeaning, JsonDocProofs

Text == Seq(1..255)

\* The signs that paths and pointers are made of.
LEMMA Signs ==
  /\ NUL = 0 /\ Slash = 47 /\ Tilde = 126 /\ Quote = {39, 34}
  /\ Byte["."] = 46 /\ Byte["["] = 91 /\ Byte["]"] = 93 /\ Byte["$"] = 36 /\ Byte["-"] = 45
  /\ Byte["0"] = 48 /\ Byte["1"] = 49 /\ Byte["9"] = 57 /\ Byte["A"] = 65
BY ByteValues DEF NUL, Slash, Tilde, Quote

\* A byte of a text, and the NUL behind it.
LEMMA TextAt ==
  ASSUME NEW t \in Text, NEW k \in Nat
  PROVE  /\ Len(t) \in Nat
         /\ k < Len(t) => At(t, k) \in 1..255 /\ At(t, k) # NUL /\ t[k + 1] = At(t, k)
         /\ k >= Len(t) => At(t, k) = NUL
<1>1. Len(t) \in Nat /\ \A j \in 1..Len(t) : t[j] \in 1..255
  BY ElementOfSeq, LenProperties DEF Text
<1>2. CASE k < Len(t)
  <2>1. k + 1 \in 1..Len(t)
    BY <1>1, <1>2
  <2>2. t[k + 1] \in 1..255 /\ t[k + 1] # 0
    <3>1. t[k + 1] \in 1..255
      BY <1>1, <2>1
    <3>2. 0 \notin 1..255
      OBVIOUS
    <3> QED BY <3>1, <3>2
  <2>3. At(t, k) = t[k + 1]
    BY <1>2 DEF At
  <2> QED BY <1>1, <1>2, <2>2, <2>3 DEF NUL
<1>3. CASE ~(k < Len(t))
  <2>1. At(t, k) = NUL
    BY <1>3 DEF At
  <2> QED BY <1>1, <1>3, <2>1
<1> QED BY <1>2, <1>3

\* Two texts with the same bytes are one.
LEMMA TextsEqual ==
  ASSUME NEW s \in Text, NEW t \in Text, Len(s) = Len(t), \A k \in 0..(Len(s) - 1) : At(s, k) = At(t, k)
  PROVE  s = t
<1>1. Len(s) \in Nat
  BY LenProperties DEF Text
<1>2. ASSUME NEW j \in 1..Len(s) PROVE s[j] = t[j]
  <2>1. j - 1 \in 0..(Len(s) - 1) /\ j - 1 \in Nat /\ j - 1 < Len(s) /\ (j - 1) + 1 = j
    BY <1>1
  <2>2. At(s, j - 1) = At(t, j - 1)
    BY <2>1
  <2> QED BY <2>1, <2>2, TextAt
<1> QED BY <1>2, SeqEqual DEF Text

\* Parts of a text.
LEMMA TextSlice ==
  ASSUME NEW t \in Text, NEW k \in Nat, NEW j \in k..Len(t)
  PROVE  /\ Slice(t, k, j) \in Text /\ Len(Slice(t, k, j)) = j - k
         /\ \A l \in 0..(j - k - 1) : At(Slice(t, k, j), l) = At(t, k + l)
BY SliceIs DEF Text

LEMMA WholeIs ==
  ASSUME NEW t \in Text
  PROVE  Slice(t, 0, Len(t)) = t
<1>1. Len(t) \in Nat /\ Len(t) \in 0..Len(t)
  BY LenProperties DEF Text
<1>2. /\ Slice(t, 0, Len(t)) \in Text /\ Len(Slice(t, 0, Len(t))) = Len(t) - 0
      /\ \A l \in 0..(Len(t) - 0 - 1) : At(Slice(t, 0, Len(t)), l) = At(t, 0 + l)
  BY <1>1, TextSlice
<1>3. ASSUME NEW l \in 0..(Len(Slice(t, 0, Len(t))) - 1) PROVE At(Slice(t, 0, Len(t)), l) = At(t, l)
  BY <1>1, <1>2
<1> QED BY <1>1, <1>2, <1>3, TextsEqual

LEMMA TextFrom ==
  ASSUME NEW t \in Text, NEW k \in 0..Len(t)
  PROVE  /\ From(t, k) \in Text /\ Len(From(t, k)) = Len(t) - k
         /\ \A l \in 0..(Len(t) - k - 1) : At(From(t, k), l) = At(t, k + l)
<1>1. Len(t) \in Nat /\ k \in Nat /\ k <= Len(t)
  BY LenProperties DEF Text
<1> QED BY <1>1, FromIs DEF Text

LEMMA TextConcat ==
  ASSUME NEW s \in Text, NEW t \in Text
  PROVE  s \o t \in Text /\ Len(s \o t) = Len(s) + Len(t)
BY ConcatProperties, LenProperties DEF Text

LEMMA TextIndex ==
  ASSUME NEW t \in Text, NEW k \in Nat, NEW B
  PROVE  /\ k <= Len(t) => IndexFrom(t, k, B) \in k..Len(t)
         /\ IndexFrom(t, k, B) \in Nat /\ IndexFrom(t, k, B) <= Len(t)
         /\ IndexFrom(t, k, B) < Len(t) => At(t, IndexFrom(t, k, B)) \in B
         /\ \A j \in k..(IndexFrom(t, k, B) - 1) : At(t, j) \notin B
BY IndexFromIs DEF Text

(***************************************************************************)
(* A lookup leads to one node or to none.                                  *)
(***************************************************************************)
One(d, S) == S = {} \/ \E a \in DOMAIN d : S = {a}

LEMMA ChildIs ==
  ASSUME NEW d, WellFormed(d), NEW a \in DOMAIN d, d[a].t \in Container, NEW k \in 1..Size(d, a)
  PROVE  Append(a, k) \in DOMAIN d
BY DEF WellFormed, Counted, Size

LEMMA SizeIs ==
  ASSUME NEW d, WellFormed(d), NEW a \in DOMAIN d, d[a].t \in Container
  PROVE  Size(d, a) \in Nat
BY DEF WellFormed, Counted, Size

LEMMA ElementOne ==
  ASSUME NEW d, WellFormed(d), NEW a \in DOMAIN d, d[a].t \in Container, NEW index
  PROVE  One(d, Element(d, a, index))
<1>1. CASE index \in 0..(Size(d, a) - 1)
  <2>1. index + 1 \in 1..Size(d, a)
    BY <1>1, SizeIs
  <2>2. Element(d, a, index) = {Append(a, index + 1)}
    BY <1>1 DEF Element
  <2> QED BY <2>1, <2>2, ChildIs DEF One
<1>2. CASE index \notin 0..(Size(d, a) - 1)
  BY <1>2 DEF Element, One
<1> QED BY <1>1, <1>2

LEMMA ChildWithOne ==
  ASSUME NEW d, WellFormed(d), NEW a \in DOMAIN d, d[a].t \in Container, NEW fits
  PROVE  One(d, ChildWith(d, a, fits))
<1> DEFINE hits == {k \in 1..Size(d, a) : fits[k]}
<1>1. CASE hits = {}
  BY <1>1 DEF ChildWith, One
<1>2. CASE hits # {}
  <2>1. Min(hits) \in hits
    <3>1. hits \subseteq Nat
      BY SizeIs
    <3> QED BY <1>2, <3>1, MinIs
  <2>2. Append(a, Min(hits)) \in DOMAIN d
    BY <2>1, ChildIs
  <2>3. ChildWith(d, a, fits) = {Append(a, Min(hits))}
    BY <1>2 DEF ChildWith
  <2> QED BY <2>2, <2>3 DEF One
<1> QED BY <1>1, <1>2

LEMMA DetachedOne ==
  ASSUME NEW d, WellFormed(d), NEW S, One(d, S), NEW child
  PROVE  One(d, UNION {Detached(d, a, child) : a \in S})
<1>1. CASE S = {}
  BY <1>1 DEF One
<1>2. ASSUME NEW a \in DOMAIN d, S = {a} PROVE One(d, UNION {Detached(d, b, child) : b \in S})
  <2>1. UNION {Detached(d, b, child) : b \in S} = Detached(d, a, child)
    BY <1>2
  <2>2. One(d, Detached(d, a, child))
    <3>1. CASE d[a].t = "array"
      BY <3>1, ElementOne DEF Detached, Container
    <3>2. CASE d[a].t = "object"
      BY <3>2, ChildWithOne DEF Detached, Homonym, Container
    <3>3. CASE d[a].t \notin Container
      BY <3>3 DEF Detached, Container, One
    <3> QED BY <3>1, <3>2, <3>3 DEF Container
  <2> QED BY <2>1, <2>2
<1> QED BY <1>1, <1>2 DEF One

(***************************************************************************)
(* Types.  While a path is converted, the pointer is not longer than what  *)
(* has been read.                                                          *)
(***************************************************************************)
Asked ==
  /\ call \in Calls
  /\ i \in 0..Len(path)
  /\ pointer \in Text /\ rest \in Text
  /\ Len(pointer) <= Len(path) /\ Len(rest) <= Len(pointer)
  /\ One(call.doc, at) /\ One(call.doc, found) /\ One(call.doc, taken)

Idle ==
  /\ call = <<>> /\ i = 0 /\ pointer = <<>> /\ rest = <<>>
  /\ at = {} /\ found = {} /\ taken = {}

TypeInv ==
  /\ mode \in Modes
  /\ mode = "idle" => Idle
  /\ mode # "idle" => Asked
  /\ mode = "convert" => Len(pointer) <= i /\ rest = <<>>

LEMMA CallIs ==
  ASSUME NEW c \in Calls
  PROVE  /\ c # <<>> /\ WellFormed(c.doc) /\ c.path \in Text /\ Len(c.path) \in Nat
         /\ Root \in DOMAIN c.doc
<1>1. DOMAIN c = {"doc", "path", "steps"} /\ WellFormed(c.doc) /\ c.path \in Text
  BY CallsAssumption DEF Text
<1>2. c # <<>>
  <2>1. DOMAIN <<>> = {}
    OBVIOUS
  <2> QED BY <1>1, <2>1
<1> QED BY <1>1, <1>2, LenProperties DEF Text, WellFormed, Rooted

LEMMA EmptyText == <<>> \in Text /\ Len(<<>>) = 0
BY EmptySeq DEF Text

LEMMA AskedIs ==
  ASSUME Asked
  PROVE  /\ WellFormed(call.doc) /\ path \in Text /\ Len(path) \in Nat /\ i \in Nat
         /\ Len(pointer) \in Nat /\ Len(rest) \in Nat
BY CallIs, LenProperties DEF Asked, path, Text

LEMMA AskType == ASSUME TypeInv, Ask PROVE TypeInv'
<1>1. PICK c \in Calls : call' = c
  BY DEF Ask
<1>2. Idle /\ mode' = "convert" /\ i' = 0 /\ pointer' = <<>> /\ rest' = <<>>
      /\ at' = {} /\ found' = {} /\ taken' = {}
  BY DEF Ask, TypeInv, Idle
<1>3. c.path \in Text /\ Len(c.path) \in Nat
  BY CallIs
<1> QED BY <1>1, <1>2, <1>3, EmptyText DEF TypeInv, Asked, One, path, Modes

\* A text that is followed from the root, and not longer than the pointer.
LEMMA FollowType ==
  ASSUME TypeInv, mode # "idle", NEW text \in Text, NEW next \in {"find", "hold"},
         Follow(text, next), pointer' \in Text, Len(pointer') <= Len(path),
         Len(text) <= Len(pointer'), UNCHANGED <<call, i, found, taken>>
  PROVE  TypeInv'
<1>1. Asked /\ rest' = text /\ at' = {Root} /\ mode' = next
  BY DEF TypeInv, Follow
<1>2. One(call.doc, {Root})
  BY <1>1, CallIs DEF One, Asked
<1>3. mode' \in Modes /\ mode' # "idle" /\ mode' # "convert"
  BY <1>1 DEF Modes
<1> QED BY <1>1, <1>2, <1>3 DEF TypeInv, Asked, path

\* Bytes that are appended to the pointer are no more than those read.
LEMMA ConvertType ==
  ASSUME TypeInv, Converting, NEW bytes \in Text, NEW next \in 0..Len(path),
         Len(bytes) <= next - i, Convert(bytes, next)
  PROVE  TypeInv'
<1>1. Asked /\ mode = "convert" /\ Len(pointer) <= i /\ rest = <<>>
  BY DEF TypeInv, Converting
<1>2. /\ pointer \o bytes \in Text /\ Len(pointer \o bytes) = Len(pointer) + Len(bytes)
      /\ Len(bytes) \in Nat
  BY <1>1, TextConcat, LenProperties DEF Asked, Text
<1>3. i \in Nat /\ Len(path) \in Nat /\ Len(pointer) \in Nat
  BY <1>1, AskedIs
<1>4. Len(pointer \o bytes) <= next
  BY <1>1, <1>2, <1>3
<1>5. next <= Len(path) /\ Len(pointer \o bytes) <= Len(path)
  BY <1>2, <1>3, <1>4
<1>6. /\ pointer' = pointer \o bytes /\ i' = next /\ mode' = mode
      /\ UNCHANGED <<call, rest, at, found, taken>>
  BY DEF Convert
<1>7. path' = path
  BY <1>6 DEF path
<1>8. Len(rest) = 0 /\ Len(rest) <= Len(pointer \o bytes)
  BY <1>1, <1>2, <1>3, EmptyText
<1> QED BY <1>1, <1>2, <1>4, <1>5, <1>6, <1>7, <1>8 DEF TypeInv, Asked, Modes

LEMMA ReadDotType == ASSUME TypeInv, ReadDot PROVE TypeInv'
<1>1. Converting /\ Asked
  BY DEF ReadDot, TypeInv, Converting
<1>2. i \in Nat /\ path \in Text /\ Len(path) \in Nat
  BY <1>1, AskedIs
<1>3. i < Len(path)
  <2>1. At(path, i) # NUL
    BY Signs DEF ReadDot
  <2> QED BY <1>2, <2>1, TextAt
<1>4. <<Slash>> \in Text /\ Len(<<Slash>>) = 1
  BY Signs DEF Text
<1>5. i + 1 \in 0..Len(path) /\ Len(<<Slash>>) <= (i + 1) - i
  BY <1>2, <1>3, <1>4
<1> QED BY <1>1, <1>4, <1>5, ConvertType DEF ReadDot

\* A slice of the path behind a slash.
LEMMA SlashSlice ==
  ASSUME NEW t \in Text, NEW k \in Nat, NEW j \in k..Len(t)
  PROVE  /\ <<Slash>> \o Slice(t, k, j) \in Text
         /\ Len(<<Slash>> \o Slice(t, k, j)) = 1 + (j - k)
<1>1. <<Slash>> \in Text /\ Len(<<Slash>>) = 1
  BY Signs DEF Text
<1> QED BY <1>1, TextSlice, TextConcat

LEMMA ReadQuotedType == ASSUME TypeInv, ReadQuoted PROVE TypeInv'
<1> DEFINE end == IndexFrom(path, i + 2, Quote)
<1>1. Converting /\ Asked
  BY DEF ReadQuoted, TypeInv, Converting
<1>2. i \in Nat /\ path \in Text /\ Len(path) \in Nat
  BY <1>1, AskedIs
<1>3. i + 1 < Len(path)
  <2>1. At(path, i + 1) # NUL
    BY Signs DEF ReadQuoted, Next1
  <2> QED BY <1>2, <2>1, TextAt
<1>4. end \in (i + 2)..Len(path)
  BY <1>2, <1>3, TextIndex
<1>5. end + 1 < Len(path)
  <2>1. At(path, end + 1) # NUL
    BY Signs DEF ReadQuoted
  <2> QED BY <1>2, <1>4, <2>1, TextAt
<1>6. Convert(<<Slash>> \o Slice(path, i + 2, end), end + 2)
  BY DEF ReadQuoted
<1> HIDE DEF end
<1>7. i + 2 \in Nat
  BY <1>2
<1>8. /\ <<Slash>> \o Slice(path, i + 2, end) \in Text
      /\ Len(<<Slash>> \o Slice(path, i + 2, end)) = 1 + (end - (i + 2))
  BY <1>2, <1>4, <1>7, SlashSlice
<1>9. /\ end + 2 \in 0..Len(path)
      /\ Len(<<Slash>> \o Slice(path, i + 2, end)) <= (end + 2) - i
  BY <1>2, <1>4, <1>5, <1>8
<1> QED BY <1>1, <1>6, <1>8, <1>9, ConvertType

LEMMA ReadIndexType == ASSUME TypeInv, ReadIndex PROVE TypeInv'
<1> DEFINE end == IndexFrom(path, i + 1, {Byte["]"]})
<1>1. Converting /\ Asked
  BY DEF ReadIndex, TypeInv, Converting
<1>2. i \in Nat /\ path \in Text /\ Len(path) \in Nat
  BY <1>1, AskedIs
<1>3. i < Len(path)
  <2>1. At(path, i) # NUL
    BY Signs DEF ReadIndex
  <2> QED BY <1>2, <2>1, TextAt
<1>4. end \in (i + 1)..Len(path) /\ end < Len(path)
  BY <1>2, <1>3, TextIndex DEF ReadIndex
<1>5. Convert(<<Slash>> \o Slice(path, i + 1, end), end + 1)
  BY DEF ReadIndex
<1> HIDE DEF end
<1>6. i + 1 \in Nat
  BY <1>2
<1>7. /\ <<Slash>> \o Slice(path, i + 1, end) \in Text
      /\ Len(<<Slash>> \o Slice(path, i + 1, end)) = 1 + (end - (i + 1))
  BY <1>2, <1>4, <1>6, SlashSlice
<1>8. /\ end + 1 \in 0..Len(path)
      /\ Len(<<Slash>> \o Slice(path, i + 1, end)) <= (end + 1) - i
  BY <1>2, <1>4, <1>7
<1> QED BY <1>1, <1>5, <1>7, <1>8, ConvertType

LEMMA ReadNameType == ASSUME TypeInv, ReadName PROVE TypeInv'
<1> DEFINE end == IndexFrom(path, i + 1, {Byte["."], Byte["["]})
<1>1. Converting /\ Asked
  BY DEF ReadName, TypeInv, Converting
<1>2. i \in Nat /\ path \in Text /\ Len(path) \in Nat
  BY <1>1, AskedIs
<1>3. i < Len(path)
  <2>1. At(path, i) # NUL
    BY DEF ReadName
  <2> QED BY <1>2, <2>1, TextAt
<1>4. end \in (i + 1)..Len(path)
  BY <1>2, <1>3, TextIndex
<1>5. Convert(Slice(path, i, end), end)
  BY DEF ReadName
<1> HIDE DEF end
<1>6. end \in i..Len(path) /\ end \in 0..Len(path)
  BY <1>2, <1>4
<1>7. Slice(path, i, end) \in Text /\ Len(Slice(path, i, end)) = end - i
  BY <1>2, <1>6, TextSlice
<1> QED BY <1>1, <1>2, <1>5, <1>6, <1>7, ConvertType

\* The last slash of the pointer, if it has one.
LEMMA LastSlashIs ==
  ASSUME pointer \in Text
  PROVE  /\ LastSlash \in 0..Len(pointer)
         /\ LastSlash # 0 => /\ At(pointer, LastSlash - 1) = Slash
                             /\ \A k \in LastSlash..(Len(pointer) - 1) : At(pointer, k) # Slash
         /\ LastSlash = 0 => \A k \in 0..(Len(pointer) - 1) : At(pointer, k) # Slash
<1> DEFINE hits == {k \in 1..Len(pointer) : pointer[k] = Slash}
<1>1. Len(pointer) \in Nat
  BY LenProperties DEF Text
<1>2. LastSlash = IF hits # {} THEN Max(hits) ELSE 0
  BY DEF LastSlash, SelectLastInSeq
<1>3. ASSUME NEW k \in 0..(Len(pointer) - 1), k + 1 \notin hits PROVE At(pointer, k) # Slash
  <2>1. k < Len(pointer) /\ k + 1 \in 1..Len(pointer)
    BY <1>1
  <2> QED BY <1>3, <2>1 DEF At
<1>4. CASE hits = {}
  <2> HIDE DEF hits
  <2> QED BY <1>1, <1>2, <1>3, <1>4
<1>5. CASE hits # {}
  <2>1. hits \subseteq 0..Len(pointer)
    BY <1>1
  <2>2. Max(hits) \in hits /\ \A y \in hits : y <= Max(hits)
    <3> HIDE DEF hits
    <3> QED BY <1>1, <1>5, <2>1, MaxIs
  <2>3. Max(hits) \in 1..Len(pointer) /\ pointer[Max(hits)] = Slash
    BY <2>2
  <2>4. At(pointer, Max(hits) - 1) = Slash
    BY <1>1, <2>3 DEF At
  <2> HIDE DEF hits
  <2>5. ASSUME NEW k \in Max(hits)..(Len(pointer) - 1) PROVE At(pointer, k) # Slash
    <3>1. k \in 0..(Len(pointer) - 1) /\ ~(k + 1 <= Max(hits))
      BY <1>1, <2>3
    <3> QED BY <1>3, <2>2, <3>1
  <2> QED BY <1>1, <1>2, <1>5, <2>3, <2>4, <2>5
<1> QED BY <1>4, <1>5

LEMMA TakeOverType == ASSUME TypeInv, TakeOver PROVE TypeInv'
<1>1. mode # "idle" /\ Asked
  BY DEF TypeInv, TakeOver
<1>2. path \in Text /\ Len(path) \in Nat
  BY <1>1, AskedIs
<1> QED BY <1>1, <1>2, FollowType DEF TakeOver

LEMMA RootSignType == ASSUME TypeInv, RootSign PROVE TypeInv'
<1>1. mode # "idle" /\ Asked
  BY DEF TypeInv, RootSign
<1>2. Len(pointer) \in Nat
  BY <1>1, AskedIs
<1>3. Len(<<>>) <= Len(pointer)
  BY <1>2, EmptyText
<1> QED BY <1>1, <1>3, FollowType, EmptyText DEF RootSign, Asked

LEMMA ConvertedType == ASSUME TypeInv, Converted PROVE TypeInv'
<1>1. mode # "idle" /\ Asked
  BY DEF TypeInv, Converted, Converting
<1>2. Len(pointer) \in Nat
  BY <1>1, AskedIs
<1> QED BY <1>1, <1>2, FollowType DEF Converted, Asked

LEMMA SplitType == ASSUME TypeInv, SplitPointer PROVE TypeInv'
<1>1. mode # "idle" /\ Asked
  BY DEF TypeInv, SplitPointer
<1>2. Len(pointer) \in Nat /\ LastSlash - 1 \in 0..Len(pointer)
  BY <1>1, AskedIs, LastSlashIs DEF SplitPointer, Asked
<1>3. /\ Slice(pointer, 0, LastSlash - 1) \in Text
      /\ Len(Slice(pointer, 0, LastSlash - 1)) = (LastSlash - 1) - 0
  BY <1>1, <1>2, TextSlice DEF Asked
<1>4. Len(Slice(pointer, 0, LastSlash - 1)) <= Len(pointer)
  BY <1>2, <1>3
<1> QED BY <1>1, <1>3, <1>4, FollowType DEF SplitPointer, Asked

LEMMA RejectType == ASSUME TypeInv, RejectBracket PROVE TypeInv'
<1>1. Asked /\ rest = <<>>
  BY DEF TypeInv, RejectBracket, Converting
<1>2. Len(path) \in Nat
  BY <1>1, AskedIs
<1> QED BY <1>1, <1>2, EmptyText DEF RejectBracket, TypeInv, Asked, Modes, path

\* A token is left behind.
LEMMA StepType ==
  ASSUME TypeInv, HasToken, NEW next, Step(next), One(call.doc, next)
  PROVE  TypeInv'
<1>1. Asked /\ mode \in {"find", "hold"}
  BY DEF TypeInv, HasToken, Following
<1>2. Len(rest) \in Nat /\ rest \in Text
  BY <1>1, AskedIs DEF Asked
<1>3. 0 < Len(rest)
  <2>1. At(rest, 0) # NUL
    BY Signs DEF HasToken
  <2> QED BY <1>2, <2>1, TextAt
<1> DEFINE end == IndexFrom(rest, 1, {Slash})
<1>4. end \in 1..Len(rest)
  BY <1>2, <1>3, TextIndex
<1>5. rest' = From(rest, end) /\ at' = next /\ UNCHANGED <<call, i, pointer, found, taken, mode>>
  BY DEF Step
<1> HIDE DEF end
<1>6. end \in 0..Len(rest)
  BY <1>2, <1>4
<1>7. From(rest, end) \in Text /\ Len(From(rest, end)) = Len(rest) - end
  BY <1>2, <1>6, TextFrom
<1>8. Len(pointer) \in Nat /\ Len(rest) <= Len(pointer)
  BY <1>1, AskedIs DEF Asked
<1>9. Len(From(rest, end)) <= Len(pointer)
  BY <1>2, <1>6, <1>7, <1>8
<1> QED BY <1>1, <1>5, <1>7, <1>9 DEF TypeInv, Asked, path

\* Where the lookup is.
LEMMA HereIs ==
  ASSUME TypeInv, HasToken
  PROVE  Asked /\ WellFormed(call.doc) /\ Here \in DOMAIN call.doc /\ at = {Here}
<1>1. Asked
  BY DEF TypeInv, HasToken, Following
<1>2. WellFormed(call.doc)
  BY <1>1, AskedIs
<1>3. PICK a \in DOMAIN call.doc : at = {a}
  BY <1>1 DEF Asked, One, HasToken
<1>4. Here = a
  BY <1>3 DEF Here
<1> QED BY <1>1, <1>2, <1>3, <1>4

LEMMA FollowTypes ==
  ASSUME TypeInv, FollowElement \/ FollowMember \/ FollowScalar
  PROVE  TypeInv'
<1>1. HasToken
  BY DEF FollowElement, FollowMember, FollowScalar
<1>2. WellFormed(call.doc) /\ Here \in DOMAIN call.doc
  BY <1>1, HereIs
<1>3. CASE FollowElement
  <2>1. One(call.doc, Element(call.doc, Here, IndexOf(Token)))
    BY <1>2, <1>3, ElementOne DEF FollowElement, Type, Container
  <2> QED BY <1>1, <1>3, <2>1, StepType DEF FollowElement
<1>4. CASE FollowMember
  <2> DEFINE fits == [k \in 1..Size(call.doc, Here) |->
                        ComparePointers(call.doc[Append(Here, k)].name, Token)]
  <2>1. One(call.doc, ChildWith(call.doc, Here, fits))
    BY <1>2, <1>4, ChildWithOne DEF FollowMember, Type, Container
  <2>2. Step(ChildWith(call.doc, Here, fits))
    BY <1>4 DEF FollowMember
  <2> QED BY <1>1, <2>1, <2>2, StepType
<1>5. CASE FollowScalar
  <2>1. One(call.doc, {})
    BY DEF One
  <2> QED BY <1>1, <1>5, <2>1, StepType DEF FollowScalar
<1> QED BY <1>3, <1>4, <1>5

LEMMA FindType == ASSUME TypeInv, Find PROVE TypeInv'
BY DEF TypeInv, Find, Asked, Modes, path

LEMMA DetachType == ASSUME TypeInv, Detach PROVE TypeInv'
<1>1. Asked
  BY DEF TypeInv, Detach
<1>2. WellFormed(call.doc) /\ One(call.doc, at)
  BY <1>1, AskedIs DEF Asked
<1>3. One(call.doc, UNION {Detached(call.doc, a, DecodePointerInplace(From(pointer, LastSlash))) : a \in at})
  BY <1>2, DetachedOne
<1> QED BY <1>1, <1>3 DEF TypeInv, Detach, Asked, Modes, path

LEMMA ReplyType == ASSUME TypeInv, Reply PROVE TypeInv'
BY DEF TypeInv, Reply, Idle, Modes

LEMMA TypeStep == TypeInv /\ [Next]_vars => TypeInv'
<1> SUFFICES ASSUME TypeInv, [Next]_vars PROVE TypeInv'
  OBVIOUS
<1>1. CASE Next
  BY <1>1, AskType, TakeOverType, RootSignType, ReadDotType, ReadQuotedType, ReadIndexType,
     ReadNameType, RejectType, ConvertedType, FollowTypes, FindType, SplitType, DetachType,
     ReplyType DEF Next
<1>2. CASE UNCHANGED vars
  BY <1>2 DEF vars, TypeInv, Asked, Idle, path
<1> QED BY <1>1, <1>2

LEMMA TypeInvariant == Spec => []TypeInv
<1>1. Init => TypeInv
  BY DEF Init, TypeInv, Idle, Modes
<1> QED BY <1>1, TypeStep, PTL DEF Spec

\* However a path is converted and a pointer followed, an index stays inside
\* the text that it reads, the pointer is not longer than the path it is
\* converted from, and a lookup leads to one node of the document or to none.
\* (pathToPointer, get_item_from_pointer, detach_path)
THEOREM PathTypeCorrect == Spec => []TypeOK
<1>1. TypeInv => TypeOK
  <2> SUFFICES ASSUME TypeInv, mode # "idle"
               PROVE  /\ call # <<>>
                      /\ \A S \in {at, found, taken} : S = {} \/ \E a \in DOMAIN call.doc : S = {a}
    BY DEF TypeInv, TypeOK, Asked
  <2>1. Asked
    BY DEF TypeInv
  <2> QED BY <2>1, CallIs DEF Asked, One
<1> QED BY <1>1, TypeInvariant, PTL

(***************************************************************************)
(* What the routines that read a token make of any text.                   *)
(***************************************************************************)
NextDigit(t, k, v) == (10 * v + Value(t[k])) % SizeMax

LEMMA NumeralIs ==
  ASSUME NEW t \in Text
  PROVE  /\ Numeral(t)[0] = 0 /\ \A k \in 0..Len(t) : Numeral(t)[k] \in Int
         /\ \A k \in 1..Len(t) : Numeral(t)[k] = NextDigit(t, k, Numeral(t)[k - 1])
<1> DEFINE Does(f) == f = [k \in 0..Len(t) |-> IF k = 0 THEN 0 ELSE NextDigit(t, k, f[k - 1])]
           g == Numeral(t)
<1> HIDE DEF Does, g
<1>1. Len(t) \in Nat /\ \A k \in 1..Len(t) : t[k] \in Int
  <2>1. Len(t) \in Nat /\ \A k \in 1..Len(t) : t[k] \in 1..255
    BY LenProperties, ElementOfSeq DEF Text
  <2>2. 1..255 \subseteq Int
    OBVIOUS
  <2> QED BY <2>1, <2>2
<1>2. \A k \in 1..Len(t), v \in Int : NextDigit(t, k, v) \in Int
  <2> SUFFICES ASSUME NEW k \in 1..Len(t), NEW v \in Int PROVE NextDigit(t, k, v) \in Int
    OBVIOUS
  <2>1. 10 * v + Value(t[k]) \in Int
    BY <1>1, Signs DEF Value
  <2> QED BY <2>1, SizeMaxAssumption DEF NextDigit
<1>3. \E f : Does(f)
  <2> DEFINE F == [k \in 1..Len(t) |-> [v \in Int |-> NextDigit(t, k, v)]]
  <2>1. F \in [1..Len(t) -> [Int -> Int]] /\ 0 \in Int
    BY <1>2
  <2>2. \A k \in 1..Len(t), v \in Int : F[k][v] = NextDigit(t, k, v)
    OBVIOUS
  <2> HIDE DEF F
  <2>3. PICK f : Folds(f, Len(t), Int, 0, F)
    BY <1>1, <2>1, FoldExists
  <2>4. ASSUME NEW k \in 0..Len(t)
        PROVE  f[k] = IF k = 0 THEN 0 ELSE NextDigit(t, k, f[k - 1])
    <3>1. CASE k # 0
      <4>1. k \in 1..Len(t) /\ k - 1 \in 0..Len(t)
        BY <1>1, <3>1
      <4> QED BY <2>2, <2>3, <3>1, <4>1 DEF Folds
    <3> QED BY <2>3, <3>1 DEF Folds
  <2>5. f = [k \in 0..Len(t) |-> f[k]]
    BY <2>3 DEF Folds
  <2> QED BY <2>4, <2>5 DEF Does
<1>4. g = CHOOSE f : Does(f)
  BY DEF Numeral, NextDigit, g, Does
<1>5. Does(g)
  <2> HIDE DEF g, Does
  <2> QED BY <1>3, <1>4
<1> HIDE DEF g
<1>6. g[0] = 0 /\ \A k \in 1..Len(t) : g[k] = NextDigit(t, k, g[k - 1])
  BY <1>1, <1>5 DEF Does
<1> DEFINE Good == {k \in Nat : k <= Len(t) => g[k] \in Int}
<1>7. 0 \in Good
  BY <1>6
<1>8. ASSUME NEW k \in Nat, k \in Good PROVE k + 1 \in Good
  <2> SUFFICES ASSUME k + 1 <= Len(t) PROVE g[k + 1] \in Int
    OBVIOUS
  <2>1. k + 1 \in 1..Len(t) /\ (k + 1) - 1 = k /\ g[k] \in Int
    BY <1>1, <1>8
  <2> QED BY <1>2, <1>6, <2>1
<1>9. Nat \subseteq Good
  <2> HIDE DEF Good
  <2> QED BY <1>7, <1>8, Induction
<1>10. \A k \in 0..Len(t) : g[k] \in Int
  BY <1>1, <1>9
<1> QED BY <1>6, <1>10 DEF g

LEMMA IndexOfInt ==
  ASSUME NEW t \in Text
  PROVE  IndexOf(t) \in Int
<1>1. Len(t) \in 0..Len(t)
  BY LenProperties DEF Text
<1>2. Numeral(t)[Len(t)] \in Int
  BY <1>1, NumeralIs
<1> QED BY <1>2 DEF IndexOf

\* What compare_pointers has read of t when it has compared byte n of the name.
MatchNext(name, t, n, s) ==
  CASE At(t, s) = Tilde /\ <<At(t, s + 1), name[n]>> \in Escape -> s + 2
    [] At(t, s) # Tilde /\ At(t, s) = name[n]                   -> s + 1
    [] OTHER                                                    -> Len(t) + 1

LEMMA MatchedSteps ==
  ASSUME NEW name \in Text, NEW t \in Text
  PROVE  /\ Matched(name, t)[0] = 0 /\ \A n \in 0..Len(name) : Matched(name, t)[n] \in Nat
         /\ \A n \in 1..Len(name) : Matched(name, t)[n] = MatchNext(name, t, n, Matched(name, t)[n - 1])
<1> DEFINE m == Matched(name, t)
           Does(f) == f = [n \in 0..Len(name) |-> IF n = 0 THEN 0 ELSE MatchNext(name, t, n, f[n - 1])]
<1>1. Len(name) \in Nat /\ Len(t) \in Nat
  BY LenProperties DEF Text
<1>2. \A n \in 1..Len(name), s \in Nat : MatchNext(name, t, n, s) \in Nat
  BY <1>1 DEF MatchNext
<1>3. \E f : Does(f)
  <2> DEFINE F == [n \in 1..Len(name) |-> [s \in Nat |-> MatchNext(name, t, n, s)]]
  <2>1. F \in [1..Len(name) -> [Nat -> Nat]] /\ 0 \in Nat
    BY <1>2
  <2>2. \A n \in 1..Len(name), s \in Nat : F[n][s] = MatchNext(name, t, n, s)
    OBVIOUS
  <2> HIDE DEF F
  <2>3. PICK f : Folds(f, Len(name), Nat, 0, F)
    BY <1>1, <2>1, FoldExists
  <2>4. ASSUME NEW n \in 0..Len(name)
        PROVE  f[n] = IF n = 0 THEN 0 ELSE MatchNext(name, t, n, f[n - 1])
    <3>1. CASE n # 0
      <4>1. n \in 1..Len(name) /\ n - 1 \in 0..Len(name)
        BY <1>1, <3>1
      <4> QED BY <2>2, <2>3, <3>1, <4>1 DEF Folds
    <3> QED BY <2>3, <3>1 DEF Folds
  <2> QED BY <2>3, <2>4 DEF Folds
<1>4. m = CHOOSE f : Does(f)
  BY DEF Matched, MatchNext
<1>5. Does(m)
  <2> HIDE DEF m, Does
  <2> QED BY <1>3, <1>4
<1> HIDE DEF m
<1>6. m[0] = 0 /\ \A n \in 1..Len(name) : m[n] = MatchNext(name, t, n, m[n - 1])
  BY <1>1, <1>5
<1> DEFINE Good == {n \in Nat : n <= Len(name) => m[n] \in Nat}
<1>7. 0 \in Good
  BY <1>6
<1>8. ASSUME NEW n \in Nat, n \in Good PROVE n + 1 \in Good
  <2> SUFFICES ASSUME n + 1 <= Len(name) PROVE m[n + 1] \in Nat
    OBVIOUS
  <2>1. n + 1 \in 1..Len(name) /\ (n + 1) - 1 = n /\ m[n] \in Nat
    BY <1>1, <1>8
  <2> QED BY <1>2, <1>6, <2>1
<1>9. Nat \subseteq Good
  <2> HIDE DEF Good
  <2> QED BY <1>7, <1>8, Induction
<1>10. \A n \in 0..Len(name) : m[n] \in Nat
  BY <1>1, <1>9
<1> QED BY <1>6, <1>10 DEF m

\* u has what the first bytes of the escaped name t stand for.
Spells(u, t) ==
  /\ u \in [0..Len(t) -> Text] /\ u[0] = <<>> /\ u[Len(t)] = Unescaped(t)
  /\ \A s \in 1..Len(t) : u[s] = u[s - 1] \o StandsFor(t, s)

LEMMA StandsForText ==
  ASSUME NEW t \in Text, NEW s \in 1..Len(t)
  PROVE  StandsFor(t, s) \in Text
<1>1. t[s] \in 1..255 /\ Tilde \in 1..255 /\ Slash \in 1..255
  BY ElementOfSeq, Signs DEF Text
<1>2. <<>> \in Text /\ <<t[s]>> \in Text /\ <<Tilde>> \in Text /\ <<Slash>> \in Text
  BY <1>1, EmptyText DEF Text
<1> QED BY <1>2 DEF StandsFor

LEMMA SpellsExists ==
  ASSUME NEW t \in Text
  PROVE  \E u : Spells(u, t)
<1> DEFINE seqs == [s \in DOMAIN t |-> StandsFor(t, s)]
<1>1. Len(t) \in Nat /\ DOMAIN t = 1..Len(t) /\ \A k \in 1..Len(t) : t[k] \in 1..255
  BY LenProperties, ElementOfSeq DEF Text
<1>2. \A s \in 1..Len(t) : StandsFor(t, s) \in Text
  BY StandsForText
<1>3. seqs \in [1..Len(t) -> Seq(1..255)]
  BY <1>1, <1>2 DEF Text
<1>4. \A s \in 1..Len(t) : seqs[s] = StandsFor(t, s)
  BY <1>1
<1>5. Unescaped(t) = FlattenSeq(seqs)
  BY DEF Unescaped
<1> HIDE DEF seqs
<1>6. PICK u : Joins(u, Len(t), 1..255, seqs)
  BY <1>1, <1>3, JoinedUpTo
<1> QED BY <1>4, <1>5, <1>6 DEF Joins, Spells, Text

\* What more bytes stand for is behind what fewer do.
Begins(s, t) == Len(s) <= Len(t) /\ \A k \in 1..Len(s) : t[k] = s[k]

LEMMA SpellsMore ==
  ASSUME NEW t \in Text, NEW u, Spells(u, t), NEW a \in 0..Len(t), NEW b \in a..Len(t)
  PROVE  Begins(u[a], u[b])
<1>1. Len(t) \in Nat /\ \A s \in 0..Len(t) : u[s] \in Text /\ Len(u[s]) \in Nat
  BY LenProperties DEF Text, Spells
<1> DEFINE Good == {k \in Nat : a + k <= Len(t) => Begins(u[a], u[a + k])}
<1>2. 0 \in Good
  BY <1>1 DEF Begins
<1>3. ASSUME NEW k \in Nat, k \in Good PROVE k + 1 \in Good
  <2> SUFFICES ASSUME a + (k + 1) <= Len(t) PROVE Begins(u[a], u[a + (k + 1)])
    OBVIOUS
  <2>1. a + (k + 1) \in 1..Len(t) /\ (a + (k + 1)) - 1 = a + k /\ a + k \in 0..Len(t) /\ Begins(u[a], u[a + k])
    BY <1>1, <1>3
  <2> DEFINE x == u[a + k]
             y == StandsFor(t, a + (k + 1))
  <2>2. u[a + (k + 1)] = x \o y
    BY <2>1 DEF Spells
  <2>3. x \in Seq(1..255) /\ y \in Seq(1..255)
    BY <1>1, <2>1, StandsForText DEF Text
  <2> HIDE DEF x, y
  <2>4. Len(x \o y) = Len(x) + Len(y) /\ Len(y) \in Nat /\ Len(x) \in Nat
        /\ \A j \in 1..Len(x) : (x \o y)[j] = x[j]
    <3>1. /\ Len(x \o y) = Len(x) + Len(y) /\ Len(y) \in Nat /\ Len(x) \in Nat
          /\ \A j \in 1..(Len(x) + Len(y)) : (x \o y)[j] = IF j <= Len(x) THEN x[j] ELSE y[j - Len(x)]
      BY <2>3, ConcatProperties, LenProperties
    <3> QED BY <3>1
  <2>5. Begins(u[a], x) /\ Len(u[a]) \in Nat
    BY <1>1, <2>1 DEF x
  <2>6. Begins(u[a], x \o y)
    BY <2>4, <2>5 DEF Begins
  <2> QED BY <2>2, <2>6
<1>4. b - a \in Good
  <2>1. Nat \subseteq Good
    <3> HIDE DEF Good
    <3> QED BY <1>2, <1>3, Induction
  <2>2. b - a \in Nat
    BY <1>1
  <2> QED BY <2>1, <2>2
<1>5. a + (b - a) = b /\ b <= Len(t)
  BY <1>1
<1> QED BY <1>4, <1>5

\* A place in an escaped name that is not inside an escape, and the next one.
Between(t, s) == s \in 0..Len(t) /\ (s > 0 => t[s] # Tilde)
Spelled1(t, s) ==
  IF t[s + 1] # Tilde THEN t[s + 1] ELSE IF At(t, s + 1) = Byte["0"] THEN Tilde ELSE Slash
Onward(t, s) == IF t[s + 1] # Tilde THEN s + 1 ELSE s + 2

LEMMA SpellsNext ==
  ASSUME NEW t \in Text, NEW u, Spells(u, t), NEW s, Between(t, s), s < Len(t),
         t[s + 1] = Tilde => At(t, s + 1) \in {Byte["0"], Byte["1"]}
  PROVE  /\ Onward(t, s) \in (s + 1)..Len(t) /\ Between(t, Onward(t, s))
         /\ u[Onward(t, s)] = Append(u[s], Spelled1(t, s))
         /\ Spelled1(t, s) \in 1..255
<1>1. Len(t) \in Nat /\ s \in 0..Len(t) /\ s + 1 \in 1..Len(t) /\ (s + 1) - 1 = s
      /\ \A k \in 1..Len(t) : t[k] \in 1..255
  BY LenProperties, ElementOfSeq DEF Between, Text
<1>2. Tilde \in 1..255 /\ Slash \in 1..255 /\ Byte["0"] # Tilde /\ Byte["1"] # Tilde /\ Byte["0"] # Byte["1"]
      /\ Byte["0"] # NUL /\ Byte["1"] # NUL
  BY Signs
<1>3. u[s + 1] = u[s] \o StandsFor(t, s + 1) /\ u[s] \in Text
  BY <1>1 DEF Spells
<1>4. CASE t[s + 1] # Tilde
  <2>1. StandsFor(t, s + 1) = <<t[s + 1]>>
    <3>1. s + 1 > 1 => t[(s + 1) - 1] # Tilde
      BY <1>1 DEF Between
    <3> QED BY <1>4, <3>1 DEF StandsFor
  <2>2. Onward(t, s) = s + 1 /\ Spelled1(t, s) = t[s + 1]
    BY <1>4 DEF Onward, Spelled1
  <2>3. u[s + 1] = Append(u[s], t[s + 1])
    BY <1>1, <1>3, <2>1, AppendIsConcat DEF Text
  <2> QED BY <1>1, <1>4, <2>2, <2>3 DEF Between
<1>5. CASE t[s + 1] = Tilde
  <2>1. s + 2 \in 1..Len(t) /\ t[s + 2] = At(t, s + 1) /\ (s + 2) - 1 = s + 1
    <3>1. At(t, s + 1) # NUL
      BY <1>2, <1>5
    <3>2. s + 1 < Len(t)
      BY <1>1, <3>1, TextAt
    <3>3. (s + 1) + 1 = s + 2
      BY <1>1
    <3> QED BY <1>1, <3>2, <3>3, TextAt
  <2>2. t[s + 2] \in {Byte["0"], Byte["1"]} /\ t[s + 2] # Tilde
    BY <1>2, <1>5, <2>1
  <2>3. StandsFor(t, s + 1) = <<>>
    BY <1>5 DEF StandsFor
  <2>4. u[s + 1] = u[s]
    BY <1>3, <2>3, ConcatEmptySeq DEF Text
  <2>5. StandsFor(t, s + 2) = <<Spelled1(t, s)>>
    <3>1. ~(s + 2 > 1 => t[(s + 2) - 1] # Tilde)
      BY <1>1, <1>5, <2>1
    <3> QED BY <1>5, <2>1, <2>2, <3>1 DEF StandsFor, Spelled1
  <2>6. u[s + 2] = u[s + 1] \o StandsFor(t, s + 2)
    BY <2>1 DEF Spells
  <2>7. Spelled1(t, s) \in 1..255
    BY <1>2, <1>5 DEF Spelled1
  <2>8. u[s + 2] = Append(u[s], Spelled1(t, s))
    BY <1>3, <2>4, <2>5, <2>6, <2>7, AppendIsConcat DEF Text
  <2>9. Onward(t, s) = s + 2
    BY <1>5 DEF Onward
  <2> QED BY <1>1, <2>1, <2>2, <2>7, <2>8, <2>9 DEF Between
<1> QED BY <1>4, <1>5

\* compare_pointers accepts a name exactly for the tokens that are its escaped
\* form.  What it has read of such a token is what the bytes of the name stand for.
LEMMA MatchIsRead ==
  ASSUME NEW name \in Text, NEW t \in Text, NEW u, Spells(u, t),
         NEW n \in 0..Len(name), Matched(name, t)[n] <= Len(t)
  PROVE  LET s == Matched(name, t)[n]
         IN /\ Between(t, s) /\ Len(u[s]) = n /\ \A k \in 1..n : u[s][k] = name[k]
            /\ \A j \in 1..s : t[j] = Tilde => At(t, j) \in {Byte["0"], Byte["1"]}
<1> DEFINE m == Matched(name, t)
           Reads(q) == LET s == m[q]
                       IN /\ Between(t, s) /\ Len(u[s]) = q /\ \A k \in 1..q : u[s][k] = name[k]
                          /\ \A j \in 1..s : t[j] = Tilde => At(t, j) \in {Byte["0"], Byte["1"]}
           Good == {q \in Nat : q <= Len(name) /\ m[q] <= Len(t) => Reads(q)}
<1>1. Len(name) \in Nat /\ Len(t) \in Nat
  BY LenProperties DEF Text
<1>2. m[0] = 0 /\ (\A q \in 0..Len(name) : m[q] \in Nat)
      /\ \A q \in 1..Len(name) : m[q] = MatchNext(name, t, q, m[q - 1])
  BY MatchedSteps
<1> HIDE DEF m
<1>3. 0 \in Good
  <2>1. Between(t, 0)
    BY <1>1 DEF Between
  <2>2. Len(u[0]) = 0
    BY EmptyText DEF Spells
  <2> QED BY <1>2, <2>1, <2>2
<1>4. ASSUME NEW q \in Nat, q \in Good PROVE q + 1 \in Good
  <2> SUFFICES ASSUME q + 1 <= Len(name), m[q + 1] <= Len(t) PROVE Reads(q + 1)
    OBVIOUS
  <2> DEFINE s == m[q]
  <2>1. q + 1 \in 1..Len(name) /\ (q + 1) - 1 = q /\ q \in 0..Len(name) /\ s \in Nat
    BY <1>1, <1>2
  <2>2. m[q + 1] = MatchNext(name, t, q + 1, s)
    BY <1>2, <2>1
  <2> DEFINE c == name[q + 1]
             e == At(t, s + 1)
  <2>3. \/ At(t, s) = Tilde /\ <<e, c>> \in Escape /\ m[q + 1] = s + 2
        \/ At(t, s) # Tilde /\ At(t, s) = c /\ m[q + 1] = s + 1
    <3>1. m[q + 1] # Len(t) + 1
      BY <1>1
    <3> QED BY <2>2, <3>1 DEF MatchNext
  <2>4. s <= Len(t) /\ s < Len(t)
    BY <1>1, <2>1, <2>3
  <2>5. Reads(q)
    BY <1>4, <2>1, <2>4
  <2>6. t[s + 1] = At(t, s)
    BY <2>1, <2>4, TextAt
  <2>7. /\ t[s + 1] = Tilde => e \in {Byte["0"], Byte["1"]}
        /\ m[q + 1] = Onward(t, s) /\ c = Spelled1(t, s)
    <3>1. CASE At(t, s) = Tilde /\ <<e, c>> \in Escape /\ m[q + 1] = s + 2
      <4>1. \/ e = Byte["0"] /\ c = Tilde
            \/ e = Byte["1"] /\ c = Slash
        BY <3>1 DEF Escape
      <4>2. Byte["0"] # Byte["1"]
        BY Signs
      <4> QED BY <2>6, <3>1, <4>1, <4>2 DEF Onward, Spelled1
    <3>2. CASE At(t, s) # Tilde /\ At(t, s) = c /\ m[q + 1] = s + 1
      BY <2>6, <3>2 DEF Onward, Spelled1
    <3> QED BY <2>3, <3>1, <3>2
  <2> HIDE DEF s, c, e
  <2>8. /\ Between(t, s) /\ Len(u[s]) = q /\ \A k \in 1..q : u[s][k] = name[k]
        /\ \A j \in 1..s : t[j] = Tilde => At(t, j) \in {Byte["0"], Byte["1"]}
    BY <2>5 DEF s
  <2> DEFINE o == Onward(t, s)
  <2>9. /\ o \in (s + 1)..Len(t) /\ Between(t, o) /\ u[o] = Append(u[s], c) /\ c \in 1..255
    <3>1. t[s + 1] = Tilde => At(t, s + 1) \in {Byte["0"], Byte["1"]}
      BY <2>7 DEF e
    <3> QED BY <2>4, <2>7, <2>8, <3>1, SpellsNext
  <2>10. u[s] \in Seq(1..255)
    BY <2>8 DEF Between, Spells, Text
  <2>11. Len(u[o]) = q + 1 /\ \A k \in 1..(q + 1) : u[o][k] = name[k]
    <3>1. /\ Len(u[o]) = q + 1 /\ (\A k \in 1..q : u[o][k] = u[s][k]) /\ u[o][q + 1] = c
      BY <2>8, <2>9, <2>10, AppendProperties
    <3>2. \A k \in 1..(q + 1) : k \in 1..q \/ k = q + 1
      OBVIOUS
    <3> QED BY <2>8, <3>1, <3>2 DEF c
  <2>12. ASSUME NEW j \in 1..o, t[j] = Tilde PROVE At(t, j) \in {Byte["0"], Byte["1"]}
    <3>1. s \in Nat /\ (o = s + 1 \/ o = s + 2)
      BY <2>1 DEF Onward, s
    <3>2. CASE j \in 1..s
      BY <2>8, <2>12, <3>2
    <3>3. CASE j = s + 1
      BY <2>7, <2>12, <3>3 DEF e
    <3>4. CASE j = s + 2 /\ o = s + 2
      BY <2>9, <2>12, <3>1, <3>4 DEF Between
    <3> QED BY <3>1, <3>2, <3>3, <3>4
  <2>13. m[q + 1] = o
    BY <2>7
  <2> QED BY <2>9, <2>11, <2>12, <2>13
<1>5. n \in Good
  <2>1. Nat \subseteq Good
    <3> HIDE DEF Good
    <3> QED BY <1>3, <1>4, Induction
  <2> QED BY <1>1, <2>1
<1> QED BY <1>1, <1>5 DEF m

LEMMA ReadIsMatch ==
  ASSUME NEW t \in Text, NEW u, Spells(u, t), WellEscaped(t), NEW name, name = u[Len(t)],
         NEW n \in 0..Len(name)
  PROVE  LET s == Matched(name, t)[n]
         IN Between(t, s) /\ Len(u[s]) = n
<1> DEFINE m == Matched(name, t)
           Reads(q) == Between(t, m[q]) /\ Len(u[m[q]]) = q
           Good == {q \in Nat : q <= Len(name) => Reads(q)}
<1>1. Len(name) \in Nat /\ Len(t) \in Nat /\ name \in Text /\ Len(t) \in 0..Len(t)
      /\ \A j \in 1..Len(t) : t[j] = Tilde => At(t, j) \in {Byte["0"], Byte["1"]}
  <2>1. Len(t) \in Nat /\ Len(t) \in 0..Len(t) /\ DOMAIN t = 1..Len(t)
    BY LenProperties DEF Text
  <2>2. name \in Text
    BY <2>1 DEF Spells
  <2> QED BY <2>1, <2>2, LenProperties DEF Text, WellEscaped
<1>2. m[0] = 0 /\ \A q \in 1..Len(name) : m[q] = MatchNext(name, t, q, m[q - 1])
  BY <1>1, MatchedSteps
<1> HIDE DEF m
<1>3. 0 \in Good
  <2>1. Between(t, 0)
    BY <1>1 DEF Between
  <2>2. Len(u[0]) = 0
    BY EmptyText DEF Spells
  <2> QED BY <1>2, <2>1, <2>2
<1>4. ASSUME NEW q \in Nat, q \in Good PROVE q + 1 \in Good
  <2> SUFFICES ASSUME q + 1 <= Len(name) PROVE Reads(q + 1)
    OBVIOUS
  <2> DEFINE s == m[q]
             o == Onward(t, s)
  <2>1. q + 1 \in 1..Len(name) /\ (q + 1) - 1 = q /\ q <= Len(name)
    BY <1>1
  <2>2. Between(t, s) /\ Len(u[s]) = q /\ s \in 0..Len(t)
    BY <1>4, <2>1 DEF Between
  <2>3. m[q + 1] = MatchNext(name, t, q + 1, s)
    BY <1>2, <2>1
  <2> HIDE DEF s
  <2>4. s < Len(t)
    <3>1. s # Len(t)
      BY <1>1, <2>1, <2>2
    <3> QED BY <1>1, <2>2, <3>1
  <2>5. t[s + 1] = Tilde => At(t, s + 1) \in {Byte["0"], Byte["1"]}
    <3>1. s + 1 \in 1..Len(t)
      BY <1>1, <2>2, <2>4
    <3> QED BY <1>1, <3>1
  <2>6. /\ o \in (s + 1)..Len(t) /\ Between(t, o) /\ u[o] = Append(u[s], Spelled1(t, s))
        /\ Spelled1(t, s) \in 1..255
    BY <2>2, <2>4, <2>5, SpellsNext
  <2>7. Len(u[o]) = q + 1 /\ u[o][q + 1] = Spelled1(t, s)
    <3>1. u[s] \in Seq(1..255)
      BY <2>2 DEF Spells, Text
    <3> QED BY <2>2, <2>6, <3>1, AppendProperties
  <2>8. name[q + 1] = Spelled1(t, s)
    <3>1. o \in 0..Len(t) /\ Len(t) \in o..Len(t)
      BY <1>1, <2>2, <2>6
    <3>2. Begins(u[o], name)
      BY <3>1, SpellsMore
    <3> QED BY <2>1, <2>7, <3>2 DEF Begins
  <2>9. t[s + 1] = At(t, s)
    BY <2>2, <2>4, TextAt
  <2>10. m[q + 1] = o
    <3>1. CASE t[s + 1] = Tilde
      <4>1. <<At(t, s + 1), name[q + 1]>> \in Escape
        BY <2>5, <2>8, <3>1 DEF Spelled1, Escape
      <4> QED BY <2>3, <2>9, <3>1, <4>1 DEF MatchNext, Onward
    <3>2. CASE t[s + 1] # Tilde
      <4>1. At(t, s) = name[q + 1]
        BY <2>8, <2>9, <3>2 DEF Spelled1
      <4> QED BY <2>3, <2>9, <3>2, <4>1 DEF MatchNext, Onward
    <3> QED BY <3>1, <3>2
  <2> QED BY <2>6, <2>7, <2>10
<1>5. n \in Good
  <2>1. Nat \subseteq Good
    <3> HIDE DEF Good
    <3> QED BY <1>3, <1>4, Induction
  <2> QED BY <1>1, <2>1
<1> QED BY <1>1, <1>5 DEF m

LEMMA ComparesUnescaped ==
  ASSUME NEW name \in Text, NEW t \in Text
  PROVE  ComparePointers(name, t) <=> WellEscaped(t) /\ name = Unescaped(t)
<1>1. PICK u : Spells(u, t)
  BY SpellsExists
<1>2. Len(name) \in Nat /\ Len(t) \in Nat /\ Len(name) \in 0..Len(name) /\ Len(t) \in 0..Len(t)
      /\ DOMAIN t = 1..Len(t)
  BY LenProperties DEF Text
<1>3. u[Len(t)] = Unescaped(t) /\ u[Len(t)] \in Text
  BY <1>1, <1>2 DEF Spells
<1>4. ASSUME ComparePointers(name, t) PROVE WellEscaped(t) /\ name = Unescaped(t)
  <2>1. Matched(name, t)[Len(name)] = Len(t)
    BY <1>4 DEF ComparePointers
  <2>2. /\ Len(u[Len(t)]) = Len(name) /\ \A k \in 1..Len(name) : u[Len(t)][k] = name[k]
        /\ \A j \in 1..Len(t) : t[j] = Tilde => At(t, j) \in {Byte["0"], Byte["1"]}
    <3>1. Matched(name, t)[Len(name)] <= Len(t)
      BY <1>2, <2>1
    <3> QED BY <1>1, <1>2, <2>1, <3>1, MatchIsRead
  <2>3. WellEscaped(t)
    BY <1>2, <2>2 DEF WellEscaped
  <2>4. name = u[Len(t)]
    BY <1>3, <2>2, SeqEqual DEF Text
  <2> QED BY <1>3, <2>3, <2>4
<1>5. ASSUME WellEscaped(t), name = Unescaped(t) PROVE ComparePointers(name, t)
  <2> DEFINE s == Matched(name, t)[Len(name)]
  <2>1. Between(t, s) /\ Len(u[s]) = Len(name)
    BY <1>1, <1>2, <1>3, <1>5, ReadIsMatch
  <2> HIDE DEF s
  <2>2. ASSUME s # Len(t) PROVE FALSE
    <3>0. s \in 0..Len(t)
      BY <2>1 DEF Between
    <3>1. s < Len(t) /\ s + 1 \in 1..Len(t) /\ s \in 0..Len(t)
      <4>1. Len(t) \in Nat
        BY <1>2
      <4> QED BY <2>2, <3>0, <4>1
    <3>2. t[s + 1] = Tilde => At(t, s + 1) \in {Byte["0"], Byte["1"]}
      BY <1>2, <1>5, <3>1 DEF WellEscaped
    <3> DEFINE o == Onward(t, s)
    <3>3. /\ o \in (s + 1)..Len(t) /\ u[o] = Append(u[s], Spelled1(t, s)) /\ Spelled1(t, s) \in 1..255
      BY <1>1, <2>1, <3>1, <3>2, SpellsNext
    <3> HIDE DEF o
    <3>4. Len(u[o]) = Len(name) + 1
      <4>1. u[s] \in Seq(1..255)
        BY <1>1, <3>1 DEF Spells, Text
      <4> QED BY <2>1, <3>3, <4>1, AppendProperties
    <3>5. o \in 0..Len(t) /\ Len(t) \in o..Len(t)
      BY <1>2, <3>1, <3>3
    <3>6. Begins(u[o], u[Len(t)])
      BY <1>1, <3>5, SpellsMore
    <3> QED BY <1>2, <1>3, <1>5, <3>4, <3>6 DEF Begins
  <2> QED BY <2>2 DEF ComparePointers, s
<1> QED BY <1>4, <1>5

\* Tokens that hold no tilde stand for themselves.
Untilded(t) == \A k \in 0..(Len(t) - 1) : At(t, k) # Tilde

LEMMA UntildedIs ==
  ASSUME NEW t \in Text, Tilde \notin ToSet(t)
  PROVE  Untilded(t)
<1>1. ASSUME NEW k \in 0..(Len(t) - 1) PROVE At(t, k) # Tilde
  <2>1. Len(t) \in Nat /\ k + 1 \in 1..Len(t) /\ k < Len(t)
    BY LenProperties DEF Text
  <2>2. t[k + 1] \in ToSet(t)
    BY <2>1 DEF ToSet, Text
  <2> QED BY <2>1, <2>2 DEF At
<1> QED BY <1>1 DEF Untilded

LEMMA UntildedStands ==
  ASSUME NEW t \in Text, Untilded(t)
  PROVE  WellEscaped(t) /\ Unescaped(t) = t
<1>1. Len(t) \in Nat /\ DOMAIN t = 1..Len(t)
  BY LenProperties DEF Text
<1>2. ASSUME NEW s \in 1..Len(t) PROVE t[s] # Tilde
  <2>1. s - 1 \in 0..(Len(t) - 1) /\ s - 1 \in Nat /\ s - 1 < Len(t) /\ (s - 1) + 1 = s
    BY <1>1
  <2> QED BY <2>1, TextAt DEF Untilded
<1>3. WellEscaped(t)
  BY <1>1, <1>2 DEF WellEscaped
<1>4. PICK u : Spells(u, t)
  BY SpellsExists
<1> DEFINE Good == {k \in Nat : k <= Len(t) => Len(u[k]) = k /\ \A j \in 1..k : u[k][j] = t[j]}
<1>5. 0 \in Good
  BY <1>4, EmptyText DEF Spells
<1>6. ASSUME NEW k \in Nat, k \in Good PROVE k + 1 \in Good
  <2> SUFFICES ASSUME k + 1 <= Len(t)
               PROVE  Len(u[k + 1]) = k + 1 /\ \A j \in 1..(k + 1) : u[k + 1][j] = t[j]
    OBVIOUS
  <2>1. k \in 0..Len(t) /\ k < Len(t) /\ k + 1 \in 1..Len(t) /\ k <= Len(t)
    BY <1>1
  <2>2. Between(t, k) /\ t[k + 1] # Tilde
    BY <1>2, <2>1 DEF Between
  <2>3. u[k + 1] = Append(u[k], t[k + 1]) /\ t[k + 1] \in 1..255
    BY <1>4, <2>1, <2>2, SpellsNext DEF Onward, Spelled1
  <2>4. u[k] \in Seq(1..255) /\ Len(u[k]) = k /\ \A j \in 1..k : u[k][j] = t[j]
    BY <1>4, <1>6, <2>1 DEF Spells, Text
  <2>5. \A j \in 1..(k + 1) : j \in 1..k \/ j = k + 1
    OBVIOUS
  <2> QED BY <2>3, <2>4, <2>5, AppendProperties
<1>7. Len(t) \in Good
  <2>1. Nat \subseteq Good
    <3> HIDE DEF Good
    <3> QED BY <1>5, <1>6, Induction
  <2> QED BY <1>1, <2>1
<1>8. u[Len(t)] = Unescaped(t) /\ u[Len(t)] \in Text
  <2>1. Len(t) \in 0..Len(t)
    BY <1>1
  <2> QED BY <1>4, <2>1 DEF Spells
<1>9. Unescaped(t) = t
  <2>1. Len(u[Len(t)]) = Len(t) /\ \A j \in 1..Len(t) : u[Len(t)][j] = t[j]
    BY <1>1, <1>7
  <2> QED BY <1>8, <2>1, SeqEqual DEF Text
<1> QED BY <1>3, <1>9

LEMMA ComparesNames ==
  ASSUME NEW name \in Text, NEW t \in Text, Untilded(t)
  PROVE  ComparePointers(name, t) <=> name = t
BY ComparesUnescaped, UntildedStands

\* What reading the byte at position s makes of what was done before.
Read(t, s, done) ==
  CASE done.at = "byte" /\ t[s] # Tilde -> [done EXCEPT !.d = @ + 1]
    [] done.at = "byte" /\ t[s] = Tilde -> [done EXCEPT !.at = "escape"]
    [] done.at = "escape" /\ t[s] = Byte["0"] ->
         [text |-> [done.text EXCEPT ![done.d + 1] = Tilde], d |-> done.d + 1, at |-> "byte"]
    [] done.at = "escape" /\ t[s] = Byte["1"] ->
         [text |-> [done.text EXCEPT ![done.d + 2] = Slash], d |-> done.d + 1, at |-> "byte"]
    [] OTHER -> [done EXCEPT !.at = "end"]

Untouched(t, s) == [text |-> t, d |-> s, at |-> "byte"]

\* f is the recursive function of Decoded.
Decodes(f, t) == f = [s \in 0..Len(t) |-> IF s = 0 THEN Untouched(t, 0) ELSE Read(t, s, f[s - 1])]

Reading(t) == [text : [1..Len(t) -> 1..255], d : Nat, at : {"byte", "escape", "end"}]

LEMMA ReadingNext ==
  ASSUME NEW t \in Text, NEW s \in 1..Len(t), NEW done \in Reading(t)
  PROVE  Read(t, s, done) \in Reading(t)
<1>1. Tilde \in 1..255 /\ Slash \in 1..255
  BY Signs
<1>2. [done.text EXCEPT ![done.d + 1] = Tilde] \in [1..Len(t) -> 1..255]
  BY <1>1 DEF Reading
<1>3. [done.text EXCEPT ![done.d + 2] = Slash] \in [1..Len(t) -> 1..255]
  BY <1>1 DEF Reading
<1>4. done.d + 1 \in Nat
  BY DEF Reading
<1> DEFINE e0 == [done.text EXCEPT ![done.d + 1] = Tilde]
           e1 == [done.text EXCEPT ![done.d + 2] = Slash]
<1>5. e0 \in [1..Len(t) -> 1..255] /\ e1 \in [1..Len(t) -> 1..255]
  BY <1>2, <1>3
<1>6. Read(t, s, done) =
        CASE done.at = "byte" /\ t[s] # Tilde -> [done EXCEPT !.d = @ + 1]
          [] done.at = "byte" /\ t[s] = Tilde -> [done EXCEPT !.at = "escape"]
          [] done.at = "escape" /\ t[s] = Byte["0"] -> [text |-> e0, d |-> done.d + 1, at |-> "byte"]
          [] done.at = "escape" /\ t[s] = Byte["1"] -> [text |-> e1, d |-> done.d + 1, at |-> "byte"]
          [] OTHER -> [done EXCEPT !.at = "end"]
  BY DEF Read
<1> HIDE DEF e0, e1
<1>7. /\ [done EXCEPT !.d = @ + 1] \in Reading(t) /\ [done EXCEPT !.at = "escape"] \in Reading(t)
      /\ [done EXCEPT !.at = "end"] \in Reading(t)
      /\ [text |-> e0, d |-> done.d + 1, at |-> "byte"] \in Reading(t)
      /\ [text |-> e1, d |-> done.d + 1, at |-> "byte"] \in Reading(t)
  BY <1>4, <1>5 DEF Reading
<1> QED BY <1>6, <1>7

LEMMA DecodedSteps ==
  ASSUME NEW t \in Text
  PROVE  /\ Decoded(t)[0] = Untouched(t, 0) /\ \A s \in 0..Len(t) : Decoded(t)[s] \in Reading(t)
         /\ \A s \in 1..Len(t) : Decoded(t)[s] = Read(t, s, Decoded(t)[s - 1])
<1> DEFINE m == Decoded(t)
<1>1. Len(t) \in Nat
  BY LenProperties DEF Text
<1>2. Untouched(t, 0) \in Reading(t)
  <2>1. t \in [1..Len(t) -> 1..255]
    BY LenProperties DEF Text
  <2> QED BY <2>1 DEF Untouched, Reading
<1>3. \E f : Decodes(f, t)
  <2> DEFINE F == [s \in 1..Len(t) |-> [done \in Reading(t) |-> Read(t, s, done)]]
  <2>1. F \in [1..Len(t) -> [Reading(t) -> Reading(t)]]
    BY ReadingNext
  <2>2. \A s \in 1..Len(t), done \in Reading(t) : F[s][done] = Read(t, s, done)
    OBVIOUS
  <2> HIDE DEF F
  <2>3. PICK f : Folds(f, Len(t), Reading(t), Untouched(t, 0), F)
    BY <1>1, <1>2, <2>1, FoldExists
  <2>4. ASSUME NEW s \in 0..Len(t)
        PROVE  f[s] = IF s = 0 THEN Untouched(t, 0) ELSE Read(t, s, f[s - 1])
    <3>1. CASE s # 0
      <4>1. s \in 1..Len(t) /\ s - 1 \in 0..Len(t)
        BY <1>1, <3>1
      <4>2. f[s] = F[s][f[s - 1]] /\ f[s - 1] \in Reading(t)
        BY <2>3, <4>1 DEF Folds
      <4> QED BY <2>2, <3>1, <4>1, <4>2
    <3> QED BY <2>3, <3>1 DEF Folds
  <2> QED BY <2>3, <2>4 DEF Decodes, Folds
<1>4. m = CHOOSE f : Decodes(f, t)
  BY DEF Decoded, Decodes, Read, Untouched
<1>5. Decodes(m, t)
  <2> HIDE DEF m
  <2> QED BY <1>3, <1>4
<1> HIDE DEF m
<1>6. m[0] = Untouched(t, 0) /\ \A s \in 1..Len(t) : m[s] = Read(t, s, m[s - 1])
  <2>1. \A s \in 0..Len(t) : m[s] = IF s = 0 THEN Untouched(t, 0) ELSE Read(t, s, m[s - 1])
    BY <1>5 DEF Decodes
  <2>2. 0 \in 0..Len(t) /\ \A s \in 1..Len(t) : s \in 0..Len(t) /\ s # 0
    BY <1>1
  <2> QED BY <2>1, <2>2
<1> DEFINE Good == {s \in Nat : s <= Len(t) => m[s] \in Reading(t)}
<1>7. 0 \in Good
  BY <1>2, <1>6
<1>8. ASSUME NEW s \in Nat, s \in Good PROVE s + 1 \in Good
  <2> SUFFICES ASSUME s + 1 <= Len(t) PROVE m[s + 1] \in Reading(t)
    OBVIOUS
  <2>1. s + 1 \in 1..Len(t) /\ (s + 1) - 1 = s /\ m[s] \in Reading(t)
    BY <1>1, <1>8
  <2> QED BY <1>6, <2>1, ReadingNext
<1>9. Nat \subseteq Good
  <2> HIDE DEF Good
  <2> QED BY <1>7, <1>8, Induction
<1>10. \A s \in 0..Len(t) : m[s] \in Reading(t)
  BY <1>1, <1>9
<1> QED BY <1>6, <1>10 DEF m

LEMMA UntouchedNext ==
  ASSUME NEW t \in Text, Untilded(t), NEW s \in 1..Len(t)
  PROVE  Read(t, s, Untouched(t, s - 1)) = Untouched(t, s)
<1>1. Len(t) \in Nat /\ s - 1 \in 0..(Len(t) - 1) /\ s - 1 \in Nat /\ s - 1 < Len(t) /\ (s - 1) + 1 = s
  BY LenProperties DEF Text
<1>2. t[s] # Tilde
  BY <1>1, TextAt DEF Untilded
<1> DEFINE done == Untouched(t, s - 1)
<1>3. done.at = "byte" /\ [done EXCEPT !.d = @ + 1] = Untouched(t, s)
  BY <1>1 DEF Untouched
<1> HIDE DEF done
<1>4. Read(t, s, done) = [done EXCEPT !.d = @ + 1]
  BY <1>2, <1>3 DEF Read
<1> QED BY <1>3, <1>4 DEF done

LEMMA DecodesItself ==
  ASSUME NEW t \in Text, Untilded(t)
  PROVE  DecodePointerInplace(t) = t
<1> DEFINE m == Decoded(t)
           Good == {s \in Nat : s <= Len(t) => m[s] = Untouched(t, s)}
<1>1. Len(t) \in Nat
  BY LenProperties DEF Text
<1>2. m[0] = Untouched(t, 0) /\ \A s \in 1..Len(t) : m[s] = Read(t, s, m[s - 1])
  BY DecodedSteps
<1> HIDE DEF m
<1>3. 0 \in Good
  BY <1>2
<1>4. ASSUME NEW s \in Nat, s \in Good PROVE s + 1 \in Good
  <2> SUFFICES ASSUME s + 1 <= Len(t) PROVE m[s + 1] = Untouched(t, s + 1)
    OBVIOUS
  <2>1. s + 1 \in 1..Len(t) /\ (s + 1) - 1 = s /\ s <= Len(t)
    BY <1>1
  <2>2. m[s + 1] = Read(t, s + 1, Untouched(t, (s + 1) - 1))
    BY <1>2, <1>4, <2>1
  <2> QED BY <2>1, <2>2, UntouchedNext
<1>5. Len(t) \in Good
  <2>1. Nat \subseteq Good
    <3> HIDE DEF Good
    <3> QED BY <1>3, <1>4, Induction
  <2> QED BY <1>1, <2>1
<1>6. m[Len(t)] = Untouched(t, Len(t))
  BY <1>1, <1>5
<1> QED BY <1>6, WholeIs DEF DecodePointerInplace, Untouched, m

Slashless(t) == \A k \in 0..(Len(t) - 1) : At(t, k) # Slash

\* Of a token that is decoded the first byte stays, and if that is no tilde, no
\* slash is written behind it.
Kept(t, s, done) ==
  /\ done.d <= s /\ done.text[1] = t[1]
  /\ done.at = "byte" => done.d >= 1
  /\ done.at = "escape" => t[1] = Tilde \/ done.d >= 1
  /\ t[1] # Tilde => done.d >= 1 /\ (Len(t) >= 2 => done.text[2] # Slash)
  /\ t[1] # Tilde /\ done.at = "byte" /\ (\E j \in 1..s : t[j] = Tilde) => done.d >= 2
  /\ t[1] # Tilde /\ done.at = "escape" => done.d >= 1

LEMMA KeptNext ==
  ASSUME NEW t \in Text, NEW s \in 1..Len(t), NEW done \in Reading(t), s > 1, Kept(t, s - 1, done)
  PROVE  Kept(t, s, Read(t, s, done))
<1> DEFINE new == Read(t, s, done)
<1>0. Len(t) \in Nat /\ Tilde # Slash /\ Byte["0"] # Tilde /\ Byte["1"] # Tilde /\ 1 \in 1..Len(t)
      /\ (Len(t) >= 2 => 2 \in 1..Len(t))
  BY LenProperties, Signs DEF Text
<1>1. done.d \in Nat /\ done.text \in [1..Len(t) -> 1..255] /\ DOMAIN done.text = 1..Len(t)
  BY DEF Reading
<1>2. \A j \in 1..s : j \in 1..(s - 1) \/ j = s
  OBVIOUS
<1>3. CASE done.at = "byte" /\ t[s] # Tilde
  <2>1. new.text = done.text /\ new.d = done.d + 1 /\ new.at = "byte"
    BY <1>3 DEF Read, Reading
  <2> HIDE DEF new
  <2>2. (\E j \in 1..s : t[j] = Tilde) => \E j \in 1..(s - 1) : t[j] = Tilde
    BY <1>2, <1>3
  <2>3. Kept(t, s, new)
    BY <1>1, <1>3, <2>1, <2>2 DEF Kept
  <2> QED BY <2>3 DEF new
<1>4. CASE done.at = "byte" /\ t[s] = Tilde
  <2>1. new.text = done.text /\ new.d = done.d /\ new.at = "escape"
    BY <1>4 DEF Read, Reading
  <2> HIDE DEF new
  <2>2. Kept(t, s, new)
    BY <1>1, <1>4, <2>1 DEF Kept
  <2> QED BY <2>2 DEF new
<1>5. CASE done.at = "escape" /\ t[s] = Byte["0"]
  <2>1. new.text = [done.text EXCEPT ![done.d + 1] = Tilde] /\ new.d = done.d + 1 /\ new.at = "byte"
    <3>1. /\ done.at # "byte" /\ done.at = "escape" /\ t[s] = Byte["0"]
          /\ Byte["0"] # Byte["1"] /\ Byte["0"] # Tilde
      BY <1>5, Signs
    <3>2. new = [text |-> [done.text EXCEPT ![done.d + 1] = Tilde], d |-> done.d + 1, at |-> "byte"]
      BY <3>1 DEF Read
    <3> QED BY <3>2
  <2> HIDE DEF new
  <2>2. new.text[1] = t[1]
    <3>1. done.d = 0 => t[1] = Tilde
      BY <1>1, <1>5 DEF Kept
    <3>2. new.text[1] = IF done.d + 1 = 1 THEN Tilde ELSE done.text[1]
      BY <1>0, <1>1, <2>1
    <3> QED BY <1>1, <3>1, <3>2 DEF Kept
  <2>3. t[1] # Tilde /\ Len(t) >= 2 => new.text[2] # Slash
    <3>1. Len(t) >= 2 => new.text[2] = IF done.d + 1 = 2 THEN Tilde ELSE done.text[2]
      BY <1>0, <1>1, <2>1
    <3> QED BY <1>0, <3>1 DEF Kept
  <2>4. t[1] # Tilde => done.d >= 1
    BY DEF Kept
  <2>5. Kept(t, s, new)
    BY <1>1, <2>1, <2>2, <2>3, <2>4 DEF Kept
  <2> QED BY <2>5 DEF new
<1>6. CASE done.at = "escape" /\ t[s] = Byte["1"]
  <2>1. new.text = [done.text EXCEPT ![done.d + 2] = Slash] /\ new.d = done.d + 1 /\ new.at = "byte"
    <3>1. /\ done.at # "byte" /\ done.at = "escape" /\ t[s] = Byte["1"]
          /\ Byte["0"] # Byte["1"] /\ Byte["1"] # Tilde
      BY <1>6, Signs
    <3>2. new = [text |-> [done.text EXCEPT ![done.d + 2] = Slash], d |-> done.d + 1, at |-> "byte"]
      BY <3>1 DEF Read
    <3> QED BY <3>2
  <2> HIDE DEF new
  <2>2. new.text[1] = t[1]
    <3>1. new.text[1] = done.text[1]
      BY <1>0, <1>1, <2>1
    <3> QED BY <3>1 DEF Kept
  <2>3. t[1] # Tilde /\ Len(t) >= 2 => new.text[2] # Slash
    <3>1. done.d >= 1 /\ Len(t) >= 2 => new.text[2] = done.text[2]
      BY <1>0, <1>1, <2>1
    <3> QED BY <1>0, <3>1 DEF Kept
  <2>4. t[1] # Tilde => done.d >= 1
    BY DEF Kept
  <2>5. Kept(t, s, new)
    BY <1>1, <2>1, <2>2, <2>3, <2>4 DEF Kept
  <2> QED BY <2>5 DEF new
<1>7. CASE \/ done.at \notin {"byte", "escape"}
           \/ done.at = "escape" /\ t[s] # Byte["0"] /\ t[s] # Byte["1"]
  <2>1. new.text = done.text /\ new.d = done.d /\ new.at = "end"
    BY <1>7 DEF Read, Reading
  <2> HIDE DEF new
  <2>2. Kept(t, s, new)
    BY <1>1, <2>1 DEF Kept
  <2> QED BY <2>2 DEF new
<1> QED BY <1>3, <1>4, <1>5, <1>6, <1>7

LEMMA DecodedKeeps ==
  ASSUME NEW t \in Text, Slashless(t), NEW s \in 1..Len(t)
  PROVE  Kept(t, s, Decoded(t)[s])
<1> DEFINE m == Decoded(t)
           Good == {k \in Nat : k + 1 <= Len(t) => Kept(t, k + 1, m[k + 1])}
<1>1. Len(t) \in Nat /\ 1 \in 1..Len(t)
  BY LenProperties DEF Text
<1>2. /\ m[0] = Untouched(t, 0) /\ \A k \in 0..Len(t) : m[k] \in Reading(t)
      /\ \A k \in 1..Len(t) : m[k] = Read(t, k, m[k - 1])
  BY DecodedSteps
<1> HIDE DEF m
<1>3. 0 \in Good
  <2> DEFINE done == Untouched(t, 0)
  <2>1. m[1] = Read(t, 1, done)
    <3>1. 1 - 1 = 0
      OBVIOUS
    <3> QED BY <1>1, <1>2, <3>1
  <2>2. done.text = t /\ done.d = 0 /\ done.at = "byte"
    BY DEF Untouched
  <2>3. Len(t) >= 2 => t[2] # Slash
    <3>1. ASSUME Len(t) >= 2 PROVE t[2] # Slash
      <4>1. 1 \in 0..(Len(t) - 1) /\ 1 < Len(t) /\ 1 + 1 = 2
        BY <1>1, <3>1
      <4> QED BY <4>1, TextAt DEF Slashless
    <3> QED BY <3>1
  <2>4. CASE t[1] = Tilde
    <3>1. m[1].text = t /\ m[1].d = 0 /\ m[1].at = "escape"
      BY <2>1, <2>2, <2>4 DEF Read, Untouched
    <3> QED BY <2>4, <3>1 DEF Kept
  <2>5. CASE t[1] # Tilde
    <3>1. m[1].text = t /\ m[1].d = 1 /\ m[1].at = "byte"
      BY <2>1, <2>2, <2>5 DEF Read, Untouched
    <3>2. \A j \in 1..1 : t[j] # Tilde
      BY <2>5
    <3> QED BY <2>3, <2>5, <3>1, <3>2 DEF Kept
  <2> QED BY <2>4, <2>5
<1>4. ASSUME NEW k \in Nat, k \in Good PROVE k + 1 \in Good
  <2> SUFFICES ASSUME (k + 1) + 1 <= Len(t) PROVE Kept(t, (k + 1) + 1, m[(k + 1) + 1])
    OBVIOUS
  <2> DEFINE q == (k + 1) + 1
  <2>1. q \in 1..Len(t) /\ q > 1 /\ q - 1 = k + 1 /\ k + 1 \in 0..Len(t)
    BY <1>1
  <2>2. Kept(t, q - 1, m[q - 1]) /\ m[q - 1] \in Reading(t) /\ m[q] = Read(t, q, m[q - 1])
    BY <1>1, <1>2, <1>4, <2>1
  <2> HIDE DEF q
  <2>3. Kept(t, q, m[q])
    BY <2>1, <2>2, KeptNext
  <2> QED BY <2>3 DEF q
<1>5. s - 1 \in Good /\ (s - 1) + 1 = s /\ s <= Len(t)
  <2>1. Nat \subseteq Good
    <3> HIDE DEF Good
    <3> QED BY <1>3, <1>4, Induction
  <2>2. s - 1 \in Nat /\ (s - 1) + 1 = s /\ s <= Len(t)
    BY <1>1
  <2> QED BY <2>1, <2>2
<1>6. Kept(t, s, m[s])
  BY <1>5
<1> QED BY <1>6 DEF m

LEMMA NoIndex ==
  ASSUME NEW t \in Text, Len(t) > 0, At(t, 0) \notin Byte["1"]..Byte["9"],
         At(t, 0) = Byte["0"] => Len(t) > 1
  PROVE  IndexOf(t) = -1
<1>1. Len(t) \in Nat /\ 1 \in DOMAIN t /\ t[1] = At(t, 0) /\ At(t, 0) \in 1..255 /\ 0 \in Nat
  BY LenProperties, TextAt DEF Text
<1>2. CASE At(t, 0) = Byte["0"]
  BY <1>2 DEF IndexOf
<1>3. CASE At(t, 0) # Byte["0"]
  <2>1. t[1] < Byte["0"] \/ t[1] > Byte["9"]
    <3> DEFINE c == t[1]
    <3>1. c \in 1..255 /\ c \notin 49..57 /\ c # 48
      BY <1>1, <1>3, Signs
    <3> HIDE DEF c
    <3>2. c < 48 \/ c > 57
      BY <3>1
    <3> QED BY <3>2, Signs DEF c
  <2> QED BY <1>1, <2>1 DEF IndexOf
<1> QED BY <1>2, <1>3

\* A token with a tilde in it that does not begin like an index is no index, and
\* is none when it has been decoded.
LEMMA DecodedToken ==
  ASSUME NEW t \in Text, Slashless(t), Len(t) > 0
  PROVE  /\ DecodePointerInplace(t) \in Text
         /\ Tilde \in ToSet(t) /\ At(t, 0) \notin Byte["1"]..Byte["9"] =>
              IndexOf(t) = -1 /\ IndexOf(TokenAt(DecodePointerInplace(t), 0)) = -1
<1> DEFINE all == Decoded(t)[Len(t)]
           child == DecodePointerInplace(t)
<1>1. Len(t) \in Nat /\ Len(t) \in 0..Len(t) /\ Len(t) \in 1..Len(t) /\ 1 \in 1..Len(t) /\ DOMAIN t = 1..Len(t)
  BY LenProperties DEF Text
<1>2. all \in Reading(t) /\ Kept(t, Len(t), all)
  BY <1>1, DecodedSteps, DecodedKeeps
<1>3. child = IF all.at = "byte" THEN Slice(all.text, 0, all.d) ELSE all.text
  BY DEF DecodePointerInplace
<1> HIDE DEF all, child
<1>4. all.text \in Text /\ Len(all.text) = Len(t) /\ all.d \in 0..Len(t) /\ all.d \in Nat
  <2>1. all.text \in [1..Len(t) -> 1..255]
    BY <1>2 DEF Reading
  <2>2. all.text \in Seq(1..255)
    <3>1. \E n \in Nat : all.text \in [1..n -> 1..255]
      BY <1>1, <2>1
    <3> QED BY <3>1, SeqDef
  <2>3. DOMAIN all.text = 1..Len(t)
    BY <2>1
  <2>4. Len(all.text) = Len(t)
    BY <1>1, <2>2, <2>3, LenProperties
  <2> QED BY <1>1, <1>2, <2>2, <2>4 DEF Reading, Kept, Text
<1>5. /\ child \in Text /\ Len(child) = IF all.at = "byte" THEN all.d ELSE Len(t)
      /\ \A k \in 0..(Len(child) - 1) : At(child, k) = At(all.text, k)
  <2>1. CASE all.at = "byte"
    <3>1. /\ Slice(all.text, 0, all.d) \in Text /\ Len(Slice(all.text, 0, all.d)) = all.d - 0
          /\ \A l \in 0..(all.d - 0 - 1) : At(Slice(all.text, 0, all.d), l) = At(all.text, 0 + l)
      <4>1. 0 \in Nat /\ all.d \in 0..Len(all.text) /\ all.text \in Text
        BY <1>4
      <4> QED BY <4>1, TextSlice
    <3> QED BY <1>3, <1>4, <2>1, <3>1
  <2>2. CASE all.at # "byte"
    BY <1>3, <1>4, <2>2
  <2> QED BY <2>1, <2>2
<1>6. ASSUME Tilde \in ToSet(t), At(t, 0) \notin Byte["1"]..Byte["9"]
      PROVE  IndexOf(t) = -1 /\ IndexOf(TokenAt(child, 0)) = -1
  <2>1. PICK j \in 1..Len(t) : t[j] = Tilde
    BY <1>1, <1>6 DEF ToSet
  <2>2. t[1] = At(t, 0) /\ t[1] = At(all.text, 0) /\ At(t, 0) # Slash
    <3>1. At(t, 0) = t[1] /\ At(all.text, 0) = all.text[1]
      BY <1>1, <1>4 DEF At
    <3>2. 0 \in 0..(Len(t) - 1)
      BY <1>1
    <3> QED BY <1>2, <3>1, <3>2 DEF Kept, Slashless
  <2>3. t[1] = Byte["0"] => t[1] # Tilde /\ Len(t) > 1
    <3>1. Byte["0"] # Tilde
      BY Signs
    <3> QED BY <1>1, <2>1, <3>1
  <2>4. IndexOf(t) = -1
    BY <1>6, <2>2, <2>3, NoIndex
  <2>5. Len(child) >= 1 /\ Len(child) \in Nat
    BY <1>1, <1>2, <1>4, <1>5 DEF Kept
  <2>6. t[1] = Byte["0"] => Len(child) >= 2 /\ At(child, 1) # Slash
    <3> SUFFICES ASSUME t[1] = Byte["0"] PROVE Len(child) >= 2 /\ At(child, 1) # Slash
      OBVIOUS
    <3>1. t[1] # Tilde /\ Len(t) >= 2
      BY <1>1, <2>3
    <3>2. Len(child) >= 2
      BY <1>2, <1>4, <1>5, <2>1, <3>1 DEF Kept
    <3>3. At(all.text, 1) = all.text[2]
      BY <1>4, <3>1 DEF At
    <3>4. 1 \in 0..(Len(child) - 1)
      BY <2>5, <3>2
    <3> QED BY <1>2, <1>5, <3>1, <3>2, <3>3, <3>4 DEF Kept
  <2> DEFINE e == IndexFrom(child, 0, {Slash})
  <2>7. /\ e \in 0..Len(child) /\ (e < Len(child) => At(child, e) = Slash)
    BY <1>5, <2>5, TextIndex
  <2>8. At(child, 0) = t[1]
    <3>1. 0 \in 0..(Len(child) - 1)
      BY <2>5
    <3> QED BY <1>5, <2>2, <3>1
  <2>9. TokenAt(child, 0) = Slice(child, 0, e)
    BY DEF TokenAt
  <2> HIDE DEF e
  <2>10. e >= 1 /\ (t[1] = Byte["0"] => e >= 2)
    <3>1. e # 0
      BY <2>2, <2>5, <2>7, <2>8
    <3>2. t[1] = Byte["0"] => e # 1
      BY <2>6, <2>7
    <3> QED BY <2>5, <2>7, <3>1, <3>2
  <2> DEFINE x == Slice(child, 0, e)
  <2>11. x \in Text /\ Len(x) = e /\ At(x, 0) = t[1]
    <3>1. e - 0 = e /\ 0 \in 0..(e - 0 - 1) /\ 0 + 0 = 0 /\ 0 \in Nat
      BY <2>7, <2>10
    <3>2. /\ x \in Text /\ Len(x) = e - 0
          /\ \A l \in 0..(e - 0 - 1) : At(x, l) = At(child, 0 + l)
      BY <1>5, <2>7, <3>1, TextSlice
    <3> QED BY <2>8, <3>1, <3>2
  <2> HIDE DEF x
  <2>12. IndexOf(x) = -1
    <3>1. Len(x) > 0 /\ (At(x, 0) = Byte["0"] => Len(x) > 1)
      BY <2>5, <2>7, <2>10, <2>11
    <3> QED BY <1>6, <2>2, <2>11, <3>1, NoIndex
  <2> QED BY <2>4, <2>9, <2>12 DEF x
<1> QED BY <1>5, <1>6 DEF child

(***************************************************************************)
(* What an index finds, and parts of parts.                                *)
(***************************************************************************)
LEMMA IndexIs ==
  ASSUME NEW t \in Text, NEW k \in Nat, NEW j \in k..Len(t), NEW B,
         j = Len(t) \/ At(t, j) \in B, \A l \in k..(j - 1) : At(t, l) \notin B
  PROVE  IndexFrom(t, k, B) = j
<1> DEFINE x == IndexFrom(t, k, B)
<1>1. Len(t) \in Nat /\ k <= Len(t) /\ j \in Nat /\ j <= Len(t)
  BY LenProperties DEF Text
<1>2. /\ x \in k..Len(t) /\ (x < Len(t) => At(t, x) \in B)
      /\ \A l \in k..(x - 1) : At(t, l) \notin B
  BY <1>1, TextIndex
<1> HIDE DEF x
<1>3. ~(x < j)
  <2> SUFFICES ASSUME x < j PROVE FALSE
    OBVIOUS
  <2>1. x \in k..(j - 1) /\ x < Len(t)
    BY <1>1, <1>2
  <2> QED BY <1>2, <2>1
<1>4. ~(j < x)
  <2> SUFFICES ASSUME j < x PROVE FALSE
    OBVIOUS
  <2>1. j \in k..(x - 1) /\ j # Len(t)
    BY <1>1, <1>2
  <2> QED BY <1>2, <2>1
<1>5. x = j
  BY <1>1, <1>2, <1>3, <1>4
<1> QED BY <1>5 DEF x

LEMMA SliceOfSlice ==
  ASSUME NEW t \in Text, NEW o \in Nat, NEW e \in o..Len(t),
         NEW k \in 0..(e - o), NEW j \in k..(e - o)
  PROVE  Slice(Slice(t, o, e), k, j) = Slice(t, o + k, o + j)
<1> DEFINE s == Slice(t, o, e)
<1>1. Len(t) \in Nat
  BY LenProperties DEF Text
<1>2. /\ s \in Text /\ Len(s) = e - o
      /\ \A l \in 0..(e - o - 1) : At(s, l) = At(t, o + l)
  BY TextSlice
<1> HIDE DEF s
<1>3. k \in Nat /\ j \in k..Len(s)
  BY <1>1, <1>2
<1>4. /\ Slice(s, k, j) \in Text /\ Len(Slice(s, k, j)) = j - k
      /\ \A l \in 0..(j - k - 1) : At(Slice(s, k, j), l) = At(s, k + l)
  BY <1>2, <1>3, TextSlice
<1>5. o + k \in Nat /\ o + j \in (o + k)..Len(t)
  BY <1>1
<1>6. /\ Slice(t, o + k, o + j) \in Text /\ Len(Slice(t, o + k, o + j)) = (o + j) - (o + k)
      /\ \A l \in 0..((o + j) - (o + k) - 1) : At(Slice(t, o + k, o + j), l) = At(t, (o + k) + l)
  BY <1>5, TextSlice
<1>7. (o + j) - (o + k) = j - k
  BY <1>1
<1>8. ASSUME NEW l \in 0..(j - k - 1) PROVE At(Slice(s, k, j), l) = At(Slice(t, o + k, o + j), l)
  <2>1. k + l \in 0..(e - o - 1) /\ o + (k + l) = (o + k) + l
    BY <1>1
  <2>2. At(s, k + l) = At(t, o + (k + l))
    BY <1>2, <2>1
  <2> QED BY <1>4, <1>6, <1>7, <2>1, <2>2
<1>9. Slice(s, k, j) = Slice(t, o + k, o + j)
  BY <1>4, <1>6, <1>7, <1>8, TextsEqual
<1> QED BY <1>9 DEF s

(***************************************************************************)
(* Following.  A trail of a pointer has, for every index at which the text *)
(* that is left can begin, where the lookup is by then.                    *)
(***************************************************************************)
Chosen(d, a, tok) ==
  CASE d[a].t = "array"  -> Element(d, a, IndexOf(tok))
    [] d[a].t = "object" -> ChildWith(d, a, [k \in 1..Size(d, a) |->
                                               ComparePointers(d[Append(a, k)].name, tok)])
    [] OTHER             -> {}

Walk(d, S, tok) == UNION {Chosen(d, a, tok) : a \in S}

\* A token begins with the slash at an edge, and ends at the edge after.
Edge(t, o)  == o \in 0..Len(t) /\ (o = Len(t) \/ At(t, o) = Slash)
After(t, b) == IndexFrom(t, b + 1, {Slash})

Trail(d, t, W, o) ==
  /\ W \in [0..Len(t) -> SUBSET DOMAIN d]
  /\ W[0] = {Root}
  /\ \A b \in 0..(o - 1) : At(t, b) = Slash => W[After(t, b)] = Walk(d, W[b], TokenAt(t, b + 1))
  /\ \A b, c \in 0..Len(t) : b <= c /\ W[b] = {} => W[c] = {}

LEMMA AfterIs ==
  ASSUME NEW t \in Text, NEW b \in 0..(Len(t) - 1)
  PROVE  /\ After(t, b) \in (b + 1)..Len(t) /\ Edge(t, After(t, b))
         /\ \A c \in (b + 1)..(After(t, b) - 1) : At(t, c) # Slash
         /\ \A o : Edge(t, o) /\ b < o => After(t, b) <= o
         /\ TokenAt(t, b + 1) = Slice(t, b + 1, After(t, b))
<1>1. Len(t) \in Nat /\ b + 1 \in Nat /\ b + 1 <= Len(t)
  BY LenProperties DEF Text
<1>2. /\ After(t, b) \in (b + 1)..Len(t)
      /\ After(t, b) < Len(t) => At(t, After(t, b)) = Slash
      /\ \A c \in (b + 1)..(After(t, b) - 1) : At(t, c) # Slash
  BY <1>1, TextIndex DEF After
<1>3. Edge(t, After(t, b))
  BY <1>1, <1>2 DEF Edge
<1>4. ASSUME NEW o, Edge(t, o), b < o PROVE After(t, b) <= o
  <2> SUFFICES ASSUME ~(After(t, b) <= o) PROVE FALSE
    OBVIOUS
  <2>1. o \in (b + 1)..(After(t, b) - 1) /\ o # Len(t)
    BY <1>1, <1>2, <1>4 DEF Edge
  <2> QED BY <1>2, <1>4, <2>1 DEF Edge
<1> QED BY <1>2, <1>3, <1>4 DEF TokenAt, After

\* The token at hand, when what is left is the part of the pointer from o to e.
LEMMA TokenIs ==
  ASSUME NEW t \in Text, NEW o \in Nat, NEW e, Edge(t, e), o < e, At(t, o) = Slash
  PROVE  LET s == Slice(t, o, e)
         IN /\ TokenAt(s, 1) = TokenAt(t, o + 1)
            /\ From(s, IndexFrom(s, 1, {Slash})) = Slice(t, After(t, o), e)
            /\ After(t, o) \in (o + 1)..e
<1> DEFINE s == Slice(t, o, e)
<1>1. Len(t) \in Nat /\ e \in Nat /\ e <= Len(t) /\ o \in 0..(Len(t) - 1) /\ e \in o..Len(t)
  BY LenProperties DEF Text, Edge
<1>2. /\ s \in Text /\ Len(s) = e - o
      /\ \A l \in 0..(e - o - 1) : At(s, l) = At(t, o + l)
  BY <1>1, TextSlice
<1>s. s = Slice(t, o, e)
  OBVIOUS
<1> HIDE DEF s
<1> DEFINE n == After(t, o)
<1>3. /\ n \in (o + 1)..Len(t) /\ Edge(t, n) /\ n <= e
      /\ \A c \in (o + 1)..(n - 1) : At(t, c) # Slash
      /\ TokenAt(t, o + 1) = Slice(t, o + 1, n)
  BY <1>1, AfterIs
<1> HIDE DEF n
<1>4. IndexFrom(s, 1, {Slash}) = n - o
  <2>1. n - o \in 1..Len(s)
    BY <1>1, <1>2, <1>3
  <2>2. n - o = Len(s) \/ At(s, n - o) \in {Slash}
    <3>1. CASE n = e
      BY <1>2, <3>1
    <3>2. CASE n # e
      <4>1. n - o \in 0..(e - o - 1) /\ o + (n - o) = n /\ n # Len(t)
        BY <1>1, <1>3, <3>2
      <4>2. At(t, n) = Slash
        BY <1>3, <4>1 DEF Edge
      <4>3. At(s, n - o) = At(t, n)
        BY <1>2, <4>1
      <4> QED BY <4>2, <4>3
    <3> QED BY <3>1, <3>2
  <2>3. ASSUME NEW l \in 1..((n - o) - 1) PROVE At(s, l) \notin {Slash}
    <3>1. l \in 0..(e - o - 1) /\ o + l \in (o + 1)..(n - 1)
      BY <1>1, <1>3
    <3> QED BY <1>2, <1>3, <3>1
  <2> QED BY <1>2, <2>1, <2>2, <2>3, IndexIs
<1>5. TokenAt(s, 1) = Slice(t, o + 1, n)
  <2>1. 1 \in 0..(e - o) /\ n - o \in 1..(e - o) /\ o + (n - o) = n
    BY <1>1, <1>3
  <2>2. Slice(s, 1, n - o) = Slice(t, o + 1, o + (n - o))
    BY <1>1, <1>s, <2>1, SliceOfSlice
  <2> QED BY <1>4, <2>1, <2>2 DEF TokenAt
<1>6. From(s, n - o) = Slice(t, n, e)
  <2>1. n - o \in 0..(e - o) /\ e - o \in (n - o)..(e - o) /\ o + (n - o) = n /\ o + (e - o) = e
    BY <1>1, <1>3
  <2>2. Slice(s, n - o, e - o) = Slice(t, o + (n - o), o + (e - o))
    BY <1>1, <1>s, <2>1, SliceOfSlice
  <2> QED BY <1>2, <2>1, <2>2 DEF From, Slice
<1>7. n \in (o + 1)..e
  BY <1>1, <1>3
<1> QED BY <1>3, <1>4, <1>5, <1>6, <1>7 DEF n, s

\* One token is followed.
LEMMA FollowsToken ==
  ASSUME TypeInv, FollowElement \/ FollowMember \/ FollowScalar,
         NEW o \in Nat, NEW e, Edge(pointer, o), Edge(pointer, e), o <= e,
         rest = Slice(pointer, o, e)
  PROVE  /\ o < e /\ At(pointer, o) = Slash
         /\ After(pointer, o) \in (o + 1)..e
         /\ rest' = Slice(pointer, After(pointer, o), e)
         /\ at' = Walk(call.doc, at, TokenAt(pointer, o + 1))
         /\ at # {}
         /\ UNCHANGED <<call, pointer, found, taken, mode>>
<1>1. HasToken
  BY DEF FollowElement, FollowMember, FollowScalar
<1>2. Asked /\ WellFormed(call.doc) /\ Here \in DOMAIN call.doc /\ at = {Here}
  BY <1>1, HereIs
<1>3. pointer \in Text /\ Len(pointer) \in Nat /\ e \in o..Len(pointer) /\ e \in Nat
  BY <1>2, AskedIs DEF Asked, Edge
<1>4. /\ rest \in Text /\ Len(rest) = e - o
      /\ \A l \in 0..(e - o - 1) : At(rest, l) = At(pointer, o + l)
  BY <1>3, TextSlice
<1>5. o < e
  <2>1. At(rest, 0) # NUL
    BY <1>1, Signs DEF HasToken
  <2>2. 0 < Len(rest)
    BY <1>4, <2>1, TextAt
  <2> QED BY <1>3, <1>4, <2>2
<1>6. At(pointer, o) = Slash
  <2>1. 0 \in 0..(e - o - 1) /\ o + 0 = o
    BY <1>3, <1>5
  <2>2. At(rest, 0) = At(pointer, o)
    BY <1>4, <2>1
  <2> QED BY <1>1, <2>2 DEF HasToken
<1>7. /\ Token = TokenAt(pointer, o + 1)
      /\ From(rest, IndexFrom(rest, 1, {Slash})) = Slice(pointer, After(pointer, o), e)
      /\ After(pointer, o) \in (o + 1)..e
  <2>1. /\ TokenAt(rest, 1) = TokenAt(pointer, o + 1)
        /\ From(rest, IndexFrom(rest, 1, {Slash})) = Slice(pointer, After(pointer, o), e)
        /\ After(pointer, o) \in (o + 1)..e
    BY <1>3, <1>5, <1>6, TokenIs
  <2> QED BY <2>1 DEF Token
<1>8. at' = Chosen(call.doc, Here, Token) /\ rest' = From(rest, IndexFrom(rest, 1, {Slash}))
      /\ UNCHANGED <<call, pointer, found, taken, mode>>
  BY DEF FollowElement, FollowMember, FollowScalar, Step, Chosen, Type, Container
<1>9. Walk(call.doc, at, Token) = Chosen(call.doc, Here, Token)
  BY <1>2 DEF Walk
<1> QED BY <1>2, <1>5, <1>6, <1>7, <1>8, <1>9

\* A lookup that has no token left is at the end, or nowhere.
LEMMA FollowEnds ==
  ASSUME Asked, Following, ~HasToken, NEW o \in Nat, NEW e, Edge(pointer, o), Edge(pointer, e),
         o <= e, rest = Slice(pointer, o, e), At(pointer, 0) = Slash
  PROVE  at = {} \/ o = e
<1> SUFFICES ASSUME at # {}, o # e PROVE FALSE
  OBVIOUS
<1>1. pointer \in Text /\ Len(pointer) \in Nat /\ e \in o..Len(pointer) /\ e \in Nat /\ o < e
  BY AskedIs DEF Asked, Edge
<1>2. /\ rest \in Text /\ Len(rest) = e - o
      /\ \A l \in 0..(e - o - 1) : At(rest, l) = At(pointer, o + l)
  BY <1>1, TextSlice
<1>3. At(pointer, o) = Slash
  BY <1>1 DEF Edge
<1>4. 0 \in 0..(e - o - 1) /\ o + 0 = o
  BY <1>1
<1>5. At(rest, 0) = Slash
  BY <1>2, <1>3, <1>4
<1> QED BY <1>5 DEF HasToken

(***************************************************************************)
(* The command's lookup makes a trail, and the patch's lookup keeps to it. *)
(***************************************************************************)
Places == [0..Len(pointer) -> SUBSET DOMAIN call.doc]

FindInv ==
  \E W \in Places, o \in 0..Len(pointer) :
    /\ Trail(call.doc, pointer, W, o) /\ Edge(pointer, o)
    /\ rest = Slice(pointer, o, Len(pointer)) /\ at = W[o]

FoundInv ==
  \E W \in Places : Trail(call.doc, pointer, W, Len(pointer)) /\ found = W[Len(pointer)]

HoldInv ==
  /\ LastSlash # 0
  /\ \E W \in Places, o \in 0..(LastSlash - 1) :
       /\ Trail(call.doc, pointer, W, Len(pointer)) /\ Edge(pointer, o)
       /\ rest = Slice(pointer, o, LastSlash - 1) /\ at = W[o]
       /\ found = W[Len(pointer)]

TakenInv ==
  /\ LastSlash # 0
  /\ \E W \in Places :
       /\ Trail(call.doc, pointer, W, Len(pointer))
       /\ at = W[LastSlash - 1] /\ found = W[Len(pointer)]
  /\ taken = UNION {Detached(call.doc, a, DecodePointerInplace(From(pointer, LastSlash))) : a \in at}

LookupInv ==
  /\ mode = "convert" /\ IsRootSign => pointer = <<>>
  /\ At(pointer, 0) = Slash =>
       /\ mode = "find"  => FindInv
       /\ mode = "found" => FoundInv
       /\ mode = "hold"  => HoldInv
       /\ mode = "taken" => TakenInv

LEMMA LastSlashSame == ASSUME pointer' = pointer PROVE LastSlash' = LastSlash
BY DEF LastSlash, SelectLastInSeq

\* A lookup that starts at the root.
LEMMA StartsTrail ==
  ASSUME Asked', mode' = "find", rest' = pointer', at' = {Root}
  PROVE  LookupInv'
<1> SUFFICES ASSUME (At(pointer, 0) = Slash)' PROVE FindInv'
  BY DEF LookupInv
<1>1. call' \in Calls /\ pointer' \in Text /\ Len(pointer') \in Nat /\ Root \in DOMAIN call'.doc
  BY CallIs, LenProperties DEF Asked, Text
<1> DEFINE W == [b \in 0..Len(pointer') |-> {Root}]
<1>2. W \in Places' /\ W[0] = {Root} /\ \A b \in 0..Len(pointer') : W[b] # {}
  BY <1>1 DEF Places
<1>3. Trail(call'.doc, pointer', W, 0)
  <2> HIDE DEF W
  <2> QED BY <1>2 DEF Trail, Places
<1>4. Edge(pointer', 0)
  BY <1>1 DEF Edge
<1>5. rest' = Slice(pointer', 0, Len(pointer'))
  BY <1>1, WholeIs
<1> HIDE DEF W
<1> QED BY <1>1, <1>2, <1>3, <1>4, <1>5 DEF FindInv

\* A trail with its part behind o replaced by S.
Extended(t, W, o, S) == [b \in 0..Len(t) |-> IF b <= o THEN W[b] ELSE S]

LEMMA ExtendsTrail ==
  ASSUME NEW t \in Text, NEW d, NEW W, NEW o \in 0..Len(t), Edge(t, o), Trail(d, t, W, o),
         NEW S \in SUBSET DOMAIN d, W[o] = {} => S = {},
         NEW n \in o..Len(t),
         IF W[o] = {} THEN TRUE ELSE o < n => n = After(t, o) /\ S = Walk(d, W[o], TokenAt(t, o + 1))
  PROVE  /\ Trail(d, t, Extended(t, W, o, S), n)
         /\ Extended(t, W, o, S) \in [0..Len(t) -> SUBSET DOMAIN d]
         /\ o < n => Extended(t, W, o, S)[n] = S
<1> DEFINE V == Extended(t, W, o, S)
<1>1. Len(t) \in Nat
  BY LenProperties DEF Text
<1>2. \A b \in 0..Len(t) : V[b] = IF b <= o THEN W[b] ELSE S
  BY DEF Extended
<1>3. V \in [0..Len(t) -> SUBSET DOMAIN d]
  <2>1. \A b \in 0..Len(t) : V[b] \in SUBSET DOMAIN d
    BY <1>2 DEF Trail
  <2>2. V = [b \in 0..Len(t) |-> V[b]]
    BY DEF Extended
  <2> HIDE DEF V
  <2> QED BY <2>1, <2>2
<1> HIDE DEF V
<1>4. V[0] = {Root}
  BY <1>1, <1>2 DEF Trail
<1>5. ASSUME NEW b \in 0..(n - 1), At(t, b) = Slash
      PROVE  V[After(t, b)] = Walk(d, V[b], TokenAt(t, b + 1))
  <2>1. b \in 0..(Len(t) - 1) /\ b \in 0..Len(t) /\ b < n
    BY <1>1
  <2>2. /\ After(t, b) \in (b + 1)..Len(t) /\ After(t, b) \in 0..Len(t)
        /\ b < o => After(t, b) <= o
        /\ \A c \in (b + 1)..(After(t, b) - 1) : At(t, c) # Slash
    BY <1>1, <2>1, AfterIs
  <2>3. CASE b < o
    <3>1. b \in 0..(o - 1) /\ b <= o
      BY <1>1, <2>1, <2>3
    <3>2. W[After(t, b)] = Walk(d, W[b], TokenAt(t, b + 1))
      BY <1>5, <3>1 DEF Trail
    <3> QED BY <1>2, <2>1, <2>2, <2>3, <3>1, <3>2
  <2>4. CASE b >= o /\ W[o] = {}
    <3>1. V[b] = {} /\ V[After(t, b)] = {}
      <4>1. o \in 0..Len(t) /\ ~(After(t, b) <= o)
        BY <1>1, <2>1, <2>2, <2>4
      <4>2. V[b] = {}
        BY <1>2, <2>1, <2>4
      <4> QED BY <1>2, <2>2, <2>4, <4>1, <4>2
    <3> QED BY <3>1 DEF Walk
  <2>5. CASE b >= o /\ W[o] # {}
    <3>1. n = After(t, o) /\ S = Walk(d, W[o], TokenAt(t, o + 1))
      BY <1>1, <2>1, <2>5
    <3>2. b = o
      <4> SUFFICES ASSUME b > o PROVE FALSE
        BY <2>1, <2>5
      <4>1. o \in 0..(Len(t) - 1)
        BY <1>1, <2>1
      <4>2. \A c \in (o + 1)..(After(t, o) - 1) : At(t, c) # Slash
        BY <4>1, AfterIs
      <4>3. b \in (o + 1)..(After(t, o) - 1)
        BY <2>1, <3>1
      <4> QED BY <1>5, <4>2, <4>3
    <3>3. V[After(t, b)] = S /\ V[b] = W[o]
      <4>1. ~(After(t, b) <= o)
        BY <1>1, <2>1, <2>2, <3>2
      <4> QED BY <1>2, <2>1, <2>2, <3>2, <4>1
    <3> QED BY <3>1, <3>2, <3>3
  <2> QED BY <1>1, <2>1, <2>3, <2>4, <2>5
<1>6. ASSUME NEW b \in 0..Len(t), NEW c \in 0..Len(t), b <= c, V[b] = {} PROVE V[c] = {}
  <2>1. CASE c <= o
    <3>1. b <= o
      BY <1>1, <1>6, <2>1
    <3> QED BY <1>2, <1>6, <2>1, <3>1 DEF Trail
  <2>2. CASE ~(c <= o)
    <3>1. V[c] = S
      BY <1>2, <2>2
    <3>2. CASE b <= o
      <4>1. W[b] = {}
        BY <1>2, <1>6, <3>2
      <4>2. W[o] = {}
        BY <3>2, <4>1 DEF Trail
      <4> QED BY <3>1, <4>2
    <3>3. CASE ~(b <= o)
      BY <1>2, <1>6, <3>1, <3>3
    <3> QED BY <3>2, <3>3
  <2> QED BY <2>1, <2>2
<1>7. o < n => V[n] = S
  BY <1>1, <1>2
<1>8. Trail(d, t, V, n)
  BY <1>3, <1>4, <1>5, <1>6 DEF Trail
<1> QED BY <1>3, <1>7, <1>8 DEF V

LEMMA FindFollows ==
  ASSUME TypeInv, TypeInv', FindInv, mode = "find", FollowElement \/ FollowMember \/ FollowScalar
  PROVE  FindInv'
<1>1. Asked /\ Asked' /\ pointer \in Text /\ Len(pointer) \in Nat
  BY AskedIs DEF TypeInv, Asked, FollowElement, FollowMember, FollowScalar, Step
<1>2. PICK W \in Places, o \in 0..Len(pointer) :
        /\ Trail(call.doc, pointer, W, o) /\ Edge(pointer, o)
        /\ rest = Slice(pointer, o, Len(pointer)) /\ at = W[o]
  BY DEF FindInv
<1> DEFINE n == After(pointer, o)
           S == Walk(call.doc, at, TokenAt(pointer, o + 1))
<1>3. o \in Nat /\ Edge(pointer, Len(pointer)) /\ o <= Len(pointer)
  BY <1>1 DEF Edge
<1>4. /\ o < Len(pointer) /\ n \in (o + 1)..Len(pointer) /\ at # {}
      /\ rest' = Slice(pointer, n, Len(pointer)) /\ at' = S
      /\ UNCHANGED <<call, pointer, found, taken, mode>>
  BY <1>2, <1>3, FollowsToken
<1>5. Edge(pointer, n)
  BY <1>1, <1>4, AfterIs
<1>6. S \in SUBSET DOMAIN call.doc
  BY <1>1, <1>4 DEF Asked, One
<1> HIDE DEF n, S
<1>7. n \in o..Len(pointer) /\ n \in 0..Len(pointer) /\ o < n
  BY <1>3, <1>4
<1> DEFINE V == Extended(pointer, W, o, S)
<1>8. Trail(call.doc, pointer, V, n) /\ V \in Places /\ V[n] = S
  BY <1>1, <1>2, <1>4, <1>6, <1>7, ExtendsTrail DEF n, S, Places
<1> HIDE DEF V
<1>9. call' = call /\ pointer' = pointer /\ Places' = Places
  BY <1>4 DEF Places
<1> QED BY <1>4, <1>5, <1>7, <1>8, <1>9 DEF FindInv

LEMMA FindEnds ==
  ASSUME TypeInv, FindInv, Find, At(pointer, 0) = Slash
  PROVE  FoundInv'
<1>1. Asked /\ pointer \in Text /\ Len(pointer) \in Nat /\ Following /\ ~HasToken
  BY AskedIs DEF TypeInv, Asked, Find, Following
<1>2. PICK W \in Places, o \in 0..Len(pointer) :
        /\ Trail(call.doc, pointer, W, o) /\ Edge(pointer, o)
        /\ rest = Slice(pointer, o, Len(pointer)) /\ at = W[o]
  BY DEF FindInv
<1>3. o \in Nat /\ Edge(pointer, Len(pointer)) /\ o <= Len(pointer)
  BY <1>1 DEF Edge
<1>4. at = {} \/ o = Len(pointer)
  BY <1>1, <1>2, <1>3, FollowEnds
<1>5. found' = at /\ call' = call /\ pointer' = pointer /\ Places' = Places
  BY DEF Find, Places
<1>6. CASE o = Len(pointer)
  BY <1>2, <1>5, <1>6 DEF FoundInv
<1>7. CASE at = {} /\ o # Len(pointer)
  <2> DEFINE V == Extended(pointer, W, o, {})
  <2>1. Len(pointer) \in o..Len(pointer) /\ o < Len(pointer)
    BY <1>1, <1>3, <1>7
  <2>2. Trail(call.doc, pointer, V, Len(pointer)) /\ V \in Places /\ V[Len(pointer)] = {}
    <3>1. W[o] = {} /\ {} \in SUBSET DOMAIN call.doc
      BY <1>2, <1>7
    <3> QED BY <1>1, <1>2, <2>1, <3>1, ExtendsTrail DEF Places
  <2> HIDE DEF V
  <2> QED BY <1>5, <1>7, <2>2 DEF FoundInv
<1> QED BY <1>4, <1>6, <1>7

LEMMA SplitsTrail ==
  ASSUME TypeInv, FoundInv, SplitPointer, At(pointer, 0) = Slash
  PROVE  HoldInv'
<1>1. Asked /\ pointer \in Text /\ Len(pointer) \in Nat
  BY AskedIs DEF TypeInv, Asked, SplitPointer
<1>2. PICK W \in Places : Trail(call.doc, pointer, W, Len(pointer)) /\ found = W[Len(pointer)]
  BY DEF FoundInv
<1>3. LastSlash \in 0..Len(pointer) /\ LastSlash # 0
  BY <1>1, LastSlashIs DEF SplitPointer
<1>4. Edge(pointer, 0) /\ 0 \in 0..(LastSlash - 1)
  BY <1>1, <1>3 DEF Edge
<1>5. /\ rest' = Slice(pointer, 0, LastSlash - 1) /\ at' = {Root}
      /\ UNCHANGED <<call, pointer, found>>
  BY DEF SplitPointer, Follow
<1>6. Places' = Places /\ LastSlash' = LastSlash
  BY <1>5, LastSlashSame DEF Places
<1>7. at' = W[0]
  BY <1>2, <1>5 DEF Trail
<1> QED BY <1>2, <1>3, <1>4, <1>5, <1>6, <1>7 DEF HoldInv

LEMMA HoldFollows ==
  ASSUME TypeInv, HoldInv, mode = "hold", FollowElement \/ FollowMember \/ FollowScalar
  PROVE  HoldInv'
<1>1. Asked /\ pointer \in Text /\ Len(pointer) \in Nat
  BY AskedIs DEF TypeInv, Asked
<1>2. PICK W \in Places, o \in 0..(LastSlash - 1) :
       /\ Trail(call.doc, pointer, W, Len(pointer)) /\ Edge(pointer, o)
       /\ rest = Slice(pointer, o, LastSlash - 1) /\ at = W[o]
       /\ found = W[Len(pointer)]
  BY DEF HoldInv
<1> DEFINE e == LastSlash - 1
           n == After(pointer, o)
<1>3. LastSlash \in 1..Len(pointer) /\ At(pointer, e) = Slash
  BY <1>1, LastSlashIs DEF HoldInv
<1>4. o \in Nat /\ Edge(pointer, e) /\ o <= e /\ e \in 0..(Len(pointer) - 1)
  BY <1>1, <1>3 DEF Edge
<1> HIDE DEF e
<1>5. /\ o < e /\ At(pointer, o) = Slash /\ n \in (o + 1)..e
      /\ rest' = Slice(pointer, n, e) /\ at' = Walk(call.doc, at, TokenAt(pointer, o + 1))
      /\ UNCHANGED <<call, pointer, found, taken, mode>>
  BY <1>2, <1>4, FollowsToken DEF e
<1>6. o \in 0..(Len(pointer) - 1)
  BY <1>1, <1>4, <1>5
<1>7. Edge(pointer, n) /\ W[n] = Walk(call.doc, W[o], TokenAt(pointer, o + 1))
  BY <1>1, <1>2, <1>5, <1>6, AfterIs DEF Trail
<1> HIDE DEF n
<1>8. n \in 0..e
  BY <1>4, <1>5
<1>9. call' = call /\ pointer' = pointer /\ found' = found /\ Places' = Places
      /\ LastSlash' = LastSlash
  BY <1>5, LastSlashSame DEF Places
<1>10. HoldInv <=> /\ LastSlash # 0
                   /\ \E U \in Places, u \in 0..(LastSlash - 1) :
                        /\ Trail(call.doc, pointer, U, Len(pointer)) /\ Edge(pointer, u)
                        /\ rest = Slice(pointer, u, LastSlash - 1) /\ at = U[u]
                        /\ found = U[Len(pointer)]
  BY DEF HoldInv
<1>11. /\ Trail(call'.doc, pointer', W, Len(pointer')) /\ Edge(pointer', n)
       /\ rest' = Slice(pointer', n, LastSlash' - 1) /\ at' = W[n]
       /\ found' = W[Len(pointer')] /\ n \in 0..(LastSlash' - 1) /\ W \in Places'
  BY <1>2, <1>5, <1>7, <1>8, <1>9 DEF e
<1> QED BY <1>3, <1>9, <1>11 DEF HoldInv

LEMMA HoldEnds ==
  ASSUME TypeInv, HoldInv, Detach, At(pointer, 0) = Slash
  PROVE  TakenInv'
<1>1. Asked /\ pointer \in Text /\ Len(pointer) \in Nat /\ Following /\ ~HasToken
  BY AskedIs DEF TypeInv, Asked, Detach, Following
<1>2. PICK W \in Places, o \in 0..(LastSlash - 1) :
       /\ Trail(call.doc, pointer, W, Len(pointer)) /\ Edge(pointer, o)
       /\ rest = Slice(pointer, o, LastSlash - 1) /\ at = W[o]
       /\ found = W[Len(pointer)]
  BY DEF HoldInv
<1>3. LastSlash \in 1..Len(pointer) /\ At(pointer, LastSlash - 1) = Slash
  BY <1>1, LastSlashIs DEF HoldInv
<1>4. o \in Nat /\ Edge(pointer, LastSlash - 1) /\ o <= LastSlash - 1
      /\ o \in 0..Len(pointer) /\ LastSlash - 1 \in 0..Len(pointer)
  BY <1>1, <1>3 DEF Edge
<1>5. at = {} \/ o = LastSlash - 1
  BY <1>1, <1>2, <1>4, FollowEnds
<1>6. at = W[LastSlash - 1]
  BY <1>2, <1>4, <1>5 DEF Trail
<1>7. call' = call /\ pointer' = pointer /\ found' = found /\ Places' = Places /\ at' = at
      /\ LastSlash' = LastSlash
  BY LastSlashSame DEF Detach, Places
<1>8. taken' = UNION {Detached(call.doc, a, DecodePointerInplace(From(pointer, LastSlash))) : a \in at}
  BY DEF Detach
<1> QED BY <1>2, <1>3, <1>6, <1>7, <1>8 DEF TakenInv

LEMMA LookupStep == TypeInv /\ LookupInv /\ [Next]_vars => LookupInv'
<1> SUFFICES ASSUME TypeInv, LookupInv, [Next]_vars PROVE LookupInv'
  OBVIOUS
<1>0. TypeInv'
  BY TypeStep
<1>1. CASE Ask
  BY <1>1 DEF Ask, LookupInv, TypeInv, Idle
<1>2. CASE ReadDot \/ ReadQuoted \/ ReadIndex \/ ReadName
  <2>1. mode' = "convert" /\ ~IsRootSign /\ call' = call
    BY <1>2 DEF ReadDot, ReadQuoted, ReadIndex, ReadName, Convert, Converting
  <2> QED BY <2>1 DEF LookupInv, IsRootSign, path
<1>3. CASE RejectBracket \/ Reply
  <2>1. mode' \in {"rejected", "idle"}
    BY <1>3 DEF RejectBracket, Reply
  <2> QED BY <2>1 DEF LookupInv
<1>4. CASE TakeOver
  <2>1. mode' = "find" /\ rest' = pointer' /\ at' = {Root}
    BY <1>4 DEF TakeOver, Follow
  <2>2. Asked'
    BY <1>0, <2>1 DEF TypeInv
  <2> QED BY <2>1, <2>2, StartsTrail
<1>5. CASE RootSign
  <2>1. mode' = "find" /\ pointer' = <<>>
    BY <1>5 DEF RootSign, Follow, LookupInv
  <2>2. At(pointer', 0) # Slash
    <3>1. At(<<>>, 0) = NUL
      BY EmptyText, TextAt
    <3> QED BY <2>1, <3>1, Signs
  <2> QED BY <2>1, <2>2 DEF LookupInv
<1>6. CASE Converted
  <2>1. mode' = "find" /\ rest' = pointer' /\ at' = {Root}
    BY <1>6 DEF Converted, Follow
  <2>2. Asked'
    BY <1>0, <2>1 DEF TypeInv
  <2> QED BY <2>1, <2>2, StartsTrail
<1>7. CASE FollowElement \/ FollowMember \/ FollowScalar
  <2>1. mode \in {"find", "hold"} /\ mode' = mode /\ pointer' = pointer
    BY <1>7 DEF FollowElement, FollowMember, FollowScalar, HasToken, Following, Step
  <2> QED BY <1>0, <1>7, <2>1, FindFollows, HoldFollows DEF LookupInv
<1>8. CASE Find
  <2>1. mode = "find" /\ mode' = "found" /\ pointer' = pointer
    BY <1>8 DEF Find
  <2> QED BY <1>8, <2>1, FindEnds DEF LookupInv
<1>9. CASE SplitPointer
  <2>1. mode = "found" /\ mode' = "hold" /\ pointer' = pointer
    BY <1>9 DEF SplitPointer, Follow
  <2> QED BY <1>9, <2>1, SplitsTrail DEF LookupInv
<1>10. CASE Detach
  <2>1. mode = "hold" /\ mode' = "taken" /\ pointer' = pointer
    BY <1>10 DEF Detach
  <2> QED BY <1>10, <2>1, HoldEnds DEF LookupInv
<1>11. CASE UNCHANGED vars
  <2>1. LastSlash' = LastSlash
    BY <1>11, LastSlashSame DEF vars
  <2> QED BY <1>11, <2>1
          DEF vars, LookupInv, IsRootSign, path, FindInv, FoundInv, HoldInv, TakenInv, Places
<1> QED BY <1>1, <1>2, <1>3, <1>4, <1>5, <1>6, <1>7, <1>8, <1>9, <1>10, <1>11 DEF Next

LEMMA LookupInvariant == Spec => [](TypeInv /\ LookupInv)
<1>1. Init => LookupInv
  BY DEF Init, LookupInv
<1>2. TypeInv /\ LookupInv /\ [Next]_vars => LookupInv'
  BY LookupStep
<1> QED BY <1>1, <1>2, TypeInvariant, PTL DEF Spec

(***************************************************************************)
(* The two ways to look up the last token.                                 *)
(***************************************************************************)
Spelled(d) == \A a \in DOMAIN d : d[a].name \in Text \cup {NoName}

LEMMA NameIs ==
  ASSUME NEW d, WellFormed(d), Spelled(d), NEW a \in DOMAIN d, d[a].t = "object", NEW k \in 1..Size(d, a)
  PROVE  d[Append(a, k)].name \in Text /\ d[Append(a, k)].name \in Name
<1>1. Append(a, k) \in DOMAIN d /\ a \in Address /\ k \in Position
  BY ChildIs, SizeIs DEF Container, Position, WellFormed, Labelled
<1>2. Append(a, k) # Root /\ Parent(Append(a, k)) = a
  BY <1>1, AppendParent
<1>3. d[Append(a, k)].name \in Name
  BY <1>1, <1>2 DEF WellFormed, Titled
<1> QED BY <1>1, <1>3, NameAssumption DEF Spelled

LEMMA SlashlessToken ==
  ASSUME NEW t \in Text, Slashless(t)
  PROVE  TokenAt(t, 0) = t
<1>1. Len(t) \in Nat /\ Len(t) \in 0..Len(t)
  BY LenProperties DEF Text
<1>2. IndexFrom(t, 0, {Slash}) = Len(t)
  BY <1>1, IndexIs DEF Slashless
<1> QED BY <1>2, WholeIs DEF TokenAt

LEMMA ChosenIsDetached ==
  ASSUME NEW d, WellFormed(d), Spelled(d), NEW a \in DOMAIN d, NEW tok \in Text, Untilded(tok),
         Slashless(tok),
         d[a].t = "object" =>
           \A k \in 1..Size(d, a) : d[Append(a, k)].name # tok =>
                                      ToLower(d[Append(a, k)].name) # ToLower(tok)
  PROVE  Chosen(d, a, tok) = Detached(d, a, tok)
<1>1. CASE d[a].t = "array"
  BY <1>1, SlashlessToken DEF Chosen, Detached
<1>2. CASE d[a].t = "object"
  <2> DEFINE this == [k \in 1..Size(d, a) |-> ComparePointers(d[Append(a, k)].name, tok)]
             that == [k \in 1..Size(d, a) |-> ToLower(d[Append(a, k)].name) = ToLower(tok)]
  <2>1. \A k \in 1..Size(d, a) : this[k] <=> that[k]
    <3>1. ASSUME NEW k \in 1..Size(d, a) PROVE this[k] <=> that[k]
      <4>1. ComparePointers(d[Append(a, k)].name, tok) <=> d[Append(a, k)].name = tok
        BY <1>2, NameIs, ComparesNames
      <4> QED BY <1>2, <4>1
    <3> QED BY <3>1
  <2> HIDE DEF this, that
  <2>2. {k \in 1..Size(d, a) : this[k]} = {k \in 1..Size(d, a) : that[k]}
    BY <2>1
  <2>3. ChildWith(d, a, this) = ChildWith(d, a, that)
    BY <2>2 DEF ChildWith
  <2> QED BY <1>2, <2>3 DEF Chosen, Detached, Homonym, this, that
<1>3. CASE d[a].t \notin Container
  BY <1>3 DEF Chosen, Detached, Container
<1> QED BY <1>1, <1>2, <1>3 DEF Container

LEMMA LastTokenIs ==
  ASSUME pointer \in Text, LastSlash # 0
  PROVE  /\ LastToken \in Text /\ Slashless(LastToken)
         /\ LastSlash - 1 \in 0..(Len(pointer) - 1) /\ At(pointer, LastSlash - 1) = Slash
         /\ After(pointer, LastSlash - 1) = Len(pointer)
         /\ TokenAt(pointer, (LastSlash - 1) + 1) = LastToken
<1>1. /\ Len(pointer) \in Nat /\ LastSlash \in 1..Len(pointer) /\ At(pointer, LastSlash - 1) = Slash
      /\ \A k \in LastSlash..(Len(pointer) - 1) : At(pointer, k) # Slash
  BY LastSlashIs, LenProperties DEF Text
<1>2. /\ LastToken \in Text /\ Len(LastToken) = Len(pointer) - LastSlash
      /\ \A l \in 0..(Len(pointer) - LastSlash - 1) : At(LastToken, l) = At(pointer, LastSlash + l)
  BY <1>1, TextFrom DEF LastToken
<1>3. ASSUME NEW k \in 0..(Len(LastToken) - 1) PROVE At(LastToken, k) # Slash
  <2>1. k \in 0..(Len(pointer) - LastSlash - 1) /\ LastSlash + k \in LastSlash..(Len(pointer) - 1)
    BY <1>1, <1>2
  <2> QED BY <1>1, <1>2, <2>1
<1>4. (LastSlash - 1) + 1 = LastSlash /\ Len(pointer) \in LastSlash..Len(pointer) /\ LastSlash \in Nat
  BY <1>1
<1>5. IndexFrom(pointer, LastSlash, {Slash}) = Len(pointer)
  BY <1>1, <1>4, IndexIs
<1>6. After(pointer, LastSlash - 1) = Len(pointer)
  BY <1>4, <1>5 DEF After
<1>7. TokenAt(pointer, (LastSlash - 1) + 1) = LastToken
  BY <1>4, <1>5 DEF TokenAt, LastToken, From, Slice
<1> QED BY <1>1, <1>2, <1>3, <1>6, <1>7 DEF Slashless

\* The node a patch takes out for a pointer is the one that a command reads
\* there, for every document and every pointer whose last token has no tilde and
\* no homonym: the two lookups, of which the second splits the pointer and has
\* its own ways to read a token, cannot drift apart anywhere on the way.
\* (get_item_from_pointer against detach_path)
THEOREM PatchTakesWhatIsRead == Spec => []LookupsAgree
<1>1. TypeInv /\ LookupInv => LookupsAgree
  <2> SUFFICES ASSUME TypeInv, LookupInv, mode = "taken", At(pointer, 0) = Slash,
                      Tilde \notin ToSet(LastToken),
                      ~ \E a \in at : \E k \in 1..Size(call.doc, a) :
                          /\ call.doc[a].t = "object"
                          /\ call.doc[Append(a, k)].name # LastToken
                          /\ ToLower(call.doc[Append(a, k)].name) = ToLower(LastToken)
               PROVE  taken = found
    BY DEF LookupsAgree
  <2>1. Asked /\ TakenInv /\ pointer \in Text /\ WellFormed(call.doc)
    BY AskedIs DEF TypeInv, LookupInv, Asked
  <2>2. PICK W \in Places :
          /\ Trail(call.doc, pointer, W, Len(pointer))
          /\ at = W[LastSlash - 1] /\ found = W[Len(pointer)]
    BY <2>1 DEF TakenInv
  <2>3. LastToken \in Text /\ Slashless(LastToken) /\ Untilded(LastToken)
    BY <2>1, LastTokenIs, UntildedIs DEF TakenInv
  <2>4. found = Walk(call.doc, at, LastToken)
    BY <2>1, <2>2, LastTokenIs DEF TakenInv, Trail
  <2>5. taken = UNION {Detached(call.doc, a, LastToken) : a \in at}
    BY <2>1, <2>3, DecodesItself DEF TakenInv, LastToken
  <2>6. Spelled(call.doc)
    BY <2>1, CallsAssumption DEF Asked, Spelled, Text
  <2>7. ASSUME NEW a \in at PROVE Chosen(call.doc, a, LastToken) = Detached(call.doc, a, LastToken)
    <3>1. a \in DOMAIN call.doc
      BY <2>1 DEF Asked, One
    <3> QED BY <2>1, <2>3, <2>6, <3>1, ChosenIsDetached
  <2> QED BY <2>4, <2>5, <2>7 DEF Walk
<1> QED BY <1>1, LookupInvariant, PTL

(***************************************************************************)
(* The tokens of a pointer, as far as it is read.                          *)
(***************************************************************************)
Tokened(T, t) ==
  /\ T \in [0..Len(t) -> Seq(Text)] /\ T[0] = <<>> /\ T[Len(t)] = Tokens(t)
  /\ \A b \in 0..(Len(t) - 1) :
       T[b + 1] = IF At(t, b) = Slash THEN Append(T[b], TokenAt(t, b + 1)) ELSE T[b]

LEMMA TokensExist ==
  ASSUME NEW t \in Text
  PROVE  \E T : Tokened(T, t)
<1> DEFINE seqs == [o \in DOMAIN t |-> IF t[o] = Slash THEN <<TokenAt(t, o)>> ELSE <<>>]
<1>1. Len(t) \in Nat /\ DOMAIN t = 1..Len(t)
  BY LenProperties DEF Text
<1>2. ASSUME NEW o \in 1..Len(t) PROVE TokenAt(t, o) \in Text
  <2>1. o \in Nat /\ o <= Len(t)
    BY <1>1
  <2>2. IndexFrom(t, o, {Slash}) \in o..Len(t)
    BY <2>1, TextIndex
  <2> QED BY <2>1, <2>2, TextSlice DEF TokenAt
<1>3. \A o \in 1..Len(t) : seqs[o] = IF t[o] = Slash THEN <<TokenAt(t, o)>> ELSE <<>>
  BY <1>1
<1>4. seqs \in [1..Len(t) -> Seq(Text)]
  <2>1. \A o \in 1..Len(t) : seqs[o] \in Seq(Text)
    BY <1>2, <1>3, EmptySeq
  <2>2. seqs = [o \in 1..Len(t) |-> seqs[o]]
    BY <1>1
  <2> HIDE DEF seqs
  <2> QED BY <2>1, <2>2
<1>5. Tokens(t) = FlattenSeq(seqs)
  BY DEF Tokens
<1> HIDE DEF seqs
<1>6. PICK T : Joins(T, Len(t), Text, seqs)
  BY <1>1, <1>4, JoinedUpTo
<1>7. ASSUME NEW b \in 0..(Len(t) - 1)
      PROVE  T[b + 1] = IF At(t, b) = Slash THEN Append(T[b], TokenAt(t, b + 1)) ELSE T[b]
  <2>1. b + 1 \in 1..Len(t) /\ (b + 1) - 1 = b /\ b \in 0..Len(t) /\ b \in Nat /\ b < Len(t)
    BY <1>1
  <2>2. T[b + 1] = T[b] \o seqs[b + 1] /\ T[b] \in Seq(Text)
    <3>1. T \in [0..Len(t) -> Seq(Text)] /\ \A o \in 1..Len(t) : T[o] = T[o - 1] \o seqs[o]
      BY <1>6 DEF Joins
    <3> QED BY <2>1, <3>1
  <2>3. t[b + 1] = At(t, b)
    BY <2>1, TextAt
  <2>4. CASE At(t, b) = Slash
    <3>1. seqs[b + 1] = <<TokenAt(t, b + 1)>>
      BY <1>3, <2>1, <2>3, <2>4
    <3> QED BY <1>2, <2>1, <2>2, <2>4, <3>1, AppendIsConcat
  <2>5. CASE At(t, b) # Slash
    <3>1. seqs[b + 1] = <<>>
      BY <1>3, <2>1, <2>3, <2>5
    <3> QED BY <2>2, <2>5, <3>1, ConcatEmptySeq
  <2> QED BY <2>4, <2>5
<1> QED BY <1>5, <1>6, <1>7 DEF Joins, Tokened

\* No token begins between a slash and the next.
LEMMA TokenedAfter ==
  ASSUME NEW t \in Text, NEW T, Tokened(T, t), NEW b \in 0..(Len(t) - 1), At(t, b) = Slash
  PROVE  /\ \A c \in (b + 1)..After(t, b) : T[c] = T[b + 1]
         /\ T[After(t, b)] = Append(T[b], TokenAt(t, b + 1))
<1> DEFINE n == After(t, b)
           Good == {k \in Nat : (b + 1) + k <= n => T[(b + 1) + k] = T[b + 1]}
<1>1. Len(t) \in Nat /\ n \in (b + 1)..Len(t) /\ \A c \in (b + 1)..(n - 1) : At(t, c) # Slash
  BY AfterIs, LenProperties DEF Text
<1> HIDE DEF n
<1>2. 0 \in Good
  OBVIOUS
<1>3. ASSUME NEW k \in Nat, k \in Good PROVE k + 1 \in Good
  <2> SUFFICES ASSUME (b + 1) + (k + 1) <= n PROVE T[(b + 1) + (k + 1)] = T[b + 1]
    OBVIOUS
  <2> DEFINE c == (b + 1) + k
  <2>1. c \in (b + 1)..(n - 1) /\ c \in 0..(Len(t) - 1) /\ (b + 1) + (k + 1) = c + 1 /\ T[c] = T[b + 1]
    BY <1>1, <1>3
  <2> HIDE DEF c
  <2>2. T[c + 1] = T[c]
    BY <1>1, <2>1 DEF Tokened
  <2> QED BY <2>1, <2>2
<1>4. Nat \subseteq Good
  <2> HIDE DEF Good
  <2> QED BY <1>2, <1>3, Induction
<1>5. ASSUME NEW c \in (b + 1)..n PROVE T[c] = T[b + 1]
  <2> DEFINE k == c - (b + 1)
  <2>1. k \in Nat /\ (b + 1) + k = c /\ c <= n
    BY <1>1
  <2> HIDE DEF k
  <2>2. k \in Good
    BY <1>4, <2>1
  <2> QED BY <2>1, <2>2
<1>6. T[n] = T[b + 1]
  <2>1. n \in (b + 1)..n
    BY <1>1
  <2> QED BY <1>5, <2>1
<1> QED BY <1>5, <1>6 DEF n, Tokened

(***************************************************************************)
(* What a token selects.                                                   *)
(***************************************************************************)
LEMMA ChildWithIs ==
  ASSUME NEW d, WellFormed(d), NEW a \in DOMAIN d, d[a].t \in Container, NEW fits, NEW b
  PROVE  b \in ChildWith(d, a, fits) <=>
           \E k \in 1..Size(d, a) : fits[k] /\ (\A j \in 1..(k - 1) : ~fits[j]) /\ b = Append(a, k)
<1> DEFINE hits == {k \in 1..Size(d, a) : fits[k]}
<1>1. Size(d, a) \in Nat /\ hits \subseteq Nat
  BY SizeIs
<1>2. CASE hits = {}
  BY <1>2 DEF ChildWith
<1>3. CASE hits # {}
  <2>1. Min(hits) \in hits /\ \A y \in hits : Min(hits) <= y
    <3> HIDE DEF hits
    <3> QED BY <1>1, <1>3, MinIs
  <2>2. ChildWith(d, a, fits) = {Append(a, Min(hits))}
    BY <1>3 DEF ChildWith
  <2> DEFINE m == Min(hits)
  <2>3. m \in 1..Size(d, a) /\ fits[m] /\ \A y \in 1..Size(d, a) : fits[y] => m <= y
    BY <2>1
  <2>4. b \in ChildWith(d, a, fits) <=> b = Append(a, m)
    BY <2>2
  <2> HIDE DEF m
  <2>5. \A j \in 1..(m - 1) : ~fits[j]
    <3>1. \A j \in 1..(m - 1) : j \in 1..Size(d, a) /\ ~(m <= j)
      BY <1>1, <2>3
    <3> QED BY <2>3, <3>1
  <2>6. ASSUME NEW k \in 1..Size(d, a), fits[k], \A j \in 1..(k - 1) : ~fits[j] PROVE k = m
    <3>1. ~(m < k)
      <4>1. m < k => m \in 1..(k - 1)
        BY <1>1, <2>3
      <4> QED BY <2>3, <2>6, <4>1
    <3> QED BY <1>1, <2>3, <2>6, <3>1
  <2> QED BY <2>3, <2>4, <2>5, <2>6
<1> QED BY <1>2, <1>3

\* Following a token leads to the child that JsonPatch says it selects.
LEMMA ChosenIs ==
  ASSUME NEW d, WellFormed(d), Spelled(d), NEW a \in DOMAIN d, NEW tok \in Text, NEW b
  PROVE  /\ \A k : P!Selects(d, a, tok, k) => k \in 1..Size(d, a)
         /\ b \in Chosen(d, a, tok) <=> \E k \in 1..Size(d, a) : P!Selects(d, a, tok, k) /\ b = Append(a, k)
<1>1. CASE d[a].t = "array"
  <2>1. Size(d, a) \in Nat /\ IndexOf(tok) \in Int
    BY <1>1, SizeIs, IndexOfInt DEF Container
  <2>2. \A k : P!Selects(d, a, tok, k) <=> IndexOf(tok) >= 0 /\ k = IndexOf(tok) + 1 /\ k <= Size(d, a)
    BY <1>1 DEF P!Selects, P!Size, Size, Text
  <2>3. \A k : P!Selects(d, a, tok, k) => k \in 1..Size(d, a)
    BY <2>1, <2>2
  <2>4. Chosen(d, a, tok) = IF IndexOf(tok) \in 0..(Size(d, a) - 1) THEN {Append(a, IndexOf(tok) + 1)} ELSE {}
    BY <1>1 DEF Chosen, Element
  <2>5. b \in Chosen(d, a, tok) <=> \E k \in 1..Size(d, a) : P!Selects(d, a, tok, k) /\ b = Append(a, k)
    <3>1. CASE IndexOf(tok) \in 0..(Size(d, a) - 1)
      <4>1. IndexOf(tok) + 1 \in 1..Size(d, a) /\ P!Selects(d, a, tok, IndexOf(tok) + 1)
        BY <2>1, <2>2, <3>1
      <4> QED BY <2>2, <2>4, <3>1, <4>1
    <3>2. CASE IndexOf(tok) \notin 0..(Size(d, a) - 1)
      <4>1. \A k \in 1..Size(d, a) : ~P!Selects(d, a, tok, k)
        BY <2>1, <2>2, <3>2
      <4> QED BY <2>4, <3>2, <4>1
    <3> QED BY <3>1, <3>2
  <2> QED BY <2>3, <2>5
<1>2. CASE d[a].t = "object"
  <2> DEFINE sought == IF WellEscaped(tok) THEN Unescaped(tok) ELSE NoName
             fits == [k \in 1..Size(d, a) |-> ComparePointers(d[Append(a, k)].name, tok)]
  <2>1. Size(d, a) \in Nat /\ d[a].t \in Container
    BY <1>2, SizeIs DEF Container
  <2>2. \A k \in 1..Size(d, a) : fits[k] <=> d[Append(a, k)].name = sought
    <3>1. ASSUME NEW k \in 1..Size(d, a)
          PROVE  ComparePointers(d[Append(a, k)].name, tok) <=> d[Append(a, k)].name = sought
      <4>1. d[Append(a, k)].name \in Text /\ d[Append(a, k)].name # NoName
        BY <1>2, NameIs, NameAssumption
      <4>2. ComparePointers(d[Append(a, k)].name, tok)
              <=> WellEscaped(tok) /\ d[Append(a, k)].name = Unescaped(tok)
        BY <4>1, ComparesUnescaped
      <4> QED BY <4>1, <4>2
    <3> QED BY <3>1
  <2>3. \A k : P!Selects(d, a, tok, k) <=>
                 /\ k \in 1..Size(d, a) /\ d[Append(a, k)].name = sought
                 /\ \A j \in 1..(k - 1) : d[Append(a, j)].name # sought
    BY <1>2 DEF P!Selects, P!FirstNamed, P!Size, Size, Text
  <2>4. Chosen(d, a, tok) = ChildWith(d, a, fits)
    BY <1>2 DEF Chosen
  <2> HIDE DEF fits, sought
  <2>5. \A k \in 1..Size(d, a) :
          P!Selects(d, a, tok, k) <=> fits[k] /\ \A j \in 1..(k - 1) : ~fits[j]
    <3>1. \A k \in 1..Size(d, a) : \A j \in 1..(k - 1) : j \in 1..Size(d, a)
      BY <2>1
    <3> QED BY <2>2, <2>3, <3>1
  <2> QED BY <2>1, <2>3, <2>4, <2>5, ChildWithIs
<1>3. CASE d[a].t \notin Container
  <2>1. Chosen(d, a, tok) = {} /\ \A k : ~P!Selects(d, a, tok, k)
    BY <1>3 DEF Chosen, Container, P!Selects
  <2> QED BY <2>1
<1> QED BY <1>1, <1>2, <1>3 DEF Container

\* The nodes that the tokens lead to, and those that one more leads to.
Resolved(d, toks) == {a \in DOMAIN d : P!Resolves(d, toks, a)}

LEMMA PrefixOf ==
  ASSUME NEW a \in Address, NEW k \in Position, NEW j \in 0..Len(a)
  PROVE  /\ P!Prefix(Append(a, k), j) = P!Prefix(a, j)
         /\ j = Len(a) => P!Prefix(a, j) = a
<1>1. /\ Len(a) \in Nat /\ \A l \in 1..Len(a) : Append(a, k)[l] = a[l]
      /\ a = [l \in 1..Len(a) |-> a[l]]
  BY AppendProperties, LenProperties DEF Address
<1>2. \A l \in 1..j : l \in 1..Len(a)
  BY <1>1
<1>3. P!Prefix(Append(a, k), j) = [l \in 1..j |-> Append(a, k)[l]] /\ P!Prefix(a, j) = [l \in 1..j |-> a[l]]
  BY DEF P!Prefix
<1>4. [l \in 1..j |-> Append(a, k)[l]] = [l \in 1..j |-> a[l]]
  BY <1>1, <1>2
<1> QED BY <1>1, <1>3, <1>4

LEMMA ResolvesNext ==
  ASSUME NEW d, NEW a \in Address, NEW k \in Position, NEW toks \in Seq(Text), NEW tok \in Text
  PROVE  P!Resolves(d, Append(toks, tok), Append(a, k)) <=>
           P!Resolves(d, toks, a) /\ P!Selects(d, a, tok, k)
<1> DEFINE b == Append(a, k)
           more == Append(toks, tok)
<1>1. /\ Len(a) \in Nat /\ Len(b) = Len(a) + 1 /\ b[Len(a) + 1] = k
      /\ \A l \in 1..Len(a) : b[l] = a[l]
  BY AppendProperties, LenProperties DEF Address
<1>2. /\ Len(toks) \in Nat /\ Len(more) = Len(toks) + 1 /\ more[Len(toks) + 1] = tok
      /\ \A l \in 1..Len(toks) : more[l] = toks[l]
  BY AppendProperties, LenProperties
<1>3. \A j \in 0..Len(a) : P!Prefix(b, j) = P!Prefix(a, j)
  BY PrefixOf
<1>4. P!Prefix(b, Len(a)) = a
  <2>1. Len(a) \in 0..Len(a)
    BY <1>1
  <2> QED BY <2>1, PrefixOf
<1> HIDE DEF b, more
<1>5. P!Resolves(d, more, b) <=>
        Len(b) = Len(more) /\ \A j \in 1..Len(b) : P!Selects(d, P!Prefix(b, j - 1), more[j], b[j])
  BY DEF P!Resolves
<1>6. P!Resolves(d, toks, a) <=>
        Len(a) = Len(toks) /\ \A j \in 1..Len(a) : P!Selects(d, P!Prefix(a, j - 1), toks[j], a[j])
  BY DEF P!Resolves
<1>7. ASSUME Len(a) # Len(toks)
      PROVE  P!Resolves(d, more, b) <=> P!Resolves(d, toks, a) /\ P!Selects(d, a, tok, k)
  <2>1. Len(b) # Len(more)
    BY <1>1, <1>2, <1>7
  <2> QED BY <1>5, <1>6, <1>7, <2>1
<1>8. ASSUME Len(a) = Len(toks)
      PROVE  P!Resolves(d, more, b) <=> P!Resolves(d, toks, a) /\ P!Selects(d, a, tok, k)
  <2>1. ASSUME NEW j \in 1..Len(a)
        PROVE  P!Selects(d, P!Prefix(b, j - 1), more[j], b[j]) <=> P!Selects(d, P!Prefix(a, j - 1), toks[j], a[j])
    <3>1. j - 1 \in 0..Len(a) /\ j \in 1..Len(toks)
      BY <1>1, <1>8
    <3> QED BY <1>1, <1>2, <1>3, <3>1
  <2>2. P!Selects(d, P!Prefix(b, (Len(a) + 1) - 1), more[Len(a) + 1], b[Len(a) + 1]) <=> P!Selects(d, a, tok, k)
    <3>1. (Len(a) + 1) - 1 = Len(a)
      BY <1>1
    <3> QED BY <1>1, <1>2, <1>4, <1>8, <3>1
  <2>3. \A j : j \in 1..Len(b) <=> j \in 1..Len(a) \/ j = Len(a) + 1
    BY <1>1
  <2>4. Len(b) = Len(more)
    BY <1>1, <1>2, <1>8
  <2> DEFINE Big(j)   == P!Selects(d, P!Prefix(b, j - 1), more[j], b[j])
             Small(j) == P!Selects(d, P!Prefix(a, j - 1), toks[j], a[j])
             New     == P!Selects(d, a, tok, k)
  <2>5. (\A j \in 1..Len(a) : Big(j) <=> Small(j)) /\ (Big(Len(a) + 1) <=> New)
    BY <2>1, <2>2
  <2>6. P!Resolves(d, more, b) <=> \A j \in 1..Len(b) : Big(j)
    BY <1>5, <2>4
  <2>7. P!Resolves(d, toks, a) <=> \A j \in 1..Len(a) : Small(j)
    BY <1>6, <1>8
  <2> HIDE DEF Big, Small, New
  <2>8. (\A j \in 1..Len(b) : Big(j)) <=> (\A j \in 1..Len(a) : Small(j)) /\ New
    BY <2>3, <2>5
  <2>9. P!Resolves(d, more, b) <=> P!Resolves(d, toks, a) /\ New
    BY <2>6, <2>7, <2>8
  <2> QED BY <2>9 DEF New
<1> QED BY <1>7, <1>8 DEF b, more

LEMMA WalkResolves ==
  ASSUME NEW d, WellFormed(d), Spelled(d), NEW toks \in Seq(Text), NEW tok \in Text
  PROVE  Walk(d, Resolved(d, toks), tok) = Resolved(d, Append(toks, tok))
<1>0. \A a \in DOMAIN d : a \in Address
  BY DEF WellFormed, Labelled
<1>1. ASSUME NEW b, b \in Walk(d, Resolved(d, toks), tok) PROVE b \in Resolved(d, Append(toks, tok))
  <2>1. PICK a \in Resolved(d, toks) : b \in Chosen(d, a, tok)
    BY <1>1 DEF Walk
  <2>2. a \in DOMAIN d /\ a \in Address /\ P!Resolves(d, toks, a)
    BY <1>0, <2>1 DEF Resolved
  <2>3. PICK k \in 1..Size(d, a) : P!Selects(d, a, tok, k) /\ b = Append(a, k)
    BY <2>1, <2>2, ChosenIs
  <2>4. d[a].t \in Container
    BY <2>3 DEF P!Selects, Container
  <2>5. k \in Position /\ b \in DOMAIN d
    BY <2>2, <2>3, <2>4, SizeIs, ChildIs DEF Position
  <2> QED BY <2>2, <2>3, <2>5, ResolvesNext DEF Resolved
<1>2. ASSUME NEW b, b \in Resolved(d, Append(toks, tok)) PROVE b \in Walk(d, Resolved(d, toks), tok)
  <2>1. b \in DOMAIN d /\ b \in Address /\ P!Resolves(d, Append(toks, tok), b)
    BY <1>0, <1>2 DEF Resolved
  <2>2. Len(b) = Len(toks) + 1 /\ Len(toks) \in Nat
    <3>1. Len(b) = Len(Append(toks, tok))
      BY <2>1 DEF P!Resolves
    <3> QED BY <3>1, AppendProperties, LenProperties
  <2>3. b # Root
    BY <2>2, EmptySeq DEF Root
  <2> DEFINE a == Parent(b)
             k == b[Len(b)]
  <2>4. a \in Address /\ k \in Position /\ b = Append(a, k)
    BY <2>1, <2>3, ParentAppend
  <2>5. a \in DOMAIN d
    BY <2>1, <2>3 DEF WellFormed, Attached
  <2> HIDE DEF a, k
  <2>6. P!Resolves(d, toks, a) /\ P!Selects(d, a, tok, k)
    BY <2>1, <2>4, ResolvesNext
  <2>7. b \in Chosen(d, a, tok)
    BY <2>4, <2>5, <2>6, ChosenIs
  <2> QED BY <2>5, <2>6, <2>7 DEF Resolved, Walk
<1> QED BY <1>1, <1>2

LEMMA ResolvedRoot ==
  ASSUME NEW d, WellFormed(d)
  PROVE  Resolved(d, <<>>) = {Root}
<1>1. \A a \in DOMAIN d : a \in Address
  BY DEF WellFormed, Labelled
<1>2. Root \in DOMAIN d
  BY DEF WellFormed, Rooted
<1>3. ASSUME NEW a \in DOMAIN d PROVE P!Resolves(d, <<>>, a) <=> a = Root
  <2>1. Len(a) = 0 <=> a = Root
    BY <1>1, EmptySeq DEF Address, Root
  <2>2. Len(<<>>) = 0
    OBVIOUS
  <2>3. Len(a) = 0 => \A j \in 1..Len(a) : FALSE
    OBVIOUS
  <2> QED BY <2>1, <2>2, <2>3 DEF P!Resolves
<1> QED BY <1>2, <1>3 DEF Resolved

\* A trail leads, at every edge, to what the tokens before the edge lead to.
LEMMA TrailNext ==
  ASSUME NEW t \in Text, NEW d, WellFormed(d), Spelled(d), NEW W, Trail(d, t, W, Len(t)),
         NEW T, Tokened(T, t), NEW b \in 0..(Len(t) - 1), At(t, b) = Slash, W[b] = Resolved(d, T[b])
  PROVE  W[After(t, b)] = Resolved(d, T[After(t, b)])
<1>1. W[After(t, b)] = Walk(d, W[b], TokenAt(t, b + 1))
  BY DEF Trail
<1>2. T[After(t, b)] = Append(T[b], TokenAt(t, b + 1))
  BY TokenedAfter
<1>3. T[b] \in Seq(Text) /\ TokenAt(t, b + 1) \in Text
  <2>1. Len(t) \in Nat /\ b \in 0..Len(t) /\ b + 1 \in Nat /\ After(t, b) \in (b + 1)..Len(t)
        /\ TokenAt(t, b + 1) = Slice(t, b + 1, After(t, b))
    BY AfterIs, LenProperties DEF Text
  <2> QED BY <2>1, TextSlice DEF Tokened
<1> QED BY <1>1, <1>2, <1>3, WalkResolves

LEMMA TrailResolves ==
  ASSUME NEW t \in Text, At(t, 0) = Slash, NEW d, WellFormed(d), Spelled(d),
         NEW W, Trail(d, t, W, Len(t)), NEW T, Tokened(T, t), NEW o, Edge(t, o)
  PROVE  W[o] = Resolved(d, T[o])
<1> DEFINE LeadsAt(b) == At(t, b) = Slash /\ W[b] = Resolved(d, T[b])
           Good == {k \in Nat : k < Len(t) => \E b \in 0..k : LeadsAt(b) /\ k < After(t, b)}
<1>1. Len(t) \in Nat /\ 0 < Len(t) /\ o \in 0..Len(t)
  <2>1. At(t, 0) # NUL
    BY Signs
  <2> QED BY <2>1, TextAt DEF Edge
<1>2. LeadsAt(0)
  BY ResolvedRoot DEF Trail, Tokened
<1>3. \A b \in 0..(Len(t) - 1) : LeadsAt(b) => W[After(t, b)] = Resolved(d, T[After(t, b)])
  BY TrailNext
<1>4. 0 \in Good
  <2>1. 0 \in 0..(Len(t) - 1)
    BY <1>1
  <2>2. 0 < After(t, 0)
    BY <1>1, <2>1, AfterIs
  <2> QED BY <1>2, <2>2
<1>5. ASSUME NEW k \in Nat, k \in Good PROVE k + 1 \in Good
  <2> SUFFICES ASSUME k + 1 < Len(t) PROVE \E b \in 0..(k + 1) : LeadsAt(b) /\ k + 1 < After(t, b)
    OBVIOUS
  <2>1. PICK b \in 0..k : LeadsAt(b) /\ k < After(t, b)
    BY <1>1, <1>5
  <2>2. b \in 0..(Len(t) - 1) /\ b \in 0..(k + 1)
    BY <1>1, <2>1
  <2> DEFINE n == After(t, b)
  <2>3. n \in (b + 1)..Len(t) /\ Edge(t, n)
    BY <2>2, AfterIs
  <2>4. k < n /\ W[n] = Resolved(d, T[n])
    BY <1>3, <2>1, <2>2
  <2>n. n = After(t, b)
    OBVIOUS
  <2> HIDE DEF n, LeadsAt
  <2>5. CASE k + 1 < n
    BY <2>1, <2>2, <2>5, <2>n
  <2>6. CASE ~(k + 1 < n)
    <3>1. n = k + 1 /\ n # Len(t) /\ k + 1 \in 0..(Len(t) - 1) /\ k + 1 \in 0..(k + 1)
      BY <1>1, <2>2, <2>3, <2>4, <2>6
    <3>2. LeadsAt(k + 1)
      BY <2>3, <2>4, <3>1 DEF Edge, LeadsAt
    <3>3. k + 1 < After(t, k + 1)
      BY <1>1, <3>1, AfterIs
    <3> QED BY <3>1, <3>2, <3>3
  <2> QED BY <2>5, <2>6
<1>6. Nat \subseteq Good
  <2> HIDE DEF Good
  <2> QED BY <1>4, <1>5, Induction
<1>7. CASE o = 0
  BY <1>2, <1>7
<1>8. CASE o # 0
  <2>1. o - 1 \in Nat /\ o - 1 < Len(t)
    BY <1>1, <1>8
  <2>2. o - 1 \in Good
    BY <1>6, <2>1
  <2>3. PICK b \in 0..(o - 1) : LeadsAt(b) /\ o - 1 < After(t, b)
    BY <2>1, <2>2
  <2>4. b \in 0..(Len(t) - 1) /\ b < o
    BY <1>1, <2>3
  <2>5. After(t, b) \in (b + 1)..Len(t) /\ After(t, b) <= o
    BY <2>4, AfterIs
  <2>6. After(t, b) = o
    BY <1>1, <2>3, <2>4, <2>5
  <2> QED BY <1>3, <2>3, <2>4, <2>6
<1> QED BY <1>7, <1>8

(***************************************************************************)
(* What a patch takes out.                                                 *)
(***************************************************************************)
\* The name that a token is decoded to is a text.
LEMMA ChildNameText ==
  ASSUME NEW t \in Text, Slashless(t)
  PROVE  DecodePointerInplace(t) \in Text
<1>1. CASE Tilde \in ToSet(t)
  <2>1. Len(t) \in Nat /\ Len(t) # 0
    BY <1>1, LenProperties DEF Text, ToSet
  <2> QED BY <2>1, DecodedToken
<1>2. CASE Tilde \notin ToSet(t)
  BY <1>2, UntildedIs, DecodesItself
<1> QED BY <1>1, <1>2

\* The index that a patch reads off the decoded token.
LEMMA DecodedIndex ==
  ASSUME NEW t \in Text, Slashless(t), ~(At(t, 0) \in Byte["1"]..Byte["9"] /\ Tilde \in ToSet(t))
  PROVE  IndexOf(TokenAt(DecodePointerInplace(t), 0)) = IndexOf(t)
<1>1. CASE Tilde \in ToSet(t)
  <2>1. Len(t) \in Nat /\ Len(t) # 0
    BY <1>1, LenProperties DEF Text, ToSet
  <2> QED BY <1>1, <2>1, DecodedToken
<1>2. CASE Tilde \notin ToSet(t)
  BY <1>2, UntildedIs, DecodesItself, SlashlessToken
<1> QED BY <1>1, <1>2

\* detach_path finds the child that JsonPatch says it does.
LEMMA DetachedIs ==
  ASSUME NEW d, WellFormed(d), Spelled(d), NEW a \in DOMAIN d, NEW tok \in Text, Slashless(tok),
         ~(At(tok, 0) \in Byte["1"]..Byte["9"] /\ Tilde \in ToSet(tok) /\ d[a].t = "array"), NEW b
  PROVE  b \in Detached(d, a, DecodePointerInplace(tok)) <=>
           \E k \in P!Detached(d, a, tok) : b = Append(a, k)
<1> DEFINE child == DecodePointerInplace(tok)
<1>1. CASE d[a].t = "array"
  <2> DEFINE index == IndexOf(tok)
  <2>1. Size(d, a) \in Nat /\ index \in Int
    BY <1>1, SizeIs, IndexOfInt DEF Container
  <2>2. Detached(d, a, child) = IF index \in 0..(Size(d, a) - 1) THEN {Append(a, index + 1)} ELSE {}
    BY <1>1, DecodedIndex DEF Detached, Element
  <2>3. P!Detached(d, a, tok) = {index + 1} \cap 1..Size(d, a)
    BY <1>1 DEF P!Detached, P!Size, Size, Text
  <2> HIDE DEF index, child
  <2>4. CASE index \in 0..(Size(d, a) - 1)
    <3>1. index + 1 \in 1..Size(d, a)
      BY <2>1, <2>4
    <3>2. P!Detached(d, a, tok) = {index + 1}
      BY <2>3, <3>1
    <3> QED BY <2>2, <2>4, <3>2 DEF child
  <2>5. CASE index \notin 0..(Size(d, a) - 1)
    <3>1. index + 1 \notin 1..Size(d, a)
      BY <2>1, <2>5
    <3>2. P!Detached(d, a, tok) = {}
      BY <2>3, <3>1
    <3> QED BY <2>2, <2>5, <3>2 DEF child
  <2> QED BY <2>4, <2>5
<1>2. CASE d[a].t = "object"
  <2> DEFINE fits == [k \in 1..Size(d, a) |-> ToLower(d[Append(a, k)].name) = ToLower(child)]
             same == {m \in Name : [n \in Seq(1..255) |-> ToLower(n)][m] = [n \in Seq(1..255) |-> ToLower(n)][child]}
  <2>1. Size(d, a) \in Nat /\ d[a].t \in Container
    BY <1>2, SizeIs DEF Container
  <2>2. child \in Text
    BY ChildNameText
  <2>3. P!Detached(d, a, tok) =
          {k \in 1..Size(d, a) : /\ d[Append(a, k)].name \in same
                                 /\ \A j \in 1..(k - 1) : d[Append(a, j)].name \notin same}
    BY <1>2 DEF P!Detached, P!FirstNamed, P!SameFold, P!Size, Size, Text
  <2>4. Detached(d, a, child) = ChildWith(d, a, fits)
    BY <1>2 DEF Detached, Homonym
  <2> HIDE DEF child
  <2>5. \A k \in 1..Size(d, a) : fits[k] <=> d[Append(a, k)].name \in same
    <3>1. ASSUME NEW k \in 1..Size(d, a)
          PROVE  ToLower(d[Append(a, k)].name) = ToLower(child) <=> d[Append(a, k)].name \in same
      <4>1. d[Append(a, k)].name \in Text /\ d[Append(a, k)].name \in Name
        BY <1>2, NameIs
      <4> QED BY <2>2, <4>1 DEF Text
    <3> QED BY <3>1
  <2> HIDE DEF fits, same
  <2>6. \A k \in 1..Size(d, a) :
          k \in P!Detached(d, a, tok) <=> fits[k] /\ \A j \in 1..(k - 1) : ~fits[j]
    <3>1. \A k \in 1..Size(d, a) : \A j \in 1..(k - 1) : j \in 1..Size(d, a)
      BY <2>1
    <3> QED BY <2>3, <2>5, <3>1
  <2>7. \A k \in P!Detached(d, a, tok) : k \in 1..Size(d, a)
    BY <2>3
  <2>8. b \in ChildWith(d, a, fits) <=>
          \E k \in 1..Size(d, a) : fits[k] /\ (\A j \in 1..(k - 1) : ~fits[j]) /\ b = Append(a, k)
    BY <2>1, ChildWithIs
  <2> QED BY <2>4, <2>6, <2>7, <2>8 DEF child
<1>3. CASE d[a].t \notin Container
  BY <1>3 DEF Detached, Container, P!Detached
<1> QED BY <1>1, <1>2, <1>3 DEF Container

(***************************************************************************)
(* A pointer that does not begin with a slash is not followed.             *)
(***************************************************************************)
LeadInv ==
  At(pointer, 0) # Slash =>
    /\ mode = "find"  => rest = pointer /\ at = {Root}
    /\ mode = "found" => found = {Root}
    /\ mode = "hold"  => LastSlash # 0 /\ rest = Slice(pointer, 0, LastSlash - 1) /\ at = {Root}
    /\ mode = "taken" => /\ LastSlash # 0 /\ at = {Root}
                         /\ taken = UNION {Detached(call.doc, a, DecodePointerInplace(From(pointer, LastSlash))) : a \in at}

LEMMA LeadNotFollowed ==
  ASSUME TypeInv, LeadInv, At(pointer, 0) # Slash
  PROVE  ~HasToken
<1> SUFFICES ASSUME HasToken PROVE FALSE
  OBVIOUS
<1>1. Asked /\ pointer \in Text /\ Len(pointer) \in Nat /\ mode \in {"find", "hold"} /\ At(rest, 0) = Slash
  BY AskedIs DEF TypeInv, Asked, HasToken, Following
<1>2. CASE mode = "find"
  BY <1>1, <1>2 DEF LeadInv
<1>3. CASE mode = "hold"
  <2> DEFINE e == LastSlash - 1
             s == Slice(pointer, 0, e)
  <2>1. rest = s /\ e \in 0..Len(pointer)
    BY <1>1, <1>3, LastSlashIs DEF LeadInv
  <2>2. /\ s \in Text /\ Len(s) = e - 0
        /\ \A l \in 0..(e - 0 - 1) : At(s, l) = At(pointer, 0 + l)
    BY <1>1, <2>1, TextSlice
  <2> HIDE DEF s, e
  <2>3. 0 < Len(s)
    <3>1. At(s, 0) # NUL
      BY <1>1, <2>1, Signs
    <3> QED BY <2>2, <3>1, TextAt
  <2>4. 0 \in 0..(e - 0 - 1) /\ 0 + 0 = 0
    BY <2>1, <2>2, <2>3
  <2>5. At(s, 0) = At(pointer, 0)
    BY <2>2, <2>4
  <2> QED BY <1>1, <2>1, <2>5
<1> QED BY <1>1, <1>2, <1>3

LEMMA LeadStep == TypeInv /\ LookupInv /\ LeadInv /\ [Next]_vars => LeadInv'
<1> SUFFICES ASSUME TypeInv, LookupInv, LeadInv, [Next]_vars, (At(pointer, 0) # Slash)' PROVE LeadInv'
  BY DEF LeadInv
<1>1. CASE Ask \/ ReadDot \/ ReadQuoted \/ ReadIndex \/ ReadName \/ RejectBracket \/ Reply
  <2>1. mode' \in {"convert", "rejected", "idle"}
    BY <1>1 DEF Ask, ReadDot, ReadQuoted, ReadIndex, ReadName, RejectBracket, Reply, Convert, Converting
  <2> QED BY <2>1 DEF LeadInv
<1>2. CASE TakeOver \/ Converted
  BY <1>2 DEF TakeOver, Converted, Follow, LeadInv
<1>3. CASE RootSign
  BY <1>3 DEF RootSign, Follow, LeadInv, LookupInv
<1>4. CASE FollowElement \/ FollowMember \/ FollowScalar
  <2>1. HasToken /\ pointer' = pointer
    BY <1>4 DEF FollowElement, FollowMember, FollowScalar, Step
  <2> QED BY <2>1, LeadNotFollowed
<1>5. CASE Find
  BY <1>5 DEF Find, LeadInv
<1>6. CASE SplitPointer
  <2>1. LastSlash' = LastSlash
    BY <1>6, LastSlashSame DEF SplitPointer
  <2> QED BY <1>6, <2>1 DEF SplitPointer, Follow, LeadInv
<1>7. CASE Detach
  <2>1. LastSlash' = LastSlash
    BY <1>7, LastSlashSame DEF Detach
  <2> QED BY <1>7, <2>1 DEF Detach, LeadInv
<1>8. CASE UNCHANGED vars
  <2>1. LastSlash' = LastSlash
    BY <1>8, LastSlashSame DEF vars
  <2> QED BY <1>8, <2>1 DEF vars, LeadInv
<1> QED BY <1>1, <1>2, <1>3, <1>4, <1>5, <1>6, <1>7, <1>8 DEF Next

LEMMA LeadInvariant == Spec => [](TypeInv /\ LookupInv /\ LeadInv)
<1>1. Init => LeadInv
  BY DEF Init, LeadInv
<1> QED BY <1>1, LeadStep, LookupInvariant, PTL DEF Spec

(***************************************************************************)
(* Walking the bytes of a pointer and walking its tokens.                  *)
(***************************************************************************)
LEMMA CallSpelled == ASSUME Asked PROVE Spelled(call.doc)
BY CallsAssumption DEF Asked, Spelled, Text

\* What the whole pointer leads to.
LEMMA FoundResolves ==
  ASSUME TypeInv, LookupInv, LeadInv, mode = "found"
  PROVE  found = P!GetPointer(call.doc, AsPointer)
<1>1. Asked /\ pointer \in Text /\ WellFormed(call.doc) /\ Spelled(call.doc) /\ Len(pointer) \in Nat
  BY AskedIs, CallSpelled DEF TypeInv, Asked
<1>2. PICK T : Tokened(T, pointer)
  BY <1>1, TokensExist
<1>3. P!GetPointer(call.doc, AsPointer) =
        IF At(pointer, 0) \notin {NUL, Slash} THEN {Root} ELSE Resolved(call.doc, Tokens(pointer))
  BY DEF P!GetPointer, AsPointer, Resolved, Root, P!Root
<1>4. CASE At(pointer, 0) = Slash
  <2>1. PICK W \in Places : Trail(call.doc, pointer, W, Len(pointer)) /\ found = W[Len(pointer)]
    BY <1>4 DEF LookupInv, FoundInv
  <2>2. Edge(pointer, Len(pointer))
    BY <1>1 DEF Edge
  <2>3. W[Len(pointer)] = Resolved(call.doc, T[Len(pointer)])
    BY <1>1, <1>2, <1>4, <2>1, <2>2, TrailResolves
  <2> QED BY <1>2, <1>3, <1>4, <2>1, <2>3 DEF Tokened
<1>5. CASE At(pointer, 0) = NUL
  <2>1. Len(pointer) = 0
    BY <1>1, <1>5, TextAt
  <2>2. Tokens(pointer) = <<>>
    BY <1>2, <2>1 DEF Tokened
  <2>3. found = {Root}
    BY <1>5, Signs DEF LeadInv
  <2> QED BY <1>1, <1>3, <1>5, <2>2, <2>3, ResolvedRoot
<1>6. CASE At(pointer, 0) \notin {NUL, Slash}
  BY <1>3, <1>6 DEF LeadInv
<1> QED BY <1>4, <1>5, <1>6

\* What the pointer leads to up to its last slash.
LEMMA HolderIs ==
  ASSUME TypeInv, LookupInv, LeadInv, mode = "taken"
  PROVE  /\ P!Holder(call.doc, AsPointer) = at /\ P!LastTok(AsPointer) = LastToken
         /\ LastSlash # 0
         /\ taken = UNION {Detached(call.doc, a, DecodePointerInplace(LastToken)) : a \in at}
<1>1. Asked /\ pointer \in Text /\ WellFormed(call.doc) /\ Spelled(call.doc) /\ Len(pointer) \in Nat
  BY AskedIs, CallSpelled DEF TypeInv, Asked
<1>2. PICK T : Tokened(T, pointer)
  BY <1>1, TokensExist
<1>3. /\ LastSlash # 0
      /\ taken = UNION {Detached(call.doc, a, DecodePointerInplace(LastToken)) : a \in at}
  BY DEF LookupInv, TakenInv, LeadInv, LastToken
<1> DEFINE e == LastSlash - 1
           front == T[e]
<1>4. /\ e \in 0..(Len(pointer) - 1) /\ At(pointer, e) = Slash /\ After(pointer, e) = Len(pointer)
      /\ TokenAt(pointer, e + 1) = LastToken /\ LastToken \in Text
  BY <1>1, <1>3, LastTokenIs
<1> HIDE DEF e
<1>5. Tokens(pointer) = Append(front, LastToken) /\ front \in Seq(Text)
  <2>1. T[After(pointer, e)] = Append(T[e], TokenAt(pointer, e + 1))
    BY <1>1, <1>2, <1>4, TokenedAfter
  <2>2. e \in 0..Len(pointer)
    BY <1>1, <1>4
  <2> QED BY <1>2, <1>4, <2>1, <2>2 DEF Tokened
<1>6. at = IF At(pointer, 0) = Slash THEN Resolved(call.doc, front) ELSE {Root}
  <2>1. CASE At(pointer, 0) = Slash
    <3>1. PICK W \in Places : Trail(call.doc, pointer, W, Len(pointer)) /\ at = W[e]
      BY <2>1 DEF LookupInv, TakenInv, e
    <3>2. Edge(pointer, e)
      BY <1>1, <1>4 DEF Edge
    <3> QED BY <1>1, <1>2, <2>1, <3>1, <3>2, TrailResolves
  <2>2. CASE At(pointer, 0) # Slash
    BY <2>2 DEF LeadInv
  <2> QED BY <2>1, <2>2
<1>7. At(pointer, 0) # NUL
  BY <1>1, <1>4, TextAt
<1> HIDE DEF front
<1>8. /\ Len(front) \in Nat /\ Len(Tokens(pointer)) = Len(front) + 1 /\ Tokens(pointer) # <<>>
      /\ Tokens(pointer)[Len(front) + 1] = LastToken
      /\ \A j \in 1..Len(front) : Tokens(pointer)[j] = front[j]
      /\ front = [j \in 1..Len(front) |-> front[j]]
  BY <1>4, <1>5, AppendProperties, LenProperties
<1>9. P!Prefix(Tokens(pointer), Len(Tokens(pointer)) - 1) = front
  <2>1. Len(Tokens(pointer)) - 1 = Len(front)
    BY <1>8
  <2>2. P!Prefix(Tokens(pointer), Len(front)) = [j \in 1..Len(front) |-> Tokens(pointer)[j]]
    BY DEF P!Prefix
  <2>3. [j \in 1..Len(front) |-> Tokens(pointer)[j]] = [j \in 1..Len(front) |-> front[j]]
    BY <1>8
  <2> QED BY <1>8, <2>1, <2>2, <2>3
<1>10. AsPointer.toks = Tokens(pointer) /\ (AsPointer.lead <=> At(pointer, 0) # Slash)
       /\ [AsPointer EXCEPT !.toks = front] = [lead |-> AsPointer.lead, toks |-> front]
  <2> DEFINE lead == At(pointer, 0) \notin {NUL, Slash}
  <2>1. lead <=> At(pointer, 0) # Slash
    BY <1>7
  <2>2. AsPointer = [lead |-> lead, toks |-> Tokens(pointer)]
    BY DEF AsPointer
  <2> HIDE DEF lead
  <2>3. AsPointer.toks = Tokens(pointer) /\ AsPointer.lead = lead
    BY <2>2
  <2>4. [AsPointer EXCEPT !.toks = front] = [lead |-> AsPointer.lead, toks |-> front]
    BY <2>2
  <2> QED BY <2>1, <2>3, <2>4
<1>11. P!Holder(call.doc, AsPointer) = P!GetPointer(call.doc, [lead |-> AsPointer.lead, toks |-> front])
  BY <1>8, <1>9, <1>10 DEF P!Holder
<1>12. P!GetPointer(call.doc, [lead |-> AsPointer.lead, toks |-> front]) = at
  BY <1>6, <1>10 DEF P!GetPointer, Resolved, Root, P!Root
<1>13. P!LastTok(AsPointer) = LastToken
  BY <1>8, <1>10 DEF P!LastTok
<1> QED BY <1>3, <1>11, <1>12, <1>13

\* Walking the bytes of a pointer finds, and takes out, what JsonPatch says of
\* its tokens, for every document and every text: the tokens that a walk meets
\* are those between the slashes, a member is compared with the name that its
\* token is the escaped form of, and detach_path reads the last token as decoded.
\* (get_item_from_pointer, compare_pointers, detach_path)
THEOREM PointersFollowTokens == Spec => []FollowsLikeJsonPatch
<1>1. TypeInv /\ LookupInv /\ LeadInv => FollowsLikeJsonPatch
  <2> SUFFICES ASSUME TypeInv, LookupInv, LeadInv, mode = "taken",
                      ~ /\ At(LastToken, 0) \in Byte["1"]..Byte["9"] /\ Tilde \in ToSet(LastToken)
                        /\ \E a \in at : call.doc[a].t = "array"
               PROVE  taken = {Append(place[1], place[2]) : place \in P!DetachPath(call.doc, AsPointer)}
    BY FoundResolves DEF FollowsLikeJsonPatch
  <2>1. Asked /\ pointer \in Text /\ WellFormed(call.doc) /\ Spelled(call.doc) /\ at \subseteq DOMAIN call.doc
    BY AskedIs, CallSpelled DEF TypeInv, Asked, One
  <2>2. /\ P!Holder(call.doc, AsPointer) = at /\ P!LastTok(AsPointer) = LastToken /\ LastSlash # 0
        /\ taken = UNION {Detached(call.doc, a, DecodePointerInplace(LastToken)) : a \in at}
    BY HolderIs
  <2>3. LastToken \in Text /\ Slashless(LastToken)
    BY <2>1, <2>2, LastTokenIs
  <2>4. P!DetachPath(call.doc, AsPointer) =
          UNION {{<<a, k>> : k \in P!Detached(call.doc, a, LastToken)} : a \in at}
    BY <2>2 DEF P!DetachPath
  <2>5. ASSUME NEW b, NEW a \in at
        PROVE  b \in Detached(call.doc, a, DecodePointerInplace(LastToken)) <=>
                 \E k \in P!Detached(call.doc, a, LastToken) : b = Append(a, k)
    BY <2>1, <2>3, DetachedIs
  <2>6. ASSUME NEW b
        PROVE  b \in taken <=>
                 b \in {Append(place[1], place[2]) : place \in P!DetachPath(call.doc, AsPointer)}
    <3>1. b \in taken <=> \E a \in at : \E k \in P!Detached(call.doc, a, LastToken) : b = Append(a, k)
      BY <2>2, <2>5
    <3>2. b \in {Append(place[1], place[2]) : place \in P!DetachPath(call.doc, AsPointer)}
            <=> \E place \in P!DetachPath(call.doc, AsPointer) : b = Append(place[1], place[2])
      OBVIOUS
    <3>3. ASSUME NEW place \in P!DetachPath(call.doc, AsPointer), b = Append(place[1], place[2])
          PROVE  \E a \in at : \E k \in P!Detached(call.doc, a, LastToken) : b = Append(a, k)
      BY <2>4, <3>3
    <3>4. ASSUME NEW a \in at, NEW k \in P!Detached(call.doc, a, LastToken), b = Append(a, k)
          PROVE  \E place \in P!DetachPath(call.doc, AsPointer) : b = Append(place[1], place[2])
      <4>1. <<a, k>> \in P!DetachPath(call.doc, AsPointer)
        BY <2>4
      <4>2. b = Append(<<a, k>>[1], <<a, k>>[2])
        BY <3>4
      <4> QED BY <4>1, <4>2
    <3> QED BY <3>1, <3>2, <3>3, <3>4
  <2> QED BY <2>6
<1> QED BY <1>1, LeadInvariant, PTL
===============================================================================
