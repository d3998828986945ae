---------------------------- MODULE JsonTextProofs ----------------------------
(***************************************************************************)
(* Proofs about the parser and the printer, for every text, every document *)
(* and every size of the buffers.                                          *)
(***************************************************************************)
EXTENDS JsonText, JsonDocProofs

(***************************************************************************)
(* Bytes and sequences of them.                                            *)
(***************************************************************************)
Octets == Seq(0..255)

\* Two texts joined.
LEMMA OctetsConcat ==
  ASSUME NEW a \in Octets, NEW b \in Octets
  PROVE  /\ a \o b \in Octets /\ Len(a) \in Nat /\ Len(b) \in Nat
         /\ Len(a \o b) = Len(a) + Len(b)
BY ConcatProperties, LenProperties DEF Octets

\* The bytes of a joined text: those of the first, then those of the second.
LEMMA OctetsConcatAt ==
  ASSUME NEW a \in Octets, NEW b \in Octets, NEW k \in 0..(Len(a) + Len(b) - 1)
  PROVE  At(a \o b, k) = IF k < Len(a) THEN At(a, k) ELSE At(b, k - Len(a))
<1>1. /\ Len(a) \in Nat /\ Len(b) \in Nat /\ Len(a \o b) = Len(a) + Len(b)
      /\ \A i \in 1..(Len(a) + Len(b)) :
           (a \o b)[i] = IF i <= Len(a) THEN a[i] ELSE b[i - Len(a)]
  BY ConcatProperties, LenProperties DEF Octets
<1>2. (a \o b)[k + 1] = IF k + 1 <= Len(a) THEN a[k + 1] ELSE b[(k + 1) - Len(a)]
  BY <1>1
<1>3. (k + 1) - Len(a) = (k - Len(a)) + 1
  BY <1>1
<1> QED BY <1>1, <1>2, <1>3 DEF At

\* A slice of a text is a text.
LEMMA OctetsSlice ==
  ASSUME NEW t \in Octets, NEW i \in Nat, NEW j \in i..Len(t)
  PROVE  /\ Slice(t, i, j) \in Octets /\ Len(Slice(t, i, j)) = j - i
         /\ \A k \in 0..(j - i - 1) : At(Slice(t, i, j), k) = At(t, i + k)
BY SliceIs DEF Octets

\* The tail of a text is a text.
LEMMA OctetsFrom ==
  ASSUME NEW t \in Octets, NEW i \in Nat
  PROVE  /\ From(t, i) \in Octets
         /\ Len(From(t, i)) = IF i <= Len(t) THEN Len(t) - i ELSE 0
BY FromIs DEF Octets

(***************************************************************************)
(* How long what FlattenSeq puts together gets.                            *)
(***************************************************************************)
\* total sums up the lengths of the n sequences seqs over S.
Totals(total, n, seqs, S) ==
  /\ seqs \in [1..n -> Seq(S)]
  /\ total \in [0..n -> Nat] /\ total[0] = 0
  /\ \A i \in 1..n : total[i] = total[i - 1] + Len(seqs[i])

\* FlattenSeq has the bytes of all the sequences and the sum of their lengths.
LEMMA FlattenIs ==
  ASSUME NEW S, NEW n \in Nat, NEW seqs, NEW total, Totals(total, n, seqs, S)
  PROVE  FlattenSeq(seqs) \in Seq(S) /\ Len(FlattenSeq(seqs)) = total[n]
<1> DEFINE flat == CHOOSE f : Flattens(f, n, seqs)
<1> USE DEF Totals
<1>0. Len(seqs) = n
  OBVIOUS
<1>1. CASE n = 0
  <2>1. seqs = <<>>
    BY <1>1
  <2> QED BY <1>1, <2>1 DEF FlattenSeq
<1>2. CASE n # 0
  <2>1. FlattenSeq(seqs) = flat[n]
    BY <1>0, <1>2 DEF FlattenSeq, Flattens
  <2>2. \E f : Flattens(f, n, seqs)
    BY FlattenExists
  <2>3. Flattens(flat, n, seqs)
    BY <2>2
  <2> HIDE DEF flat
  <2>8. ASSUME NEW i \in 1..n
        PROVE  flat[i] = IF i = 1 THEN seqs[i] ELSE flat[i - 1] \o seqs[i]
    <3>1. i \in 1..n /\ n \in Nat /\ Flattens(flat, n, seqs)
      BY <2>3
    <3> QED BY ONLY <3>1, FlattenStep, SMT
  <2> DEFINE Good == {m \in Nat : m \in 1..n => flat[m] \in Seq(S) /\ Len(flat[m]) = total[m]}
  <2>4. 0 \in Good
    OBVIOUS
  <2>5. ASSUME NEW m \in Nat, m \in Good, m + 1 \in 1..n
        PROVE  flat[m + 1] \in Seq(S) /\ Len(flat[m + 1]) = total[m + 1]
    <3>0. m + 1 - 1 = m /\ (m + 1 = 1 <=> m = 0)
      OBVIOUS
    <3>1. flat[m + 1] = IF m = 0 THEN seqs[m + 1] ELSE flat[m] \o seqs[m + 1]
      BY <2>5, <3>0, <2>8, SMTT(30)
    <3>2. seqs[m + 1] \in Seq(S) /\ total[m + 1] = total[m] + Len(seqs[m + 1])
      BY <2>5, SMTT(30)
    <3>3. CASE m = 0
      BY <3>1, <3>2, <3>3, LenProperties
    <3>4. CASE m # 0
      <4>1. flat[m] \in Seq(S) /\ Len(flat[m]) = total[m]
        BY <2>5, <3>4
      <4>2. flat[m + 1] = flat[m] \o seqs[m + 1]
        BY <3>1, <3>4
      <4>3. /\ flat[m] \o seqs[m + 1] \in Seq(S)
            /\ Len(flat[m] \o seqs[m + 1]) = Len(flat[m]) + Len(seqs[m + 1])
        BY <3>2, <4>1, ConcatProperties
      <4> QED BY <3>2, <4>1, <4>2, <4>3
    <3> QED BY <3>3, <3>4
  <2>6. \A m \in Nat : m \in Good => m + 1 \in Good
    BY <2>5
  <2>7. n \in Good
    <3> HIDE DEF Good
    <3> QED BY <2>4, <2>6, Induction
  <2> QED BY <1>2, <2>1, <2>7
<1> QED BY <1>1, <1>2

(***************************************************************************)
(* What print_string_ptr writes.                                           *)
(***************************************************************************)
Controls == {8, 9, 10, 12, 13, 34, 92}

\* The bytes with an escape of two characters, and that second character.
LEMMA ShortIs == DOMAIN Short = Controls /\ \A b \in Controls : Short[b] \in 0..255
BY ByteValues DEF Short, Controls

\* Four bytes are a text of length four.
LEMMA FourOctets ==
  ASSUME NEW a \in 0..255, NEW b \in 0..255, NEW c \in 0..255, NEW d \in 0..255
  PROVE  <<a, b, c, d>> \in Octets /\ Len(<<a, b, c, d>>) = 4
BY DEF Octets

\* An escaped byte is as long as escape_characters counts for it.
LEMMA EscapedIs ==
  ASSUME NEW b \in 1..255
  PROVE  /\ EscapeCharacters(b) \in {0, 1, 5}
         /\ Escaped(b) \in Octets /\ Len(Escaped(b)) = 1 + EscapeCharacters(b)
<1>1. EscapeCharacters(b) = IF b \in Controls THEN 1 ELSE IF b < 32 THEN 5 ELSE 0
  BY ShortIs DEF EscapeCharacters
<1>2. CASE b \in Controls
  <2>1. Escaped(b) = <<Byte["\\"], Short[b]>>
    BY <1>2, ShortIs DEF Escaped
  <2>2. Byte["\\"] \in 0..255 /\ Short[b] \in 0..255
    BY <1>2, ShortIs, ByteValues
  <2> QED BY <1>1, <1>2, <2>1, <2>2 DEF Octets
<1>3. CASE b \notin Controls /\ b > 31
  <2>1. Escaped(b) = <<b>>
    BY <1>3, ShortIs DEF Escaped
  <2> QED BY <1>1, <1>3, <2>1 DEF Octets
<1>4. CASE b \notin Controls /\ ~(b > 31)
  <2> DEFINE lead == Bytes(<<"\\", "u", "0", "0">>)
             hex  == <<HexCharacter(b \div 16), HexCharacter(b % 16)>>
  <2>1. Escaped(b) = lead \o hex
    BY <1>4, ShortIs, SMTT(40) DEF Escaped
  <2>2. lead = <<Byte["\\"], Byte["u"], Byte["0"], Byte["0"]>>
    BY DEF Bytes
  <2>3. lead \in Octets /\ Len(lead) = 4
    <3> HIDE DEF lead
    <3>1. Byte["\\"] \in 0..255 /\ Byte["u"] \in 0..255 /\ Byte["0"] \in 0..255
      BY ByteValues
    <3>2. <<Byte["\\"], Byte["u"], Byte["0"], Byte["0"]>> \in Octets
          /\ Len(<<Byte["\\"], Byte["u"], Byte["0"], Byte["0"]>>) = 4
      BY ONLY <3>1, FourOctets, ZenonT(60)
    <3> QED BY ONLY <2>2, <3>2, Zenon
  <2>4. b \div 16 \in 0..15 /\ b % 16 \in 0..15
    OBVIOUS
  <2>5. \A n \in 0..15 : HexCharacter(n) \in 0..255
    BY ByteValues DEF HexCharacter
  <2>6. hex \in Octets /\ Len(hex) = 2
    BY <2>4, <2>5 DEF Octets
  <2> HIDE DEF lead, hex
  <2>7. lead \o hex \in Octets /\ Len(lead \o hex) = Len(lead) + Len(hex)
    BY <2>3, <2>6, OctetsConcat, Zenon
  <2> QED BY <1>1, <1>4, <2>1, <2>3, <2>6, <2>7
<1> QED BY <1>2, <1>3, <1>4

\* How often EscapeCharacters is n among the first i bytes.
Longer(s, i, n) == {j \in 1..i : EscapeCharacters(s[j]) = n}

\* One byte more is counted once, with the escape it needs.
LEMMA LongerNext ==
  ASSUME NEW s, NEW i \in Nat, NEW n
  PROVE  /\ Cardinality(Longer(s, i, n)) \in Nat
         /\ Cardinality(Longer(s, i + 1, n)) =
              Cardinality(Longer(s, i, n)) + IF EscapeCharacters(s[i + 1]) = n THEN 1 ELSE 0
<1> DEFINE L == Longer(s, i, n)
           M == Longer(s, i + 1, n)
<1>1. IsFiniteSet(L) /\ Cardinality(L) \in Nat
  <2>1. L \subseteq 1..i
    BY DEF Longer
  <2>2. IsFiniteSet(1..i)
    BY FS_Interval
  <2> HIDE DEF L
  <2> QED BY <2>1, <2>2, FS_Subset, FS_CardinalityType
<1>2. CASE EscapeCharacters(s[i + 1]) = n
  <2>1. M = L \cup {i + 1} /\ i + 1 \notin L
    BY <1>2 DEF Longer
  <2> HIDE DEF L, M
  <2>2. Cardinality(M) = Cardinality(L) + 1
    BY <1>1, <2>1, FS_AddElement
  <2> QED BY <1>1, <1>2, <2>2 DEF L, M
<1>3. CASE EscapeCharacters(s[i + 1]) # n
  <2>1. M = L
    BY <1>3 DEF Longer
  <2> QED BY <1>1, <1>3, <2>1
<1> QED BY <1>2, <1>3, <1>1

\* The length of what the first i bytes of s become.
Growth(s, i) == i + Cardinality(Longer(s, i, 1)) + 5 * Cardinality(Longer(s, i, 5))

\* The first loop of print_string_ptr counts what its second one writes.
LEMMA GrowthIs ==
  ASSUME NEW s \in CStrings
  PROVE  /\ Growth(s, 0) = 0
         /\ \A i \in 0..Len(s) : Growth(s, i) \in Nat
         /\ \A i \in 1..Len(s) : Growth(s, i) = Growth(s, i - 1) + Len(Escaped(s[i]))
         /\ OutputLength(s) = Growth(s, Len(s))
<1>1. Len(s) \in Nat /\ DOMAIN s = 1..Len(s) /\ \A j \in 1..Len(s) : s[j] \in 1..255
  BY ElementOfSeq, LenProperties DEF CStrings
<1>2. Growth(s, 0) = 0
  <2>1. Longer(s, 0, 1) = {} /\ Longer(s, 0, 5) = {}
    BY DEF Longer
  <2> QED BY <2>1, FS_EmptySet DEF Growth
<1>3. ASSUME NEW i \in Nat PROVE Growth(s, i) \in Nat
  <2>1. Cardinality(Longer(s, i, 1)) \in Nat /\ Cardinality(Longer(s, i, 5)) \in Nat
    BY LongerNext
  <2> QED BY <2>1 DEF Growth
<1>4. ASSUME NEW i \in 1..Len(s)
      PROVE  Growth(s, i) = Growth(s, i - 1) + Len(Escaped(s[i]))
  <2> DEFINE k == i - 1
             e == EscapeCharacters(s[i])
             one(j)  == Cardinality(Longer(s, j, 1))
             five(j) == Cardinality(Longer(s, j, 5))
  <2>1. k \in Nat /\ k + 1 = i
    BY <1>1
  <2>2. /\ one(k) \in Nat /\ five(k) \in Nat
        /\ one(k + 1) = one(k) + IF EscapeCharacters(s[k + 1]) = 1 THEN 1 ELSE 0
        /\ five(k + 1) = five(k) + IF EscapeCharacters(s[k + 1]) = 5 THEN 1 ELSE 0
    <3> HIDE DEF k
    <3> QED BY <2>1, LongerNext
  <2>3. e \in {0, 1, 5} /\ Len(Escaped(s[i])) = 1 + e
    BY <1>1, EscapedIs
  <2>4. Growth(s, i) = i + one(i) + 5 * five(i) /\ Growth(s, k) = k + one(k) + 5 * five(k)
    BY DEF Growth
  <2>5. /\ one(i) = one(k) + IF e = 1 THEN 1 ELSE 0
        /\ five(i) = five(k) + IF e = 5 THEN 1 ELSE 0
    BY <2>1, <2>2
  <2> HIDE DEF k, e, one, five
  <2>6. Growth(s, i) = Growth(s, k) + Len(Escaped(s[i]))
    BY ONLY <2>1, <2>2, <2>3, <2>4, <2>5, SMTT(30)
  <2> QED BY <2>6 DEF k
<1>5. OutputLength(s) = Growth(s, Len(s))
  BY <1>1 DEF OutputLength, Longer, Growth
<1> QED BY <1>1, <1>2, <1>3, <1>4, <1>5

\* print_string_ptr writes output_length and the two quotes and the NUL, no more.
LEMMA QuotedIs ==
  ASSUME NEW s \in CStrings
  PROVE  /\ OutputLength(s) \in Nat
         /\ Quoted(s) \in Octets /\ Len(Quoted(s)) = OutputLength(s) + 3
         /\ At(Quoted(s), OutputLength(s) + 2) = NUL
<1> DEFINE n     == Len(s)
           size  == Growth(s, n)
           total == [i \in 0..n |-> Growth(s, i)]
           seqs  == [j \in DOMAIN s |-> Escaped(s[j])]
           body  == FlattenSeq(seqs)
           mid   == Slice(body, 0, size)
           quote == <<Byte["quote"]>>
           end   == <<Byte["quote"], NUL>>
<1>1. n \in Nat /\ DOMAIN s = 1..n /\ \A j \in 1..n : s[j] \in 1..255
  BY ElementOfSeq, LenProperties DEF CStrings
<1>2. seqs \in [1..n -> Seq(0..255)] /\ \A j \in 1..n : seqs[j] = Escaped(s[j])
  BY <1>1, EscapedIs DEF Octets
<1>3. size \in Nat /\ OutputLength(s) = size
  BY <1>1, GrowthIs
<1>4. /\ total \in [0..n -> Nat] /\ total[0] = 0 /\ total[n] = size
      /\ \A i \in 1..n : total[i] = total[i - 1] + Len(seqs[i])
  <2>1. /\ Growth(s, 0) = 0 /\ \A i \in 0..n : Growth(s, i) \in Nat
        /\ \A i \in 1..n : Growth(s, i) = Growth(s, i - 1) + Len(Escaped(s[i]))
    BY GrowthIs
  <2> HIDE DEF n, seqs
  <2>2. \A i \in 1..n : total[i] = Growth(s, i) /\ total[i - 1] = Growth(s, i - 1)
    BY <1>1
  <2>3. \A i \in 1..n : total[i] = total[i - 1] + Len(seqs[i])
    <3> HIDE DEF total
    <3> QED BY <1>2, <2>1, <2>2
  <2>4. total \in [0..n -> Nat] /\ total[0] = Growth(s, 0) /\ total[n] = Growth(s, n)
    BY <1>1, <2>1
  <2> HIDE DEF total
  <2> QED BY <2>1, <2>3, <2>4 DEF n
<1> HIDE DEF n, total, seqs
<1>5. FlattenSeq(seqs) \in Seq(0..255) /\ Len(FlattenSeq(seqs)) = total[n]
  <2>1. n \in Nat /\ Totals(total, n, seqs, 0..255)
    BY <1>1, <1>2, <1>4 DEF Totals
  <2> QED BY <2>1, FlattenIs, Zenon
<1>6. body \in Octets /\ Len(body) = size
  BY <1>4, <1>5 DEF Octets
<1> HIDE DEF size, body
<1>7. mid \in Octets /\ Len(mid) = size
  <2>1. 0 \in Nat /\ size \in 0..Len(body) /\ size - 0 = size
    BY <1>3, <1>6
  <2>2. mid \in Octets /\ Len(mid) = size - 0
    BY <1>6, <2>1, OctetsSlice, Zenon
  <2> QED BY <2>1, <2>2
<1>8. /\ quote \in Octets /\ Len(quote) = 1
      /\ end \in Octets /\ Len(end) = 2 /\ At(end, 1) = NUL
  BY ByteValues DEF NUL, Octets, At
<1>9. Quoted(s) = (quote \o mid) \o end
  BY <1>3 DEF Quoted, body, seqs
<1> HIDE DEF mid, quote, end
<1>10. quote \o mid \in Octets /\ Len(quote \o mid) = Len(quote) + Len(mid)
  BY <1>7, <1>8, OctetsConcat, Zenon
<1> DEFINE head == quote \o mid
<1>11. head \in Octets /\ Len(head) = 1 + size
  BY <1>7, <1>8, <1>10
<1> HIDE DEF head
<1>12. head \o end \in Octets /\ Len(head \o end) = Len(head) + Len(end)
  BY <1>8, <1>11, OctetsConcat, Zenon
<1>13. At(head \o end, size + 2) = At(end, 1)
  <2>1. \A k \in 0..(Len(head) + Len(end) - 1) :
          At(head \o end, k) = IF k < Len(head) THEN At(head, k) ELSE At(end, k - Len(head))
    BY <1>8, <1>11, OctetsConcatAt, Zenon
  <2> DEFINE k == size + 2
  <2>2. k \in 0..(Len(head) + Len(end) - 1) /\ ~(k < Len(head)) /\ k - Len(head) = 1
    BY <1>3, <1>8, <1>11
  <2> HIDE DEF k
  <2>3. At(head \o end, k) = At(end, 1)
    BY <2>1, <2>2, Zenon
  <2> QED BY <2>3 DEF k
<1>14. Len(head \o end) = size + 3
  BY <1>3, <1>8, <1>11, <1>12
<1>15. Quoted(s) = head \o end
  BY <1>9 DEF head
<1> QED BY <1>3, <1>8, <1>12, <1>13, <1>14, <1>15, Zenon

(***************************************************************************)
(* The printer.                                                            *)
(***************************************************************************)
PrinterInv ==
  /\ printing \in PrinterStages
  /\ buffer \in Octets /\ length \in 0..MaxInt /\ filled \in 0..MaxInt
  /\ Len(buffer) <= length
  /\ printing # "failed" => filled <= Len(buffer)
  /\ printing \in {"after", "colon"} => \E j \in filled..(Len(buffer) - 1) : At(buffer, j) = NUL
  /\ IF printing = "idle" THEN item = <<>> /\ spot = Root /\ buffer = <<>> /\ filled = 0
     ELSE item \in Docs /\ spot \in DOMAIN item
  /\ printing \in {"key", "colon"} => spot # Root /\ item[Parent(spot)].t = "object"
  /\ printing = "close" => item[spot].t \in Container

\* What the printer reads of an item, and what WellFormed says it is.
LEMMA ShapeIs ==
  ASSUME NEW d, NEW a \in DOMAIN d
  PROVE  /\ DOMAIN Shape(d) = DOMAIN d
         /\ Shape(d)[a].t = d[a].t /\ Shape(d)[a].name = d[a].name
         /\ Shape(d)[a].n = IF d[a].t \in Container THEN d[a].n ELSE Len(d[a].text)
BY DEF Shape

\* The items of a document: their addresses, texts, children and names.
LEMMA DocIs ==
  ASSUME NEW d \in Docs, NEW a \in DOMAIN d
  PROVE  /\ a \in Address /\ d[a].text \in CStrings
         /\ d[a].t \in Container \cup Scalar
         /\ d[a].t \in Container => d[a].n \in Nat /\ \A i \in 1..d[a].n : Append(a, i) \in DOMAIN d
         /\ a # Root => /\ Parent(a) \in DOMAIN d /\ d[Parent(a)].t \in Container
                        /\ a[Len(a)] \in Position /\ a[Len(a)] <= d[Parent(a)].n
                        /\ d[Parent(a)].t = "object" => d[a].name \in CStrings
<1> DEFINE s == Shape(d)
<1>1. WellFormed(s) /\ d[a].text \in CStrings
  BY DocsAssumption
<1>2. /\ DOMAIN s = DOMAIN d
      /\ \A b \in DOMAIN d : /\ s[b].t = d[b].t /\ s[b].name = d[b].name
                             /\ d[b].t \in Container => s[b].n = d[b].n
  BY ShapeIs
<1> HIDE DEF s
<1>3. Labelled(s) /\ Counted(s) /\ Attached(s) /\ Titled(s)
  BY <1>1 DEF WellFormed
<1>4. a \in Address /\ s[a] \in Label /\ d[a].t \in Container \cup Scalar
  BY <1>2, <1>3 DEF Labelled, Label
<1>5. d[a].t \in Container => d[a].n \in Nat /\ \A i \in 1..d[a].n : Append(a, i) \in DOMAIN d
  BY <1>2, <1>3 DEF Counted
<1>6. ASSUME a # Root
      PROVE  /\ Parent(a) \in DOMAIN d /\ d[Parent(a)].t \in Container
             /\ a[Len(a)] <= d[Parent(a)].n
             /\ d[Parent(a)].t = "object" => d[a].name \in CStrings
  <2>1. Parent(a) \in DOMAIN s /\ s[Parent(a)].t \in Container /\ a[Len(a)] <= s[Parent(a)].n
    BY <1>2, <1>3, <1>6 DEF Attached
  <2>2. s[Parent(a)].t = "object" => s[a].name \in Name
    BY <1>2, <1>3, <1>6 DEF Titled
  <2> QED BY <1>2, <2>1, <2>2, TextsAssumption
<1>7. a # Root => a[Len(a)] \in Position
  BY <1>4, ParentAppend
<1> QED BY <1>1, <1>4, <1>5, <1>6, <1>7

\* A document has a root.
LEMMA RootIs ==
  ASSUME NEW d \in Docs
  PROVE  Root \in DOMAIN d
BY DocsAssumption DEF WellFormed, Rooted, Shape

\* What ensure returns is as long as it was asked for, unless it is 0.
LEMMA EnsureIs ==
  ASSUME NEW o \in Nat, NEW needed \in Nat, length \in 0..MaxInt, Ensure(o, needed) # 0
  PROVE  /\ Ensure(o, needed) \in 0..MaxInt
         /\ length <= Ensure(o, needed) /\ needed + o + 1 <= Ensure(o, needed)
<1> DEFINE total == needed + o + 1
<1>0. MaxInt \in Nat /\ total \in Nat /\ length \in Nat /\ MaxInt \div 2 \in Nat /\ 2 * (MaxInt \div 2) <= MaxInt
  BY SizesAssumption
<1>1. CASE o >= length \/ needed > MaxInt
  BY <1>0, <1>1 DEF Ensure
<1>2. CASE ~(o >= length \/ needed > MaxInt)
  <2>1. CASE total <= length
    <3>1. Ensure(o, needed) = length
      BY <1>0, <1>2, <2>1 DEF Ensure
    <3> QED BY <1>0, <2>1, <3>1
  <2>2. CASE total > length /\ total <= MaxInt \div 2
    <3>1. Ensure(o, needed) = 2 * total
      BY <1>0, <1>2, <2>2 DEF Ensure
    <3> QED BY <1>0, <2>2, <3>1
  <2>3. CASE total > length /\ total > MaxInt \div 2
    <3>1. Ensure(o, needed) = IF total <= MaxInt THEN MaxInt ELSE 0
      BY <1>0, <1>2, <2>3 DEF Ensure
    <3> QED BY <1>0, <2>3, <3>1
  <2> QED BY <1>0, <2>1, <2>2, <2>3
<1> QED BY <1>1, <1>2

\* What Emit leaves behind when it has room.
Emitted(o, bytes, advance) ==
  /\ buffer' \in Octets /\ length' \in 0..MaxInt /\ Len(buffer') <= length'
  /\ o + Len(bytes) <= Len(buffer')
  /\ filled' = o + advance /\ filled' \in 0..MaxInt
  /\ \A k \in 0..(Len(bytes) - 1) : At(buffer', o + k) = At(bytes, k)

\* Emit has written the bytes into a buffer that holds them, or failed and freed it.
LEMMA EmitIs ==
  ASSUME buffer \in Octets, length \in 0..MaxInt, filled \in 0..MaxInt,
         NEW o \in 0..Len(buffer), NEW needed \in Nat,
         NEW bytes \in Octets, Len(bytes) <= needed, NEW advance \in 0..Len(bytes),
         NEW a, NEW then, Len(buffer) <= length,
         Emit(o, needed, bytes, advance, a, then)
  PROVE  /\ item' = item
         /\ \/ /\ printing' = "failed" /\ buffer' = <<>> /\ length' = 0
               /\ UNCHANGED <<spot, filled>>
            \/ printing' = then /\ spot' = a /\ Emitted(o, bytes, advance)
<1> DEFINE size  == Ensure(o, needed)
           l     == Len(buffer)
           p     == Len(bytes)
           left  == Slice(buffer, 0, o)
           right == From(buffer, o + p)
           r     == Len(right)
           head  == left \o bytes
<1>1. CASE size = 0
  BY <1>1 DEF Emit
<1>2. CASE size # 0
  <2>1. /\ l \in Nat /\ p \in Nat /\ o \in Nat /\ o <= l /\ o + p \in Nat
        /\ MaxInt \in Nat /\ length \in Nat /\ l <= length /\ p <= needed /\ advance \in 0..p
    BY OctetsConcat, SizesAssumption
  <2>2. size \in 0..MaxInt /\ length <= size /\ needed + o + 1 <= size
    BY <1>2, <2>1, EnsureIs
  <2>3. left \in Octets /\ Len(left) = o
    BY <2>1, OctetsSlice
  <2>4. right \in Octets /\ r = IF o + p <= l THEN l - (o + p) ELSE 0
    BY <2>1, OctetsFrom, Zenon
  <2>5. /\ item' = item /\ buffer' = head \o right
        /\ length' = size /\ filled' = o + advance /\ spot' = a /\ printing' = then
    BY <1>2 DEF Emit
  <2> HIDE DEF size, l, left, right, r
  <2>6. r \in Nat /\ o + p + r >= l /\ (r = 0 \/ o + p + r = l)
    <3> HIDE DEF p
    <3> QED BY ONLY <2>1, <2>4
  <2>7. head \in Octets /\ Len(head) = Len(left) + Len(bytes)
    BY <2>3, OctetsConcat, Zenon
  <2>8. \A k \in 0..(Len(left) + Len(bytes) - 1) :
          At(head, k) = IF k < Len(left) THEN At(left, k) ELSE At(bytes, k - Len(left))
    BY <2>3, OctetsConcatAt, Zenon
  <2> HIDE DEF head, p
  <2>9. Len(head) = o + p
    BY <2>3, <2>7 DEF p
  <2>10. buffer' \in Octets /\ Len(buffer') = Len(head) + Len(right)
    BY <2>4, <2>5, <2>7, OctetsConcat, Zenon
  <2>11. \A k \in 0..(Len(head) + Len(right) - 1) :
           At(buffer', k) = IF k < Len(head) THEN At(head, k) ELSE At(right, k - Len(head))
    BY <2>4, <2>5, <2>7, OctetsConcatAt, Zenon
  <2>12. ASSUME NEW k \in 0..(p - 1) PROVE At(buffer', o + k) = At(bytes, k)
    <3> DEFINE m == o + k
    <3>1. /\ m \in 0..(o + p - 1) /\ ~(m < o) /\ m - o = k
          /\ m \in 0..(o + p + r - 1) /\ m < o + p
      BY <2>1, <2>6
    <3> HIDE DEF m
    <3>2. At(head, m) = At(bytes, k)
      BY <2>3, <2>8, <3>1, Zenon DEF p
    <3>3. At(buffer', m) = At(head, m)
      BY <2>9, <2>11, <3>1, Zenon DEF r
    <3> QED BY <3>2, <3>3 DEF m
  <2>13. Len(buffer') = o + p + r
    BY <2>9, <2>10 DEF r
  <2>14. /\ length' \in 0..MaxInt /\ Len(buffer') <= length' /\ o + p <= Len(buffer')
         /\ filled' \in 0..MaxInt
    BY <2>1, <2>2, <2>5, <2>6, <2>13
  <2> QED BY <2>5, <2>10, <2>12, <2>14 DEF Emitted, p
<1> QED BY <1>1, <1>2

\* So a step that asks ensure for what it writes keeps the invariant.
LEMMA EmitKeeps ==
  ASSUME PrinterInv, printing \notin {"idle", "failed"},
         NEW o \in 0..Len(buffer), NEW needed \in Nat,
         NEW bytes \in Octets, Len(bytes) <= needed, NEW advance \in 0..Len(bytes),
         NEW a \in DOMAIN item, NEW then \in PrinterStages \ {"idle", "failed"},
         then \in {"after", "colon"} => \E k \in advance..(Len(bytes) - 1) : At(bytes, k) = NUL,
         then \in {"key", "colon"} => a # Root /\ item[Parent(a)].t = "object",
         then = "close" => item[a].t \in Container,
         Emit(o, needed, bytes, advance, a, then)
  PROVE  PrinterInv'
<1>1. /\ buffer \in Octets /\ length \in 0..MaxInt /\ filled \in 0..MaxInt
      /\ Len(buffer) <= length /\ item \in Docs /\ spot \in DOMAIN item
  BY DEF PrinterInv
<1>2. /\ item' = item
      /\ \/ /\ printing' = "failed" /\ buffer' = <<>> /\ length' = 0
            /\ UNCHANGED <<spot, filled>>
         \/ printing' = then /\ spot' = a /\ Emitted(o, bytes, advance)
  BY <1>1, EmitIs, Zenon
<1>3. CASE printing' = "failed" /\ buffer' = <<>> /\ length' = 0 /\ UNCHANGED <<spot, filled>>
  <2>1. buffer' \in Octets /\ Len(buffer') = 0 /\ length' \in 0..MaxInt
    BY <1>3, SizesAssumption DEF Octets
  <2> QED BY <1>1, <1>2, <1>3, <2>1 DEF PrinterInv, PrinterStages
<1>4. CASE printing' = then /\ spot' = a /\ Emitted(o, bytes, advance)
  <2>1. /\ buffer' \in Octets /\ length' \in 0..MaxInt /\ Len(buffer') <= length'
        /\ o + Len(bytes) <= Len(buffer') /\ filled' = o + advance /\ filled' \in 0..MaxInt
        /\ \A k \in 0..(Len(bytes) - 1) : At(buffer', o + k) = At(bytes, k)
    BY <1>4 DEF Emitted
  <2>2. Len(buffer') \in Nat /\ Len(bytes) \in Nat /\ Len(buffer) \in Nat
    BY <1>1, <2>1, OctetsConcat
  <2> DEFINE l == Len(buffer')
             p == Len(bytes)
             q == Len(buffer)
  <2>3. /\ l \in Nat /\ p \in Nat /\ q \in Nat /\ o + p <= l /\ filled' = o + advance
        /\ o \in 0..q /\ advance \in 0..p
    BY <2>1, <2>2
  <2> HIDE DEF l, p, q
  <2>4. filled' <= l
    BY <2>3
  <2>5. ASSUME then \in {"after", "colon"}
        PROVE  \E j \in filled'..(l - 1) : At(buffer', j) = NUL
    <3>1. PICK k \in advance..(p - 1) : At(bytes, k) = NUL
      BY <2>5 DEF p
    <3>2. k \in 0..(p - 1) /\ o + k \in filled'..(l - 1)
      BY <2>3
    <3>3. At(buffer', o + k) = NUL
      BY <2>1, <3>1, <3>2 DEF p
    <3> QED BY <3>2, <3>3
  <2> QED BY <1>1, <1>2, <1>4, <2>1, <2>4, <2>5 DEF PrinterInv, l
<1> QED BY <1>2, <1>3, <1>4

\* update_offset stops inside the buffer, and at a NUL where the text has its end.
LEMMA MeasuredIs ==
  ASSUME PrinterInv, printing # "failed"
  PROVE  /\ Measured \in 0..Len(buffer)
         /\ printing \in {"after", "colon"} => Measured < Len(buffer)
<1> DEFINE l == Len(buffer)
<1>1. buffer \in Seq(0..255) /\ filled \in Nat /\ l \in Nat /\ filled <= l
  BY OctetsConcat, SizesAssumption DEF PrinterInv, Octets
<1>2. /\ Measured \in filled..l
      /\ \A j \in filled..(Measured - 1) : At(buffer, j) \notin {NUL}
  BY <1>1, IndexFromIs DEF Measured
<1>3. ASSUME printing \in {"after", "colon"} PROVE Measured # l
  <2>1. PICK j \in filled..(l - 1) : At(buffer, j) = NUL
    BY <1>3 DEF PrinterInv
  <2> QED BY <1>1, <1>2, <2>1
<1> HIDE DEF l
<1>4. Measured \in 0..l /\ (printing \in {"after", "colon"} => Measured < l)
  BY <1>1, <1>2, <1>3
<1> QED BY <1>4 DEF l

\* A string with the NUL behind it.
LEMMA CStringIs ==
  ASSUME NEW s \in CStrings
  PROVE  /\ s \in Octets /\ Len(s) \in Nat
         /\ Append(s, NUL) \in Octets /\ Len(Append(s, NUL)) = Len(s) + 1
         /\ At(Append(s, NUL), Len(s)) = NUL
<1>1. s \in Seq(0..255) /\ Len(s) \in Nat /\ NUL \in 0..255
  <2>1. DOMAIN s = 1..Len(s) /\ Len(s) \in Nat /\ \A j \in 1..Len(s) : s[j] \in 1..255
    BY ElementOfSeq, LenProperties DEF CStrings
  <2> QED BY <2>1 DEF CStrings, NUL
<1>2. /\ Append(s, NUL) \in Seq(0..255) /\ Len(Append(s, NUL)) = Len(s) + 1
      /\ Append(s, NUL)[Len(s) + 1] = NUL
  BY <1>1, AppendProperties
<1> QED BY <1>1, <1>2 DEF Octets, At

\* Short texts.
LEMMA OneOctet ==
  ASSUME NEW a \in 0..255
  PROVE  /\ <<a>> \in Octets /\ Len(<<a>>) = 1 /\ At(<<a>>, 0) = a
         /\ <<a, NUL>> \in Octets /\ Len(<<a, NUL>>) = 2 /\ At(<<a, NUL>>, 1) = NUL
BY DEF Octets, NUL, At

\* print_value of a literal, print_number and print_string.
LEMMA PrintScalars ==
  ASSUME PrinterInv, PrintLiteral \/ PrintNumber \/ PrintString
  PROVE  PrinterInv'
<1>1. /\ printing = "value" /\ item \in Docs /\ spot \in DOMAIN item
      /\ filled \in 0..Len(buffer)
  <2>1. printing = "value" /\ filled \in 0..MaxInt /\ filled <= Len(buffer) /\ buffer \in Octets
    BY DEF PrinterInv, PrintLiteral, PrintNumber, PrintString
  <2> QED BY <2>1, OctetsConcat, SizesAssumption DEF PrinterInv
<1> DEFINE s == item[spot].text
           p == Len(s)
<1>2. s \in CStrings
  BY <1>1, DocIs
<1>3. /\ p \in Nat /\ p + 1 \in Nat /\ Append(s, NUL) \in Octets /\ Len(Append(s, NUL)) = p + 1
      /\ At(Append(s, NUL), p) = NUL
  BY <1>2, CStringIs
<1>4. /\ OutputLength(s) \in Nat
      /\ Quoted(s) \in Octets /\ Len(Quoted(s)) = OutputLength(s) + 3
      /\ At(Quoted(s), OutputLength(s) + 2) = NUL
  BY <1>2, QuotedIs
<1>5. "after" \in PrinterStages \ {"idle", "failed"} /\ "after" \notin {"key", "colon"} /\ "after" # "close"
  BY DEF PrinterStages
<1> HIDE DEF s
<1>6. CASE PrintLiteral
  <2>1. Emit(filled, p + 1, Append(s, NUL), 0, spot, "after")
    BY <1>6 DEF PrintLiteral, s
  <2>2. Len(Append(s, NUL)) <= p + 1 /\ 0 \in 0..Len(Append(s, NUL)) /\ p \in 0..(Len(Append(s, NUL)) - 1)
    <3> HIDE DEF p
    <3> QED BY <1>3
  <2> HIDE DEF p
  <2> QED BY <1>1, <1>3, <1>5, <2>1, <2>2, EmitKeeps
<1>7. CASE PrintNumber
  <2>1. Emit(filled, p + 1, Append(s, NUL), p, spot, "after")
    BY <1>7 DEF PrintNumber, s
  <2>2. Len(Append(s, NUL)) <= p + 1 /\ p \in 0..Len(Append(s, NUL)) /\ p \in p..(Len(Append(s, NUL)) - 1)
    <3> HIDE DEF p
    <3> QED BY <1>3
  <2> HIDE DEF p
  <2> QED BY <1>1, <1>3, <1>5, <2>1, <2>2, EmitKeeps
<1>8. CASE PrintString
  <2> DEFINE q == OutputLength(s) + 3
             k == OutputLength(s) + 2
  <2>1. Emit(filled, q, Quoted(s), 0, spot, "after")
    BY <1>8 DEF PrintString, s
  <2>2. q \in Nat /\ k \in 0..(q - 1)
    BY <1>4
  <2>4. Quoted(s) \in Octets /\ Len(Quoted(s)) = q /\ At(Quoted(s), k) = NUL
    BY <1>4, Zenon
  <2> HIDE DEF q, k
  <2>3. Len(Quoted(s)) <= q /\ 0 \in 0..Len(Quoted(s)) /\ k \in 0..(Len(Quoted(s)) - 1)
    BY <2>2, <2>4
  <2> QED BY <1>1, <1>5, <2>1, <2>2, <2>3, <2>4, EmitKeeps
<1> QED BY <1>6, <1>7, <1>8

\* The opening and closing brackets of print_array and print_object.
LEMMA PrintBrackets ==
  ASSUME PrinterInv, PrintOpening \/ PrintClosing
  PROVE  PrinterInv'
<1>1. /\ printing \in {"value", "close"} /\ item \in Docs /\ spot \in DOMAIN item
      /\ filled \in 0..Len(buffer)
  <2>1. printing \in {"value", "close"} /\ filled \in 0..MaxInt /\ filled <= Len(buffer) /\ buffer \in Octets
    BY DEF PrinterInv, PrintOpening, PrintClosing
  <2> QED BY <2>1, OctetsConcat, SizesAssumption DEF PrinterInv
<1>2. /\ Byte["["] \in 0..255 /\ Byte["]"] \in 0..255 /\ Byte["lbrace"] \in 0..255 /\ Byte["rbrace"] \in 0..255
  BY ByteValues
<1>3. CASE PrintOpening
  <2> DEFINE inside == IF Size(item, spot) = 0 THEN spot ELSE Append(spot, 1)
             next(stage) == IF Size(item, spot) = 0 THEN "close" ELSE stage
  <2>1. Kind \in Container /\ spot \in Address /\ item[spot].n \in Nat
    BY <1>1, <1>3, DocIs DEF PrintOpening, Kind, Container
  <2>2. inside \in DOMAIN item
    <3>1. Size(item, spot) # 0 => Append(spot, 1) \in DOMAIN item
      BY <1>1, <2>1, DocIs DEF Kind, Size
    <3> QED BY <1>1, <3>1
  <2>3. Size(item, spot) # 0 => inside # Root /\ Parent(inside) = spot
    BY <2>1, AppendParent DEF Position
  <2>4. CASE Kind = "array" /\ Emit(filled, 1, <<Byte["["]>>, 1, inside, next("value"))
    <3>1. /\ next("value") \in PrinterStages \ {"idle", "failed"} /\ next("value") \notin {"after", "colon", "key"}
          /\ next("value") = "close" => item[inside].t \in Container
      BY <2>1 DEF PrinterStages, Kind
    <3>2. <<Byte["["]>> \in Octets /\ Len(<<Byte["["]>>) = 1
      BY <1>2, OneOctet, Zenon
    <3>3. Len(<<Byte["["]>>) <= 1 /\ 1 \in 0..Len(<<Byte["["]>>)
      BY <3>2
    <3> HIDE DEF inside, next
    <3> QED BY <1>1, <2>2, <2>4, <3>1, <3>2, <3>3, EmitKeeps
  <2>5. CASE Kind = "object" /\ Emit(filled, 2, <<Byte["lbrace"]>>, 1, inside, next("key"))
    <3>1. /\ next("key") \in PrinterStages \ {"idle", "failed"} /\ next("key") \notin {"after", "colon"}
          /\ next("key") = "close" => item[inside].t \in Container
          /\ next("key") = "key" => inside # Root /\ item[Parent(inside)].t = "object"
      BY <2>1, <2>3, <2>5 DEF PrinterStages, Kind
    <3>2. <<Byte["lbrace"]>> \in Octets /\ Len(<<Byte["lbrace"]>>) = 1
      BY <1>2, OneOctet, Zenon
    <3>3. Len(<<Byte["lbrace"]>>) <= 2 /\ 1 \in 0..Len(<<Byte["lbrace"]>>)
      BY <3>2
    <3> HIDE DEF inside, next
    <3> QED BY <1>1, <2>2, <2>5, <3>1, <3>2, <3>3, EmitKeeps
  <2> QED BY <1>3, <2>4, <2>5 DEF PrintOpening
<1>4. CASE PrintClosing
  <2> DEFINE b == IF Kind = "array" THEN Byte["]"] ELSE Byte["rbrace"]
  <2>1. Emit(filled, 2, <<b, NUL>>, 0, spot, "after")
    BY <1>4 DEF PrintClosing
  <2>2. /\ <<b, NUL>> \in Octets /\ Len(<<b, NUL>>) = 2 /\ At(<<b, NUL>>, 1) = NUL
    BY <1>2, OneOctet
  <2> HIDE DEF b
  <2>3. Len(<<b, NUL>>) <= 2 /\ 0 \in 0..Len(<<b, NUL>>) /\ 1 \in 0..(Len(<<b, NUL>>) - 1)
    BY <2>2
  <2>4. "after" \in PrinterStages \ {"idle", "failed"} /\ "after" \notin {"key", "colon"} /\ "after" # "close"
    BY DEF PrinterStages
  <2> QED BY <1>1, <2>1, <2>2, <2>3, <2>4, EmitKeeps
<1> QED BY <1>3, <1>4

\* The name of a member and the colon behind it.
LEMMA PrintNames ==
  ASSUME PrinterInv, PrintKey \/ PrintColon
  PROVE  PrinterInv'
<1>1. /\ printing \in {"key", "colon"} /\ item \in Docs /\ spot \in DOMAIN item
      /\ spot # Root /\ item[Parent(spot)].t = "object"
  BY DEF PrinterInv, PrintKey, PrintColon
<1>2. CASE PrintKey
  <2> DEFINE s == item[spot].name
             q == OutputLength(s) + 3
             k == OutputLength(s) + 2
  <2>1. Emit(filled, q, Quoted(s), 0, spot, "colon")
    BY <1>2 DEF PrintKey
  <2>2. s \in CStrings
    BY <1>1, DocIs
  <2> HIDE DEF s
  <2>3. /\ OutputLength(s) \in Nat /\ Quoted(s) \in Octets
        /\ Len(Quoted(s)) = q /\ At(Quoted(s), k) = NUL
    BY <2>2, QuotedIs, Zenon
  <2>4. q \in Nat /\ k \in 0..(q - 1)
    BY <2>3
  <2> HIDE DEF q, k
  <2>5. Len(Quoted(s)) <= q /\ 0 \in 0..Len(Quoted(s)) /\ k \in 0..(Len(Quoted(s)) - 1)
    BY <2>3, <2>4
  <2>6. filled \in 0..Len(buffer)
    BY <1>1, OctetsConcat, SizesAssumption DEF PrinterInv
  <2>7. "colon" \in PrinterStages \ {"idle", "failed"} /\ "colon" # "close"
    BY DEF PrinterStages
  <2> QED BY <1>1, <2>1, <2>3, <2>4, <2>5, <2>6, <2>7, EmitKeeps
<1>3. CASE PrintColon
  <2>1. Emit(Measured, 1, <<Byte[":"]>>, 1, spot, "value") /\ printing = "colon"
    BY <1>3 DEF PrintColon
  <2>2. Measured \in 0..Len(buffer)
    BY <2>1, MeasuredIs
  <2>3. <<Byte[":"]>> \in Octets /\ Len(<<Byte[":"]>>) = 1
    <3>1. Byte[":"] \in 0..255
      BY ByteValues
    <3> QED BY <3>1, OneOctet, Zenon
  <2>4. Len(<<Byte[":"]>>) <= 1 /\ 1 \in 0..Len(<<Byte[":"]>>)
    BY <2>3
  <2>5. "value" \in PrinterStages \ {"idle", "failed"} /\ "value" \notin {"after", "colon", "key", "close"}
    BY DEF PrinterStages
  <2> QED BY <1>1, <2>1, <2>2, <2>3, <2>4, <2>5, EmitKeeps
<1> QED BY <1>2, <1>3

\* item->next is a child of the same container.
LEMMA NextSpotIs ==
  ASSUME item \in Docs, spot \in DOMAIN item, spot # Root, HasNext
  PROVE  NextSpot \in DOMAIN item /\ NextSpot # Root /\ Parent(NextSpot) = Parent(spot)
<1> DEFINE p == Parent(spot)
           i == spot[Len(spot)]
<1>1. /\ spot \in Address /\ p \in DOMAIN item /\ item[p].t \in Container
      /\ i \in Position /\ i < item[p].n
  BY DocIs DEF HasNext
<1>2. /\ p \in Address /\ item[p].n \in Nat /\ \A j \in 1..item[p].n : Append(p, j) \in DOMAIN item
  BY <1>1, DocIs
<1>3. NextSpot = Append(p, i + 1)
  <2>1. Len(spot) \in Nat /\ spot # <<>> /\ spot = [j \in 1..Len(spot) |-> spot[j]] /\ Len(spot) # 0
    BY <1>1, LenProperties, EmptySeq, ElementOfSeq DEF Address, Root
  <2>2. p = [j \in 1..(Len(spot) - 1) |-> spot[j]]
    BY DEF Parent, Prefix
  <2> DEFINE n == Len(spot)
             q == Append(p, i + 1)
  <2>3. Len(p) = n - 1 /\ \A j \in 1..(n - 1) : p[j] = spot[j]
    BY <2>1, <2>2
  <2>4. q = [j \in 1..n |-> IF j = n THEN i + 1 ELSE spot[j]]
    <3>1. i + 1 \in Position
      BY <1>1 DEF Position
    <3>2. p \in Seq(Position)
      BY <1>2 DEF Address
    <3> HIDE DEF p, i
    <3>3. /\ q \in Seq(Position) /\ Len(q) = Len(p) + 1
          /\ q[Len(p) + 1] = i + 1 /\ \A j \in 1..Len(p) : q[j] = p[j]
      BY <3>1, <3>2, AppendProperties
    <3>4. q = [j \in 1..Len(q) |-> q[j]]
      BY <3>3
    <3> HIDE DEF q, n
    <3>5. n \in Nat /\ n # 0
      BY <2>1 DEF n
    <3>6. Len(q) = n /\ q[n] = i + 1 /\ \A j \in 1..(n - 1) : q[j] = spot[j]
      BY ONLY <2>3, <3>3, <3>5, SMTT(30)
    <3>7. \A j \in 1..n : q[j] = IF j = n THEN i + 1 ELSE spot[j]
      BY <3>5, <3>6
    <3> QED BY <3>4, <3>6, <3>7
  <2>5. NextSpot = [j \in 1..Len(spot) |-> IF j = Len(spot) THEN i + 1 ELSE spot[j]]
    BY <2>1 DEF NextSpot
  <2> QED BY <2>4, <2>5
<1>4. i + 1 \in 1..item[p].n /\ i + 1 \in Position
  BY <1>1, <1>2 DEF Position
<1> HIDE DEF p, i
<1>5. Append(p, i + 1) \in DOMAIN item /\ Append(p, i + 1) # Root /\ Parent(Append(p, i + 1)) = p
  BY <1>2, <1>4, AppendParent
<1> QED BY <1>3, <1>5 DEF p

\* The comma behind a child, or the way back to the container behind the last.
LEMMA PrintEnds ==
  ASSUME PrinterInv, PrintComma \/ EndMember \/ EndElements
  PROVE  PrinterInv'
<1>1. /\ printing = "after" /\ item \in Docs /\ spot \in DOMAIN item /\ spot # Root
      /\ Measured \in 0..Len(buffer)
  BY MeasuredIs DEF PrinterInv, PrintComma, EndMember, EndElements, Inside
<1>2. Parent(spot) \in DOMAIN item
  BY <1>1, DocIs
<1>3. HasNext => NextSpot \in DOMAIN item /\ NextSpot # Root /\ Parent(NextSpot) = Parent(spot)
  BY <1>1, NextSpotIs
<1> DEFINE two(b) == <<b, NUL>>
<1>4. ASSUME NEW b \in 0..255
      PROVE  /\ two(b) \in Octets /\ Len(two(b)) = 2
             /\ 1 \in 0..Len(two(b)) /\ 0 \in 0..Len(two(b)) /\ 1 \in 0..(Len(two(b)) - 1)
             /\ Len(two(b)) <= 2 /\ At(two(b), 1) = NUL
  <2>1. two(b) \in Octets /\ Len(two(b)) = 2 /\ At(two(b), 1) = NUL
    BY OneOctet, Zenon
  <2> QED BY <2>1
<1>5. two(Byte["comma"]) = <<Byte["comma"], NUL>> /\ two(Byte["]"]) = <<Byte["]"], NUL>>
  OBVIOUS
<1>6. Byte["comma"] \in 0..255 /\ Byte["]"] \in 0..255 /\ NUL \in 0..255
  BY ByteValues DEF NUL
<1> HIDE DEF two
<1>7. /\ {"value", "key", "after", "close"} \subseteq PrinterStages \ {"idle", "failed"}
  BY DEF PrinterStages
<1>8. CASE PrintComma
  <2>1. HasNext /\ Emit(Measured, 2, two(Byte["comma"]), 1, NextSpot, "value")
    BY <1>5, <1>8 DEF PrintComma
  <2> DEFINE bytes == two(Byte["comma"])
  <2>2. /\ bytes \in Octets /\ Len(bytes) <= 2 /\ 1 \in 0..Len(bytes)
        /\ 2 \in Nat /\ NextSpot \in DOMAIN item
    BY <1>3, <1>4, <1>6, <2>1
  <2> HIDE DEF bytes
  <2>3. PrinterInv /\ printing \notin {"idle", "failed"} /\ Measured \in 0..Len(buffer)
    BY <1>1
  <2>4. /\ "value" \in PrinterStages \ {"idle", "failed"}
        /\ "value" \notin {"after", "colon"} /\ "value" \notin {"key", "colon"} /\ "value" # "close"
    BY <1>7
  <2>5. Emit(Measured, 2, bytes, 1, NextSpot, "value")
    BY <2>1 DEF bytes
  <2> QED BY ONLY <2>2, <2>3, <2>4, <2>5, EmitKeeps, ZenonT(60)
<1>9. CASE EndMember /\ HasNext
  <2>1. Emit(Measured, 2, two(Byte["comma"]), 1, NextSpot, "key") /\ Within = "object"
    BY <1>5, <1>9 DEF EndMember
  <2>2. NextSpot # Root /\ item[Parent(NextSpot)].t = "object"
    BY <1>3, <1>9, <2>1 DEF Within
  <2> DEFINE bytes == two(Byte["comma"])
  <2>3. /\ bytes \in Octets /\ Len(bytes) <= 2 /\ 1 \in 0..Len(bytes)
        /\ 2 \in Nat /\ NextSpot \in DOMAIN item
    BY <1>3, <1>4, <1>6, <1>9
  <2> HIDE DEF bytes
  <2>4. PrinterInv /\ printing \notin {"idle", "failed"} /\ Measured \in 0..Len(buffer)
    BY <1>1
  <2>5. /\ "key" \in PrinterStages \ {"idle", "failed"}
        /\ "key" \notin {"after", "colon"} /\ "key" # "close"
    BY <1>7
  <2>6. Emit(Measured, 2, bytes, 1, NextSpot, "key")
    BY <2>1 DEF bytes
  <2> QED BY ONLY <2>2, <2>3, <2>4, <2>5, <2>6, EmitKeeps, ZenonT(60)
<1>10. CASE EndMember /\ ~HasNext
  <2>1. Emit(Measured, 1, <<NUL>>, 0, Parent(spot), "close") /\ Within = "object"
    BY <1>10 DEF EndMember
  <2>2. item[Parent(spot)].t \in Container
    BY <2>1 DEF Within, Container
  <2>3. <<NUL>> \in Octets /\ Len(<<NUL>>) = 1
    BY <1>6, OneOctet, Zenon
  <2>4. Len(<<NUL>>) <= 1 /\ 0 \in 0..Len(<<NUL>>)
    BY <2>3
  <2> QED BY <1>1, <1>2, <1>7, <2>1, <2>2, <2>3, <2>4, EmitKeeps
<1>11. CASE EndElements
  <2> DEFINE bytes == two(Byte["]"])
  <2>1. Emit(Measured, 2, bytes, 0, Parent(spot), "after")
    BY <1>5, <1>11 DEF EndElements
  <2>2. /\ bytes \in Octets /\ Len(bytes) <= 2 /\ 0 \in 0..Len(bytes) /\ 2 \in Nat
        /\ \E k \in 0..(Len(bytes) - 1) : At(bytes, k) = NUL
    <3>1. /\ bytes \in Octets /\ Len(bytes) = 2 /\ At(bytes, 1) = NUL
      BY <1>4, <1>6, Zenon
    <3> HIDE DEF bytes
    <3>2. 1 \in 0..(Len(bytes) - 1) /\ Len(bytes) <= 2 /\ 0 \in 0..Len(bytes)
      BY ONLY <3>1
    <3> QED BY ONLY <3>1, <3>2
  <2> HIDE DEF bytes
  <2>3. PrinterInv /\ printing \notin {"idle", "failed"} /\ Measured \in 0..Len(buffer)
    BY <1>1
  <2>4. /\ "after" \in PrinterStages \ {"idle", "failed"}
        /\ "after" \notin {"key", "colon"} /\ "after" # "close"
    BY <1>7
  <2> QED BY ONLY <1>2, <2>1, <2>2, <2>3, <2>4, EmitKeeps, ZenonT(60)
<1> QED BY <1>8, <1>9, <1>10, <1>11

\* print reallocates the buffer to the length of the text and its NUL.
LEMMA PrintFinishes ==
  ASSUME PrinterInv, Finish
  PROVE  PrinterInv'
<1> DEFINE m == Measured
           l == Len(buffer)
<1>1. /\ buffer \in Octets /\ l \in Nat /\ MaxInt \in Nat /\ length \in 0..MaxInt /\ l <= length
      /\ item \in Docs /\ spot \in DOMAIN item /\ printing = "after"
  BY OctetsConcat, SizesAssumption DEF PrinterInv, Finish
<1>2. m \in 0..l /\ m < l
  BY <1>1, MeasuredIs
<1>3. /\ buffer' = Slice(buffer, 0, m) /\ length' = m + 1 /\ filled' = m
      /\ printing' = "printed" /\ item' = item /\ spot' = spot
  BY DEF Finish
<1> HIDE DEF m
<1>4. buffer' \in Octets /\ Len(buffer') = m - 0
  BY <1>1, <1>2, <1>3, OctetsSlice
<1> HIDE DEF l
<1>5. Len(buffer') = m /\ m \in Nat /\ m + 1 \in 0..MaxInt /\ m \in 0..MaxInt /\ m <= m + 1
  BY <1>1, <1>2, <1>4
<1> QED BY <1>1, <1>3, <1>4, <1>5 DEF PrinterInv, PrinterStages

\* Every step of the printer, and every step that is none of its own, keeps
\* PrinterInv: what each print function asks of ensure is what it writes, and
\* update_offset finds the NUL of what was written last.
THEOREM PrinterStep ==
  ASSUME PrinterInv, [Next]_vars
  PROVE  PrinterInv'
<1>1. CASE UNCHANGED printerVars
  BY <1>1 DEF PrinterInv, printerVars
<1>2. CASE Save
  <2>1. PICK d \in Docs : /\ printing = "idle" /\ item' = d /\ length' = DefaultSize /\ printing' = "value"
                         /\ UNCHANGED <<spot, buffer, filled>>
    BY <1>2 DEF Save, StartPrinting
  <2>2. Root \in DOMAIN d
    BY RootIs
  <2>3. buffer = <<>> /\ spot = Root /\ filled = 0 /\ buffer \in Octets /\ filled \in 0..MaxInt
    BY <2>1 DEF PrinterInv
  <2>4. DefaultSize \in 0..MaxInt
    BY SizesAssumption
  <2> QED BY <2>1, <2>2, <2>3, <2>4 DEF PrinterInv, PrinterStages
<1>3. CASE Reply
  <2>1. item' = <<>> /\ spot' = Root /\ buffer' = <<>> /\ length' = 0 /\ filled' = 0 /\ printing' = "idle"
    BY <1>3 DEF Reply, PrinterForget
  <2>2. <<>> \in Octets /\ Len(<<>>) = 0 /\ 0 \in 0..MaxInt
    BY SizesAssumption DEF Octets
  <2> QED BY <2>1, <2>2 DEF PrinterInv, PrinterStages
<1>4. CASE PrinterNext
  BY <1>4, PrintScalars, PrintBrackets, PrintNames, PrintEnds, PrintFinishes DEF PrinterNext
<1> QED BY <1>1, <1>2, <1>3, <1>4 DEF Next, Work, CreateNode, Load, vars

\* The printer never leaves a buffer shorter than what is in it: PrinterInv
\* always holds, for every document, every first length and every limit of the
\* allocation (print, ensure, update_offset and the print functions of cJSON.c).
THEOREM PrinterCorrect == Spec => []PrinterInv
<1>1. Init => PrinterInv
  <2> SUFFICES ASSUME Init PROVE PrinterInv
    OBVIOUS
  <2>1. <<>> \in Octets /\ Len(<<>>) = 0 /\ 0 \in 0..MaxInt
    BY SizesAssumption DEF Octets
  <2> QED BY <2>1 DEF Init, PrinterInit, PrinterInv, PrinterStages
<1>2. PrinterInv /\ [Next]_vars => PrinterInv'
  BY PrinterStep
<1> QED BY <1>1, <1>2, PTL DEF Spec

(***************************************************************************)
(* The items of a text that is being parsed.                               *)
(***************************************************************************)
Items == [t : Container \cup Scalar \cup {"invalid"}, n : Nat,
          name : CStrings \cup {NoName}, text : Octets]

\* The container at a is open around the item at h: how many children it has so
\* far, and its type.
OpenAt(h, a)         == Len(a) < Len(h) /\ a = Prefix(h, Len(a))
Children(tr, h, a)   == IF OpenAt(h, a) THEN h[Len(a) + 1] ELSE tr[a].n
TypeAt(tr, h, op, a) == IF OpenAt(h, a) THEN op[Len(a) + 1] ELSE tr[a].t

\* Every item has a parent that counts it: nothing is out of reach.
Loose(tr, h) ==
  /\ \A a \in DOMAIN tr : a \in Address /\ tr[a] \in Items
  /\ \A a \in DOMAIN tr : a # Root =>
       Parent(a) \in DOMAIN tr /\ a[Len(a)] <= Children(tr, h, Parent(a))
  /\ \A a \in DOMAIN tr : OpenAt(h, a) => tr[a].n = 0

\* The items around h make a document but for what is open; the one at h has no
\* value yet if it is pending, and no name if it is nameless.
Sound(tr, h, op, pending, nameless) ==
  /\ Loose(tr, h)
  /\ h \in DOMAIN tr /\ Root \in DOMAIN tr
  /\ \A a \in DOMAIN tr : \A i \in 1..Children(tr, h, a) : Append(a, i) \in DOMAIN tr
  /\ \A a \in DOMAIN tr : tr[a].t \notin Container => tr[a].n = 0
  /\ \A a \in DOMAIN tr : OpenAt(h, a) \/ (a = h /\ pending) \/ tr[a].t \in Container \cup Scalar
  /\ pending => tr[h].n = 0
  /\ tr[Root].name = NoName
  /\ \A a \in DOMAIN tr : a # Root =>
       tr[a].name \in IF TypeAt(tr, h, op, Parent(a)) = "object" /\ ~(a = h /\ nameless)
                      THEN CStrings ELSE {NoName}

\* A container more is open when the parser is one item deeper.
LEMMA DeeperIs ==
  ASSUME NEW p \in Address, NEW i \in Position, NEW a \in Address
  PROVE  /\ OpenAt(Append(p, i), a) <=> OpenAt(p, a) \/ a = p
         /\ ~OpenAt(p, p) /\ ~OpenAt(p, Append(p, i))
         /\ OpenAt(p, a) => Append(p, i)[Len(a) + 1] = p[Len(a) + 1]
         /\ Append(p, i)[Len(p) + 1] = i
<1> DEFINE q == Append(p, i)
           m == Len(p)
<1>1. m \in Nat /\ Len(a) \in Nat /\ \A j \in 1..m : p[j] \in Position
  BY LenProperties, ElementOfSeq DEF Address
<1>2. q \in Address /\ Len(q) = m + 1 /\ q[m + 1] = i /\ \A j \in 1..m : q[j] = p[j]
  BY AppendProperties DEF Address
<1> HIDE DEF q
<1>3. ~OpenAt(p, p) /\ ~OpenAt(p, q)
  BY <1>1, <1>2 DEF OpenAt
<1>4. ASSUME NEW k \in 0..m PROVE Prefix(q, k) = Prefix(p, k)
  BY <1>1, <1>2 DEF Prefix
<1>5. Prefix(p, m) = p
  <2>1. Prefix(p, m) = [j \in 1..m |-> p[j]]
    BY DEF Prefix
  <2>2. Prefix(p, m) \in Seq(Position) /\ Len(Prefix(p, m)) = m /\ \A j \in 1..m : Prefix(p, m)[j] = p[j]
    BY <1>1, <2>1
  <2> QED BY <1>1, <2>2, AddressEqual DEF Address
<1>6. OpenAt(q, a) <=> OpenAt(p, a) \/ a = p
  <2>1. CASE Len(a) < m
    BY <1>1, <1>2, <1>4, <2>1 DEF OpenAt
  <2>2. CASE Len(a) = m
    BY <1>1, <1>2, <1>4, <1>5, <2>2 DEF OpenAt
  <2>3. CASE Len(a) > m
    BY <1>1, <1>2, <2>3 DEF OpenAt
  <2> QED BY <1>1, <2>1, <2>2, <2>3
<1>7. OpenAt(p, a) => q[Len(a) + 1] = p[Len(a) + 1]
  BY <1>1, <1>2 DEF OpenAt
<1> QED BY <1>2, <1>3, <1>6, <1>7 DEF q

\* The container just opened has the children read so far.
LEMMA DeeperCounts ==
  ASSUME NEW tr, NEW p \in Address, NEW i \in Position, NEW a \in Address
  PROVE  Children(tr, Append(p, i), a) = IF a = p THEN i ELSE Children(tr, p, a)
BY DeeperIs DEF Children

\* The container just opened has the type of its bracket.
LEMMA DeeperTypes ==
  ASSUME NEW tr, NEW p \in Address, NEW i \in Position, NEW a \in Address,
         NEW op \in Seq(Container), Len(op) = Len(p), NEW type \in Container
  PROVE  TypeAt(tr, Append(p, i), Append(op, type), a) = IF a = p THEN type ELSE TypeAt(tr, p, op, a)
<1> DEFINE q == Append(op, type)
<1>1. q[Len(p) + 1] = type /\ \A j \in 1..Len(p) : q[j] = op[j]
  BY AppendProperties
<1>2. Len(p) \in Nat /\ Len(a) \in Nat
  BY LenProperties DEF Address
<1>3. OpenAt(p, a) => Len(a) + 1 \in 1..Len(p)
  BY <1>2 DEF OpenAt
<1> HIDE DEF q
<1>4. OpenAt(p, a) => q[Len(a) + 1] = op[Len(a) + 1]
  BY <1>1, <1>3
<1>5. /\ OpenAt(Append(p, i), a) <=> OpenAt(p, a) \/ a = p
      /\ ~OpenAt(p, p)
  BY DeeperIs
<1>6. TypeAt(tr, Append(p, i), q, a) = IF OpenAt(Append(p, i), a) THEN q[Len(a) + 1] ELSE tr[a].t
  BY DEF TypeAt
<1>7. TypeAt(tr, p, op, a) = IF OpenAt(p, a) THEN op[Len(a) + 1] ELSE tr[a].t
  BY DEF TypeAt
<1> QED BY <1>1, <1>4, <1>5, <1>6, <1>7 DEF q

With(tr, a) == [b \in DOMAIN tr \cup {a} |-> IF b = a THEN NewItem ELSE tr[b]]

\* cJSON_New_Item: an invalid item, without children and without a name.
LEMMA NewItemIs ==
  /\ NewItem \in Items /\ NewItem.t = "invalid" /\ NewItem.n = 0 /\ NewItem.name = NoName
  /\ "invalid" \notin Container
BY DEF NewItem, Items, Octets, Container

\* What the label of one item says of the counts and types.
LEMMA SameCounts ==
  ASSUME NEW tr, NEW ts, NEW h, NEW op, NEW a
  PROVE  /\ ts[a].n = tr[a].n => Children(ts, h, a) = Children(tr, h, a)
         /\ ts[a].t = tr[a].t => TypeAt(ts, h, op, a) = TypeAt(tr, h, op, a)
BY DEF Children, TypeAt

\* Nothing is open around the root.
LEMMA RootAddress == Root \in Address /\ \A a : ~OpenAt(Root, a)
BY DEF Root, Address, OpenAt

\* The first child of the container that opens: items stay sound.
LEMMA OpensContainer ==
  ASSUME NEW tr, NEW h, NEW op \in Seq(Container), NEW type \in Container,
         Len(op) = Len(h), Sound(tr, h, op, TRUE, FALSE)
  PROVE  Sound(With(tr, Append(h, 1)), Append(h, 1), Append(op, type), TRUE, TRUE)
<1> DEFINE new == Append(h, 1)
           ts  == With(tr, new)
           os  == Append(op, type)
<1>1. /\ \A a \in DOMAIN tr : a \in Address /\ tr[a] \in Items
      /\ \A a \in DOMAIN tr : a # Root =>
            Parent(a) \in DOMAIN tr /\ a[Len(a)] <= Children(tr, h, Parent(a))
      /\ \A a \in DOMAIN tr : OpenAt(h, a) => tr[a].n = 0
      /\ h \in DOMAIN tr /\ Root \in DOMAIN tr
      /\ \A a \in DOMAIN tr : \A i \in 1..Children(tr, h, a) : Append(a, i) \in DOMAIN tr
      /\ \A a \in DOMAIN tr : tr[a].t \notin Container => tr[a].n = 0
      /\ \A a \in DOMAIN tr : OpenAt(h, a) \/ a = h \/ tr[a].t \in Container \cup Scalar
      /\ tr[h].n = 0 /\ tr[Root].name = NoName
      /\ \A a \in DOMAIN tr : a # Root =>
            tr[a].name \in IF TypeAt(tr, h, op, Parent(a)) = "object" THEN CStrings ELSE {NoName}
  BY DEF Sound, Loose
<1>2. 1 \in Position /\ h \in Address
  BY <1>1 DEF Position
<1>3. /\ new \in Address /\ new # Root /\ Parent(new) = h /\ new[Len(new)] = 1
  BY <1>2, AppendParent
<1>4. \A a \in Address :
        /\ OpenAt(new, a) <=> OpenAt(h, a) \/ a = h
        /\ ~OpenAt(h, h) /\ ~OpenAt(h, new) /\ ~OpenAt(new, new)
        /\ Children(ts, new, a) = IF a = h THEN 1 ELSE Children(ts, h, a)
        /\ TypeAt(ts, new, os, a) = IF a = h THEN type ELSE TypeAt(ts, h, op, a)
  BY <1>2, <1>3, DeeperIs, DeeperCounts, DeeperTypes
<1>5. \A a \in DOMAIN tr : a # Root => Parent(a) # h /\ a # new
  <2>1. Children(tr, h, h) = 0
    BY <1>1, <1>2, <1>4 DEF Children
  <2>2. ASSUME NEW a \in DOMAIN tr, a # Root, Parent(a) = h PROVE FALSE
    <3>1. a \in Address /\ a[Len(a)] <= Children(tr, h, h)
      BY <1>1, <2>2
    <3>2. a[Len(a)] \in Position
      BY <2>2, <3>1, ParentAppend
    <3> QED BY <2>1, <3>1, <3>2 DEF Position
  <2> QED BY <1>3, <2>2
<1>6. new \notin DOMAIN tr
  BY <1>3, <1>5
<1>7. /\ DOMAIN ts = DOMAIN tr \cup {new}
      /\ ts[new] = NewItem /\ \A a \in DOMAIN tr : ts[a] = tr[a]
  BY <1>6 DEF With
<1>8. \A a \in DOMAIN tr : /\ Children(ts, h, a) = Children(tr, h, a)
                           /\ TypeAt(ts, h, op, a) = TypeAt(tr, h, op, a)
  BY <1>7, SameCounts
<1>9. Children(ts, new, new) = 0
  BY <1>3, <1>4, <1>7, NewItemIs DEF Children
<1> HIDE DEF new, ts, os
<1>10. Loose(ts, new)
  <2>1. \A a \in DOMAIN ts : a \in Address /\ ts[a] \in Items
    BY <1>1, <1>3, <1>7, NewItemIs
  <2>2. ASSUME NEW a \in DOMAIN ts, a # Root
        PROVE  Parent(a) \in DOMAIN ts /\ a[Len(a)] <= Children(ts, new, Parent(a))
    <3>1. CASE a = new
      BY <1>1, <1>2, <1>3, <1>4, <1>7, <3>1
    <3>2. CASE a # new
      <4>1. a \in DOMAIN tr /\ Parent(a) \in DOMAIN tr /\ Parent(a) # h
        BY <1>1, <1>5, <1>7, <2>2, <3>2
      <4>2. Children(ts, new, Parent(a)) = Children(tr, h, Parent(a))
        BY <1>1, <1>4, <1>8, <4>1
      <4> QED BY <1>1, <1>7, <2>2, <4>1, <4>2
    <3> QED BY <3>1, <3>2
  <2>3. \A a \in DOMAIN ts : OpenAt(new, a) => ts[a].n = 0
    BY <1>1, <1>3, <1>4, <1>7
  <2> QED BY <2>1, <2>2, <2>3 DEF Loose
<1>11. ASSUME NEW a \in DOMAIN ts, NEW i \in 1..Children(ts, new, a)
       PROVE  Append(a, i) \in DOMAIN ts
  <2>1. CASE a = new
    BY <1>9, <2>1
  <2>2. CASE a = h
    <3>1. i = 1
      BY <1>2, <1>4, <2>2
    <3> QED BY <1>7, <2>2, <3>1 DEF new
  <2>3. CASE a # new /\ a # h
    <3>1. a \in DOMAIN tr /\ i \in 1..Children(tr, h, a)
      BY <1>1, <1>4, <1>7, <1>8, <2>3
    <3> QED BY <1>1, <1>7, <3>1
  <2> QED BY <2>1, <2>2, <2>3
<1>12. /\ \A a \in DOMAIN ts : ts[a].t \notin Container => ts[a].n = 0
       /\ \A a \in DOMAIN ts : OpenAt(new, a) \/ a = new \/ ts[a].t \in Container \cup Scalar
       /\ ts[new].n = 0 /\ ts[Root].name = NoName /\ new \in DOMAIN ts /\ Root \in DOMAIN ts
  BY <1>1, <1>4, <1>7, NewItemIs
<1>13. ASSUME NEW a \in DOMAIN ts, a # Root
       PROVE  ts[a].name \in IF TypeAt(ts, new, os, Parent(a)) = "object" /\ a # new
                             THEN CStrings ELSE {NoName}
  <2>1. CASE a = new
    BY <1>7, <2>1, NewItemIs
  <2>2. CASE a # new
    <3>1. a \in DOMAIN tr /\ Parent(a) \in DOMAIN tr /\ Parent(a) # h
      BY <1>1, <1>5, <1>7, <1>13, <2>2
    <3>2. TypeAt(ts, new, os, Parent(a)) = TypeAt(tr, h, op, Parent(a))
      BY <1>1, <1>4, <1>8, <3>1
    <3> QED BY <1>1, <1>7, <1>13, <2>2, <3>1, <3>2
  <2> QED BY <2>1, <2>2
<1> QED BY <1>10, <1>11, <1>12, <1>13 DEF Sound, new, ts, os

\* What Sound says where the containers are those around the i-th child of p.
LEMMA SoundIs ==
  ASSUME NEW tr, NEW h, NEW op, NEW pending, NEW nameless
  PROVE  Sound(tr, h, op, pending, nameless) <=>
      /\ \A a \in DOMAIN tr : a \in Address /\ tr[a] \in Items
      /\ \A a \in DOMAIN tr : a # Root =>
            Parent(a) \in DOMAIN tr /\ a[Len(a)] <= Children(tr, h, Parent(a))
      /\ \A a \in DOMAIN tr : OpenAt(h, a) => tr[a].n = 0
      /\ h \in DOMAIN tr /\ Root \in DOMAIN tr
      /\ \A a \in DOMAIN tr : \A i \in 1..Children(tr, h, a) : Append(a, i) \in DOMAIN tr
      /\ \A a \in DOMAIN tr : tr[a].t \notin Container => tr[a].n = 0
      /\ \A a \in DOMAIN tr : OpenAt(h, a) \/ (a = h /\ pending) \/ tr[a].t \in Container \cup Scalar
      /\ pending => tr[h].n = 0
      /\ tr[Root].name = NoName
      /\ \A a \in DOMAIN tr : a # Root =>
            tr[a].name \in IF TypeAt(tr, h, op, Parent(a)) = "object" /\ ~(a = h /\ nameless)
                           THEN CStrings ELSE {NoName}
BY Zenon DEF Sound, Loose

\* So they do with the next item, linked behind the last.
LEMMA AddsItem ==
  ASSUME NEW tr, NEW p \in Address, NEW i \in Position,
         NEW op \in Seq(Container), NEW type \in Container, Len(op) = Len(p),
         Sound(tr, Append(p, i), Append(op, type), FALSE, FALSE)
  PROVE  Sound(With(tr, Append(p, i + 1)), Append(p, i + 1), Append(op, type), TRUE, TRUE)
<1> DEFINE old == Append(p, i)
           new == Append(p, i + 1)
           ts  == With(tr, new)
           os  == Append(op, type)
<1>1. /\ \A a \in DOMAIN tr : a \in Address /\ tr[a] \in Items
      /\ \A a \in DOMAIN tr : a # Root =>
            Parent(a) \in DOMAIN tr /\ a[Len(a)] <= Children(tr, old, Parent(a))
      /\ \A a \in DOMAIN tr : OpenAt(old, a) => tr[a].n = 0
      /\ old \in DOMAIN tr /\ Root \in DOMAIN tr
      /\ \A a \in DOMAIN tr : \A j \in 1..Children(tr, old, a) : Append(a, j) \in DOMAIN tr
      /\ \A a \in DOMAIN tr : tr[a].t \notin Container => tr[a].n = 0
      /\ \A a \in DOMAIN tr : OpenAt(old, a) \/ tr[a].t \in Container \cup Scalar
      /\ tr[Root].name = NoName
      /\ \A a \in DOMAIN tr : a # Root =>
            tr[a].name \in IF TypeAt(tr, old, os, Parent(a)) = "object" THEN CStrings ELSE {NoName}
  BY SoundIs
<1>2. i + 1 \in Position /\ i \in Nat
  BY DEF Position
<1>3. /\ new \in Address /\ new # Root /\ Parent(new) = p /\ new[Len(new)] = i + 1
      /\ old \in Address /\ old # Root /\ Parent(old) = p
  BY <1>2, AppendParent
<1>4. \A a \in Address :
        /\ OpenAt(new, a) <=> OpenAt(p, a) \/ a = p
        /\ OpenAt(old, a) <=> OpenAt(p, a) \/ a = p
        /\ ~OpenAt(p, p) /\ ~OpenAt(p, new)
        /\ Children(ts, new, a) = IF a = p THEN i + 1 ELSE Children(ts, p, a)
        /\ Children(tr, old, a) = IF a = p THEN i ELSE Children(tr, p, a)
        /\ TypeAt(ts, new, os, a) = IF a = p THEN type ELSE TypeAt(ts, p, op, a)
        /\ TypeAt(tr, old, os, a) = IF a = p THEN type ELSE TypeAt(tr, p, op, a)
  BY <1>2, <1>3, DeeperIs, DeeperCounts, DeeperTypes
<1>5. p \in DOMAIN tr
  BY <1>1, <1>3
<1>6. new \notin DOMAIN tr
  <2>1. Children(tr, old, p) = i
    BY <1>4
  <2> SUFFICES ASSUME new \in DOMAIN tr PROVE FALSE
    OBVIOUS
  <2> HIDE DEF new, old
  <2>2. i + 1 <= i
    BY <1>1, <1>3, <2>1
  <2> QED BY <1>2, <2>2
<1>7. /\ DOMAIN ts = DOMAIN tr \cup {new}
      /\ ts[new] = NewItem /\ \A a \in DOMAIN tr : ts[a] = tr[a]
  BY <1>6 DEF With
<1>8. \A a \in DOMAIN tr : /\ Children(ts, p, a) = Children(tr, p, a)
                           /\ TypeAt(ts, p, op, a) = TypeAt(tr, p, op, a)
  BY <1>7, SameCounts
<1>9. Children(ts, new, new) = 0 /\ new # p
  BY <1>3, <1>4, <1>5, <1>6, <1>7, NewItemIs DEF Children
<1> HIDE DEF new, old, ts, os
<1>10. \A a \in DOMAIN ts : a \in Address /\ ts[a] \in Items
  BY <1>1, <1>3, <1>7, NewItemIs
<1>11. ASSUME NEW a \in DOMAIN ts, a # Root
       PROVE  Parent(a) \in DOMAIN ts /\ a[Len(a)] <= Children(ts, new, Parent(a))
  <2>1. CASE a = new
    BY <1>2, <1>3, <1>4, <1>5, <1>7, <2>1
  <2>2. CASE a # new
    <3>1. a \in DOMAIN tr /\ Parent(a) \in DOMAIN tr /\ a[Len(a)] <= Children(tr, old, Parent(a))
      BY <1>1, <1>7, <1>11, <2>2
    <3>2. a \in Address /\ Parent(a) \in Address /\ a[Len(a)] \in Nat
      BY <1>1, <1>11, <3>1, ParentAppend DEF Position
    <3>3. CASE Parent(a) = p
      BY <1>2, <1>4, <1>5, <1>7, <3>1, <3>2, <3>3
    <3>4. CASE Parent(a) # p
      <4>1. Children(ts, new, Parent(a)) = Children(tr, old, Parent(a))
        BY <1>4, <1>8, <3>1, <3>2, <3>4
      <4> QED BY <1>7, <3>1, <4>1
    <3> QED BY <3>3, <3>4
  <2> QED BY <2>1, <2>2
<1>12. \A a \in DOMAIN ts : OpenAt(new, a) => ts[a].n = 0
  BY <1>1, <1>3, <1>4, <1>7, <1>9
<1>13. ASSUME NEW a \in DOMAIN ts, NEW j \in 1..Children(ts, new, a)
       PROVE  Append(a, j) \in DOMAIN ts
  <2>1. CASE a = new
    BY <1>9, <2>1
  <2>2. CASE a = p
    <3>1. j \in 1..(i + 1)
      BY <1>4, <2>2
    <3>2. CASE j = i + 1
      BY <1>7, <2>2, <3>2 DEF new
    <3>3. CASE j # i + 1
      <4>1. j \in 1..Children(tr, old, p)
        BY <1>2, <1>4, <3>1, <3>3
      <4> QED BY <1>1, <1>5, <1>7, <2>2, <4>1
    <3> QED BY <3>2, <3>3
  <2>3. CASE a # new /\ a # p
    <3>1. a \in DOMAIN tr /\ j \in 1..Children(tr, old, a)
      BY <1>1, <1>4, <1>7, <1>8, <2>3
    <3> QED BY <1>1, <1>7, <3>1
  <2> QED BY <2>1, <2>2, <2>3
<1>14. /\ \A a \in DOMAIN ts : ts[a].t \notin Container => ts[a].n = 0
       /\ \A a \in DOMAIN ts : OpenAt(new, a) \/ a = new \/ ts[a].t \in Container \cup Scalar
       /\ ts[new].n = 0 /\ ts[Root].name = NoName /\ new \in DOMAIN ts /\ Root \in DOMAIN ts
  BY <1>1, <1>4, <1>7, NewItemIs
<1>15. ASSUME NEW a \in DOMAIN ts, a # Root
       PROVE  ts[a].name \in IF TypeAt(ts, new, os, Parent(a)) = "object" /\ a # new
                             THEN CStrings ELSE {NoName}
  <2>1. CASE a = new
    BY <1>7, <2>1, NewItemIs
  <2>2. CASE a # new
    <3>1. a \in DOMAIN tr /\ Parent(a) \in DOMAIN tr
      BY <1>1, <1>7, <1>15, <2>2
    <3>2. TypeAt(ts, new, os, Parent(a)) = TypeAt(tr, old, os, Parent(a))
      BY <1>1, <1>4, <1>8, <3>1
    <3> QED BY <1>1, <1>7, <1>15, <2>2, <3>1, <3>2
  <2> QED BY <2>1, <2>2
<1>16. Sound(ts, new, os, TRUE, TRUE)
  BY <1>10, <1>11, <1>12, <1>13, <1>14, <1>15, SoundIs
<1> QED BY <1>16 DEF new, ts, os

\* The bracket that closes gives the container its type and its children.
LEMMA ClosesContainer ==
  ASSUME NEW tr, NEW p \in Address, NEW i \in Position,
         NEW op \in Seq(Container), NEW type \in Container, Len(op) = Len(p),
         Sound(tr, Append(p, i), Append(op, type), FALSE, FALSE)
  PROVE  Sound([tr EXCEPT ![p].t = type, ![p].n = i], p, op, FALSE, FALSE)
<1> DEFINE old == Append(p, i)
           ts  == [tr EXCEPT ![p].t = type, ![p].n = i]
           os  == Append(op, type)
<1>1. /\ \A a \in DOMAIN tr : a \in Address /\ tr[a] \in Items
      /\ \A a \in DOMAIN tr : a # Root =>
            Parent(a) \in DOMAIN tr /\ a[Len(a)] <= Children(tr, old, Parent(a))
      /\ \A a \in DOMAIN tr : OpenAt(old, a) => tr[a].n = 0
      /\ old \in DOMAIN tr /\ Root \in DOMAIN tr
      /\ \A a \in DOMAIN tr : \A j \in 1..Children(tr, old, a) : Append(a, j) \in DOMAIN tr
      /\ \A a \in DOMAIN tr : tr[a].t \notin Container => tr[a].n = 0
      /\ \A a \in DOMAIN tr : OpenAt(old, a) \/ tr[a].t \in Container \cup Scalar
      /\ tr[Root].name = NoName
      /\ \A a \in DOMAIN tr : a # Root =>
            tr[a].name \in IF TypeAt(tr, old, os, Parent(a)) = "object" THEN CStrings ELSE {NoName}
  BY SoundIs
<1>2. old \in Address /\ old # Root /\ Parent(old) = p /\ i \in Nat
  BY AppendParent DEF Position
<1>3. p \in DOMAIN tr
  BY <1>1, <1>2
<1>4. /\ DOMAIN ts = DOMAIN tr /\ \A a \in DOMAIN tr : a # p => ts[a] = tr[a]
      /\ ts[p] = [tr[p] EXCEPT !.t = type, !.n = i]
  BY <1>3
<1>5. /\ ts[p] \in Items /\ ts[p].t = type /\ ts[p].n = i /\ ts[p].name = tr[p].name
  <2>1. tr[p] \in Items
    BY <1>1, <1>3
  <2>2. ts[p] = [tr[p] EXCEPT !.t = type, !.n = i]
    BY <1>4
  <2> HIDE DEF ts
  <2> QED BY ONLY type \in Container, <1>2, <2>1, <2>2 DEF Items
<1>6. \A a \in Address :
        /\ OpenAt(old, a) <=> OpenAt(p, a) \/ a = p
        /\ ~OpenAt(p, p)
        /\ Children(tr, old, a) = IF a = p THEN i ELSE Children(tr, p, a)
        /\ TypeAt(tr, old, os, a) = IF a = p THEN type ELSE TypeAt(tr, p, op, a)
  BY <1>2, DeeperIs, DeeperCounts, DeeperTypes
<1> HIDE DEF old, ts, os
<1>7. ASSUME NEW a \in DOMAIN tr
      PROVE  /\ Children(ts, p, a) = Children(tr, old, a)
             /\ TypeAt(ts, p, op, a) = TypeAt(tr, old, os, a)
  <2>1. CASE a = p
    BY <1>5, <1>6, <2>1 DEF Children, TypeAt
  <2>2. CASE a # p
    <3>1. Children(ts, p, a) = Children(tr, p, a) /\ TypeAt(ts, p, op, a) = TypeAt(tr, p, op, a)
      BY <1>4, <2>2, SameCounts
    <3> QED BY <1>1, <1>6, <2>2, <3>1
  <2> QED BY <2>1, <2>2
<1>8. \A a \in DOMAIN tr : ts[a] \in Items /\ ts[a].name = tr[a].name
  BY <1>1, <1>4, <1>5
<1>9. /\ \A a \in DOMAIN tr : OpenAt(p, a) => ts[a].n = 0
      /\ \A a \in DOMAIN tr : ts[a].t \notin Container => ts[a].n = 0
      /\ \A a \in DOMAIN tr : OpenAt(p, a) \/ ts[a].t \in Container \cup Scalar
  BY <1>1, <1>4, <1>5, <1>6
<1>10. Sound(ts, p, op, FALSE, FALSE)
  BY <1>1, <1>3, <1>4, <1>7, <1>8, <1>9, SoundIs
<1> QED BY <1>10 DEF ts

\* The item at hand gets its value, or its name.
LEMMA GetsValue ==
  ASSUME NEW tr, NEW ts, NEW h, NEW op, Sound(tr, h, op, TRUE, FALSE),
         DOMAIN ts = DOMAIN tr, \A a \in DOMAIN tr : a # h => ts[a] = tr[a],
         ts[h] \in Items, ts[h].t \in Container \cup Scalar, ts[h].n = 0, ts[h].name = tr[h].name
  PROVE  Sound(ts, h, op, FALSE, FALSE)
<1>1. /\ \A a \in DOMAIN tr : a \in Address /\ tr[a] \in Items
      /\ \A a \in DOMAIN tr : a # Root =>
            Parent(a) \in DOMAIN tr /\ a[Len(a)] <= Children(tr, h, Parent(a))
      /\ \A a \in DOMAIN tr : OpenAt(h, a) => tr[a].n = 0
      /\ h \in DOMAIN tr /\ Root \in DOMAIN tr
      /\ \A a \in DOMAIN tr : \A i \in 1..Children(tr, h, a) : Append(a, i) \in DOMAIN tr
      /\ \A a \in DOMAIN tr : tr[a].t \notin Container => tr[a].n = 0
      /\ \A a \in DOMAIN tr : OpenAt(h, a) \/ a = h \/ tr[a].t \in Container \cup Scalar
      /\ tr[h].n = 0 /\ tr[Root].name = NoName
      /\ \A a \in DOMAIN tr : a # Root =>
            tr[a].name \in IF TypeAt(tr, h, op, Parent(a)) = "object" THEN CStrings ELSE {NoName}
  BY SoundIs
<1>2. \A a \in DOMAIN tr : Children(ts, h, a) = Children(tr, h, a)
  <2>1. \A a \in DOMAIN tr : ts[a].n = tr[a].n
    BY <1>1
  <2> QED BY <2>1, SameCounts
<1>3. \A a \in DOMAIN tr : a # h => TypeAt(ts, h, op, a) = TypeAt(tr, h, op, a)
  BY SameCounts
<1>4. \A a \in DOMAIN tr : a # Root => Parent(a) # h
  <2> SUFFICES ASSUME NEW a \in DOMAIN tr, a # Root, Parent(a) = h PROVE FALSE
    OBVIOUS
  <2>1. a[Len(a)] <= Children(tr, h, h) /\ a \in Address
    BY <1>1
  <2>2. a[Len(a)] \in Position
    BY <2>1, ParentAppend
  <2>3. ~OpenAt(h, h)
    BY <1>1, DeeperIs DEF Position
  <2>4. Children(tr, h, h) = 0
    BY <1>1, <2>3 DEF Children
  <2> QED BY <2>1, <2>2, <2>4 DEF Position
<1>5. ASSUME NEW a \in DOMAIN ts, a # Root
      PROVE  /\ Parent(a) \in DOMAIN ts /\ a[Len(a)] <= Children(ts, h, Parent(a))
             /\ ts[a].name \in IF TypeAt(ts, h, op, Parent(a)) = "object" THEN CStrings ELSE {NoName}
  <2>1. Parent(a) \in DOMAIN tr /\ Parent(a) # h
    BY <1>1, <1>4, <1>5
  <2>2. ts[a].name = tr[a].name
    BY <1>5
  <2> QED BY <1>1, <1>2, <1>3, <1>5, <2>1, <2>2
<1>6. /\ \A a \in DOMAIN ts : a \in Address /\ ts[a] \in Items
      /\ \A a \in DOMAIN ts : OpenAt(h, a) => ts[a].n = 0
      /\ \A a \in DOMAIN ts : \A i \in 1..Children(ts, h, a) : Append(a, i) \in DOMAIN ts
      /\ \A a \in DOMAIN ts : ts[a].t \notin Container => ts[a].n = 0
      /\ \A a \in DOMAIN ts : OpenAt(h, a) \/ ts[a].t \in Container \cup Scalar
      /\ ts[Root].name = NoName
  BY <1>1, <1>2
<1> QED BY <1>1, <1>5, <1>6, SoundIs

\* An item of an object waits for its name, and gets it.
LEMMA GetsName ==
  ASSUME NEW tr, NEW ts, NEW p \in Address, NEW i \in Position,
         NEW op \in Seq(Container), NEW type \in Container, Len(op) = Len(p),
         Sound(tr, Append(p, i), Append(op, type), TRUE, TRUE),
         DOMAIN ts = DOMAIN tr, \A a \in DOMAIN tr : a # Append(p, i) => ts[a] = tr[a],
         ts[Append(p, i)] \in Items, ts[Append(p, i)].t = tr[Append(p, i)].t,
         ts[Append(p, i)].n = tr[Append(p, i)].n,
         ts[Append(p, i)].name \in IF type = "object" THEN CStrings ELSE {NoName}
  PROVE  Sound(ts, Append(p, i), Append(op, type), TRUE, FALSE)
<1> DEFINE h  == Append(p, i)
           os == Append(op, type)
<1>1. /\ \A a \in DOMAIN tr : a \in Address /\ tr[a] \in Items
      /\ \A a \in DOMAIN tr : a # Root =>
            Parent(a) \in DOMAIN tr /\ a[Len(a)] <= Children(tr, h, Parent(a))
      /\ \A a \in DOMAIN tr : OpenAt(h, a) => tr[a].n = 0
      /\ h \in DOMAIN tr /\ Root \in DOMAIN tr
      /\ \A a \in DOMAIN tr : \A j \in 1..Children(tr, h, a) : Append(a, j) \in DOMAIN tr
      /\ \A a \in DOMAIN tr : tr[a].t \notin Container => tr[a].n = 0
      /\ \A a \in DOMAIN tr : OpenAt(h, a) \/ a = h \/ tr[a].t \in Container \cup Scalar
      /\ tr[h].n = 0 /\ tr[Root].name = NoName
      /\ \A a \in DOMAIN tr : a # Root /\ a # h =>
            tr[a].name \in IF TypeAt(tr, h, os, Parent(a)) = "object" THEN CStrings ELSE {NoName}
  BY SoundIs
<1>2. h \in Address /\ h # Root /\ Parent(h) = p
  BY AppendParent
<1>3. TypeAt(tr, h, os, p) = type
  BY DeeperTypes
<1> HIDE DEF h, os
<1>4. \A a \in DOMAIN tr : ts[a].t = tr[a].t /\ ts[a].n = tr[a].n
  BY DEF h
<1>5. \A a \in DOMAIN tr : /\ Children(ts, h, a) = Children(tr, h, a)
                           /\ TypeAt(ts, h, os, a) = TypeAt(tr, h, os, a)
  BY <1>4, SameCounts
<1>6. \A a \in DOMAIN tr : ts[a] \in Items
  BY <1>1 DEF h
<1>7. ts[Root].name = NoName
  BY <1>1, <1>2 DEF h
<1>8. ASSUME NEW a \in DOMAIN ts, a # Root
      PROVE  ts[a].name \in IF TypeAt(ts, h, os, Parent(a)) = "object" THEN CStrings ELSE {NoName}
  <2>1. Parent(a) \in DOMAIN tr
    BY <1>1, <1>8
  <2>2. TypeAt(ts, h, os, Parent(a)) = TypeAt(tr, h, os, Parent(a))
    BY <1>5, <2>1
  <2>3. CASE a = h
    BY <1>2, <1>3, <2>2, <2>3 DEF h
  <2>4. CASE a # h
    BY <1>1, <1>8, <2>2, <2>4 DEF h
  <2> QED BY <2>3, <2>4
<1>9. Sound(ts, h, os, TRUE, FALSE)
  BY <1>1, <1>4, <1>5, <1>6, <1>7, <1>8, SoundIs
<1> QED BY <1>9 DEF h, os

\* The item that cJSON_ParseWithLengthOpts makes is sound.
LEMMA FirstItem ==
  ASSUME NEW ts, ts = [a \in {Root} |-> NewItem]
  PROVE  Sound(ts, Root, <<>>, TRUE, FALSE)
<1>1. /\ DOMAIN ts = {Root} /\ ts[Root] = NewItem /\ Root \in Address
      /\ \A a : ~OpenAt(Root, a)
  BY RootAddress
<1>2. Children(ts, Root, Root) = 0
  BY <1>1, NewItemIs DEF Children
<1>3. \A i : i \notin 1..Children(ts, Root, Root)
  BY <1>2
<1> QED BY <1>1, <1>3, NewItemIs, SoundIs

\* When nothing is open any more, the items are a document.
LEMMA SoundIsDocument ==
  ASSUME NEW tr, Sound(tr, Root, <<>>, FALSE, FALSE)
  PROVE  WellFormed(Shape(tr))
<1> DEFINE d == Shape(tr)
<1>1. /\ \A a \in DOMAIN tr : a \in Address /\ tr[a] \in Items
      /\ \A a \in DOMAIN tr : a # Root =>
            Parent(a) \in DOMAIN tr /\ a[Len(a)] <= Children(tr, Root, Parent(a))
      /\ Root \in DOMAIN tr
      /\ \A a \in DOMAIN tr : \A i \in 1..Children(tr, Root, a) : Append(a, i) \in DOMAIN tr
      /\ \A a \in DOMAIN tr : tr[a].t \notin Container => tr[a].n = 0
      /\ \A a \in DOMAIN tr : tr[a].t \in Container \cup Scalar
      /\ tr[Root].name = NoName
      /\ \A a \in DOMAIN tr : a # Root =>
            tr[a].name \in IF TypeAt(tr, Root, <<>>, Parent(a)) = "object" THEN CStrings ELSE {NoName}
  <2>1. \A a : ~OpenAt(Root, a)
    BY RootAddress
  <2> QED BY <2>1, SoundIs
<1>2. \A a \in DOMAIN tr : Children(tr, Root, a) = tr[a].n /\ TypeAt(tr, Root, <<>>, a) = tr[a].t
  BY RootAddress DEF Children, TypeAt
<1>3. /\ DOMAIN d = DOMAIN tr
      /\ \A a \in DOMAIN tr : d[a] = [t |-> tr[a].t, name |-> tr[a].name,
                                     n |-> IF tr[a].t \in Container THEN tr[a].n ELSE Len(tr[a].text)]
  BY DEF Shape
<1>4. \A a \in DOMAIN tr : /\ d[a].t = tr[a].t /\ d[a].name = tr[a].name
                           /\ tr[a].t \in Container => d[a].n = tr[a].n
  BY <1>3
<1> HIDE DEF d
<1>5. Rooted(d)
  BY <1>1, <1>3, <1>4 DEF Rooted
<1>6. Labelled(d)
  <2> SUFFICES ASSUME NEW a \in DOMAIN d PROVE a \in Address /\ d[a] \in Label
    BY DEF Labelled
  <2>1. /\ a \in Address /\ tr[a].t \in Container \cup Scalar
        /\ tr[a].name \in CStrings \cup {NoName} /\ tr[a].n \in Nat /\ tr[a].text \in Octets
    BY <1>1, <1>3 DEF Items
  <2>2. (IF tr[a].t \in Container THEN tr[a].n ELSE Len(tr[a].text)) \in Int
    BY <2>1, OctetsConcat
  <2> QED BY <1>3, <2>1, <2>2, TextsAssumption DEF Label
<1>7. Counted(d)
  BY <1>1, <1>2, <1>3, <1>4 DEF Counted, Items
<1>8. Attached(d)
  <2> SUFFICES ASSUME NEW a \in DOMAIN d, a # Root
               PROVE  Parent(a) \in DOMAIN d /\ d[Parent(a)].t \in Container /\ a[Len(a)] <= d[Parent(a)].n
    BY DEF Attached
  <2>1. Parent(a) \in DOMAIN tr /\ a[Len(a)] <= tr[Parent(a)].n
    BY <1>1, <1>2, <1>3
  <2>2. a[Len(a)] \in Position
    BY <1>1, <1>3, ParentAppend
  <2>3. tr[Parent(a)].n # 0
    BY <2>1, <2>2 DEF Position
  <2> QED BY <1>1, <1>3, <1>4, <2>1, <2>3
<1>9. Titled(d)
  <2> SUFFICES ASSUME NEW a \in DOMAIN d, a # Root
               PROVE  IF d[Parent(a)].t = "object" THEN d[a].name \in Name
                      ELSE d[a].name \in {NoName, ValueName}
    BY DEF Titled
  <2>1. Parent(a) \in DOMAIN tr
    BY <1>1, <1>3
  <2>2. tr[a].name \in IF tr[Parent(a)].t = "object" THEN CStrings ELSE {NoName}
    BY <1>1, <1>2, <1>3, <2>1
  <2> QED BY <1>3, <1>4, <2>1, <2>2, TextsAssumption
<1> QED BY <1>5, <1>6, <1>7, <1>8, <1>9 DEF WellFormed, d

\* Items lie only below items.
LEMMA PrefixIs ==
  ASSUME NEW h, Loose(tree, h), NEW b \in DOMAIN tree
  PROVE  /\ Len(b) \in Nat
         /\ \A k \in 0..Len(b) :
              /\ Prefix(b, k) \in DOMAIN tree /\ Prefix(b, k) \in Address /\ Len(Prefix(b, k)) = k
              /\ \A j \in 1..k : Prefix(b, k)[j] = b[j]
         /\ \A k \in 1..Len(b) : Prefix(b, k) # Root /\ Parent(Prefix(b, k)) = Prefix(b, k - 1)
<1> DEFINE m == Len(b)
           Good == {j \in Nat : j <= m => Prefix(b, m - j) \in DOMAIN tree}
<1>1. b \in Address /\ m \in Nat /\ \A j \in 1..m : b[j] \in Position
  BY LenProperties, ElementOfSeq DEF Loose, Address
<1>2. ASSUME NEW k \in 0..m
      PROVE  /\ Prefix(b, k) \in Address /\ Len(Prefix(b, k)) = k
             /\ \A j \in 1..k : Prefix(b, k)[j] = b[j]
             /\ k = m => Prefix(b, k) = b
  <2>1. Prefix(b, k) = [j \in 1..k |-> b[j]]
    BY DEF Prefix
  <2>2. Prefix(b, k) \in Seq(Position) /\ Len(Prefix(b, k)) = k /\ \A j \in 1..k : Prefix(b, k)[j] = b[j]
    BY <1>1, <2>1
  <2> QED BY <1>1, <2>2, AddressEqual DEF Address
<1>3. ASSUME NEW k \in 1..m
      PROVE  Prefix(b, k) # Root /\ Parent(Prefix(b, k)) = Prefix(b, k - 1) /\ Prefix(b, k)[k] = b[k]
  <2>1. k \in 0..m /\ k - 1 \in 0..m /\ k \in 1..k /\ k # 0
    BY <1>1
  <2>2. Prefix(b, k) # Root
    BY <1>2, <2>1 DEF Root
  <2>3. Parent(Prefix(b, k)) = [j \in 1..(k - 1) |-> Prefix(b, k)[j]]
    BY <1>2, <2>1 DEF Parent, Prefix
  <2>4. \A j \in 1..(k - 1) : Prefix(b, k)[j] = b[j]
    BY <1>2, <2>1
  <2>5. Parent(Prefix(b, k)) = Prefix(b, k - 1)
    BY ONLY <2>3, <2>4, Zenon DEF Prefix
  <2>6. Prefix(b, k)[k] = b[k]
    BY <1>2, <2>1, Zenon
  <2> QED BY ONLY <2>2, <2>5, <2>6
<1>4. 0 \in Good
  BY <1>1, <1>2
<1>5. ASSUME NEW j \in Nat, j \in Good PROVE j + 1 \in Good
  <2> SUFFICES ASSUME j + 1 <= m PROVE Prefix(b, m - (j + 1)) \in DOMAIN tree
    OBVIOUS
  <2> DEFINE k == m - j
  <2>1. k \in 1..m /\ k - 1 = m - (j + 1)
    BY <1>1
  <2>2. Prefix(b, k) \in DOMAIN tree
    BY <1>5, <1>1
  <2> HIDE DEF k
  <2>3. Parent(Prefix(b, k)) \in DOMAIN tree
    BY <1>3, <2>1, <2>2 DEF Loose
  <2> QED BY <1>3, <2>1, <2>3
<1>6. Nat \subseteq Good
  <2> HIDE DEF Good
  <2> QED BY <1>4, <1>5, Induction
<1>7. ASSUME NEW k \in 0..m PROVE Prefix(b, k) \in DOMAIN tree
  <2>1. m - k \in Good /\ m - k <= m /\ m - (m - k) = k
    <3>1. m - k \in Nat
      BY <1>1
    <3> QED BY <1>1, <1>6, <3>1
  <2> QED BY <2>1
<1> QED BY <1>1, <1>2, <1>3, <1>7

\* What is counted by its parent is linked to all that it lies below and that is
\* not open.
LEMMA IsLinked ==
  ASSUME NEW h, Loose(tree, h), NEW a \in Address, NEW b \in DOMAIN tree, Under(a, b),
         \A c : Len(a) <= Len(c) => ~OpenAt(h, c)
  PROVE  b \in Linked(a)
<1> DEFINE m == Len(b)
<1>1. /\ m \in Nat /\ Len(a) \in Nat
      /\ \A k \in 0..m : /\ Prefix(b, k) \in DOMAIN tree /\ Len(Prefix(b, k)) = k
                         /\ \A j \in 1..k : Prefix(b, k)[j] = b[j]
      /\ \A k \in 1..m : Prefix(b, k) # Root /\ Parent(Prefix(b, k)) = Prefix(b, k - 1)
  BY PrefixIs, LenProperties DEF Address
<1>2. ASSUME NEW k \in Len(a)..(m - 1)
      PROVE  Prefix(b, k) \in DOMAIN tree /\ b[k + 1] <= tree[Prefix(b, k)].n
  <2>1. k \in 0..m /\ k + 1 \in 1..m /\ k + 1 \in 0..m /\ (k + 1) - 1 = k /\ k + 1 \in 1..(k + 1)
    BY <1>1
  <2> DEFINE c == Prefix(b, k)
             e == Prefix(b, k + 1)
  <2>2. /\ c \in DOMAIN tree /\ e \in DOMAIN tree /\ e # Root /\ Parent(e) = c
        /\ Len(e) = k + 1 /\ e[k + 1] = b[k + 1] /\ Len(c) = k
    BY <1>1, <2>1
  <2> HIDE DEF c, e
  <2>3. e[Len(e)] <= Children(tree, h, c)
    BY <2>2 DEF Loose
  <2>4. ~OpenAt(h, c)
    BY <1>1, <2>2
  <2>5. b[k + 1] <= tree[c].n
    BY <2>2, <2>3, <2>4 DEF Children
  <2> QED BY <2>2, <2>5 DEF c
<1> QED BY <1>2 DEF Linked

\* cJSON_Delete of the list leaves nothing of it.
LEMMA DeletesList ==
  ASSUME NEW p \in Address, NEW i \in Position, Loose(tree, Append(p, i)),
         NEW ts, ts = [a \in DOMAIN tree \ UNION {Linked(a) : a \in {Append(p, k) : k \in 1..i}} |-> tree[a]]
  PROVE  Loose(ts, p)
<1> DEFINE h    == Append(p, i)
           gone == UNION {Linked(a) : a \in {Append(p, k) : k \in 1..i}}
           Inner(b) == Len(p) < Len(b) /\ Under(p, b)
<1>1. /\ \A a \in DOMAIN tree : a \in Address /\ tree[a] \in Items
      /\ \A a \in DOMAIN tree : a # Root =>
            Parent(a) \in DOMAIN tree /\ a[Len(a)] <= Children(tree, h, Parent(a))
      /\ \A a \in DOMAIN tree : OpenAt(h, a) => tree[a].n = 0
  BY DEF Loose
<1>2. /\ Len(p) \in Nat /\ \A a \in Address : Len(a) \in Nat /\ \A j \in 1..Len(a) : a[j] \in Position
      /\ i \in Nat
  BY LenProperties, ElementOfSeq DEF Address, Position
<1>3. \A a \in Address : /\ OpenAt(h, a) <=> OpenAt(p, a) \/ a = p
                         /\ ~OpenAt(p, p)
                         /\ Children(tree, h, a) = IF a = p THEN i ELSE Children(tree, p, a)
  BY DeeperIs, DeeperCounts
<1>4. ASSUME NEW k \in Position
      PROVE  /\ Append(p, k) \in Address /\ Len(Append(p, k)) = Len(p) + 1
             /\ Append(p, k)[Len(p) + 1] = k
             /\ \A j \in 1..Len(p) : Append(p, k)[j] = p[j]
  BY AppendProperties DEF Address
<1>5. ASSUME NEW b \in DOMAIN tree, Inner(b) PROVE b \in gone
  <2> DEFINE n == Len(p) + 1
             k == b[n]
             a == Prefix(b, n)
  <2>1. b \in Address /\ n \in 1..Len(b) /\ n \in 0..Len(b) /\ n - 1 = Len(p) /\ n \in 1..n
    BY <1>1, <1>2, <1>5
  <2>2. k \in Position
    BY <1>2, <2>1
  <2> HIDE DEF n
  <2>3. /\ a \in DOMAIN tree /\ a \in Address /\ Len(a) = n /\ (\A j \in 1..n : a[j] = b[j])
        /\ a # Root /\ Parent(a) = Prefix(b, n - 1)
    <3>1. Loose(tree, h) /\ b \in DOMAIN tree
      BY <1>5
    <3> QED BY <2>1, <3>1, PrefixIs
  <2> HIDE DEF a
  <2>4. Prefix(b, n - 1) = p
    <3>1. Prefix(b, n - 1) = [j \in 1..Len(p) |-> b[j]]
      BY <2>1 DEF Prefix
    <3>2. \A j \in 1..Len(p) : b[j] = p[j]
      BY <1>5 DEF Under
    <3>3. Prefix(b, n - 1) \in Address /\ Len(Prefix(b, n - 1)) = Len(p)
      BY <1>2, <2>1, <3>1 DEF Address
    <3> QED BY <3>1, <3>2, <3>3, AddressEqual
  <2>5. a = Append(p, k)
    <3>1. \A j \in 1..Len(p) : b[j] = p[j]
      BY <1>5 DEF Under
    <3>2. \A j \in 1..n : Append(p, k)[j] = b[j]
      BY <1>2, <1>4, <2>2, <3>1 DEF n
    <3>3. Append(p, k) \in Address /\ Len(Append(p, k)) = n
      BY <1>4, <2>2 DEF n
    <3> QED BY <2>3, <3>2, <3>3, AddressEqual
  <2>6. k <= i
    <3>1. a[Len(a)] = k /\ Parent(a) = p
      BY <2>1, <2>3, <2>4
    <3>2. a[Len(a)] <= Children(tree, h, p)
      BY <1>1, <2>3, <3>1
    <3> QED BY <1>3, <3>1, <3>2
  <2>7. k \in 1..i
    BY <1>2, <2>2, <2>6 DEF Position
  <2>8. Under(a, b)
    BY <2>1, <2>3 DEF Under
  <2>9. \A c : Len(a) <= Len(c) => ~OpenAt(h, c)
    <3>1. Len(h) = Len(p) + 1 /\ Len(a) = Len(p) + 1
      BY <1>4, <2>3 DEF n
    <3>2. \A c : OpenAt(h, c) => Len(c) < Len(p) + 1
      BY <3>1 DEF OpenAt
    <3>3. \A c : OpenAt(h, c) => Len(c) \in Nat
      BY DEF OpenAt
    <3> QED BY <1>2, <3>1, <3>2, <3>3
  <2>10. b \in Linked(a)
    BY <1>5, <2>3, <2>8, <2>9, IsLinked
  <2> QED BY <2>5, <2>7, <2>10
<1>6. ASSUME NEW b \in gone PROVE b \in DOMAIN tree /\ (b \in Address => Inner(b))
  <2>1. PICK k \in 1..i : b \in Linked(Append(p, k))
    OBVIOUS
  <2>2. k \in Position
    BY <1>2 DEF Position
  <2>3. b \in DOMAIN tree /\ Under(Append(p, k), b)
    BY <2>1 DEF Linked
  <2> QED BY <1>2, <1>4, <2>2, <2>3 DEF Under
<1>7. DOMAIN ts = DOMAIN tree \ gone /\ \A a \in DOMAIN ts : ts[a] = tree[a]
  OBVIOUS
<1> HIDE DEF gone, h
<1>8. ASSUME NEW a \in DOMAIN ts, a # Root
      PROVE  Parent(a) \in DOMAIN ts /\ a[Len(a)] <= Children(ts, p, Parent(a))
  <2> DEFINE b == Parent(a)
  <2>1. /\ a \in DOMAIN tree /\ b \in DOMAIN tree /\ a[Len(a)] <= Children(tree, h, b)
        /\ a \in Address /\ b \in Address /\ ~Inner(a)
    BY <1>1, <1>5, <1>7, <1>8
  <2>2. Len(a) \in Nat /\ Len(b) \in Nat /\ Len(b) < Len(a) /\ \A j \in 1..Len(b) : b[j] = a[j]
    <3>1. Len(a) \in Nat /\ Len(a) # 0
      BY <1>2, <1>8, <2>1, EmptySeq DEF Address, Root
    <3>2. b = [j \in 1..(Len(a) - 1) |-> a[j]]
      BY DEF Parent, Prefix
    <3>3. Len(b) = Len(a) - 1
      BY <3>1, <3>2
    <3> QED BY <3>1, <3>2, <3>3
  <2> HIDE DEF b
  <2>3. ~Inner(b) /\ b # p
    BY <1>2, <2>1, <2>2 DEF Under
  <2>4. b \in DOMAIN ts
    BY <1>6, <1>7, <2>1, <2>3
  <2>5. Children(ts, p, b) = Children(tree, h, b)
    <3>1. ts[b] = tree[b]
      BY <1>7, <2>4
    <3>2. Children(ts, p, b) = Children(tree, p, b)
      BY ONLY <3>1, Zenon DEF Children
    <3>3. Children(tree, h, b) = Children(tree, p, b)
      BY <1>3, <2>1, <2>3
    <3> QED BY <3>2, <3>3
  <2> QED BY <2>1, <2>4, <2>5 DEF b
<1>9. \A a \in DOMAIN ts : OpenAt(p, a) => ts[a].n = 0
  BY <1>1, <1>3, <1>7
<1> QED BY <1>1, <1>7, <1>8, <1>9 DEF Loose

\* cJSON_Delete of the root leaves nothing at all.
LEMMA DeletesAll ==
  ASSUME Loose(tree, Root)
  PROVE  Linked(Root) = DOMAIN tree
<1>1. ASSUME NEW b \in DOMAIN tree PROVE b \in Linked(Root)
  <2>1. Under(Root, b)
    <3>1. Len(b) \in Nat
      BY PrefixIs
    <3> QED BY <3>1 DEF Under, Root
  <2> QED BY <2>1, RootAddress, IsLinked
<1> QED BY <1>1 DEF Linked

(***************************************************************************)
(* Scanning a text.                                                        *)
(***************************************************************************)
LEMMA TextIs ==
  ASSUME text \in Octets
  PROVE  /\ Len(text) \in Nat /\ Length = Len(text) + 1 /\ Length \in Nat
         /\ \A i \in Nat : /\ At(text, i) \in 0..255
                           /\ At(text, i) # NUL => i < Len(text) /\ i + 1 < Length
<1>1. Len(text) \in Nat /\ \A i \in 1..Len(text) : text[i] \in 0..255
  BY ElementOfSeq, LenProperties DEF Octets
<1> QED BY <1>1 DEF Length, At, NUL

\* buffer_skip_whitespace stays in the text: it steps back from its end.
LEMMA SkipWhitespaceIs ==
  ASSUME text \in Octets, NEW o \in 0..Length
  PROVE  /\ SkipWhitespace(o) \in o..Length
         /\ o < Length => SkipWhitespace(o) < Length
<1> DEFINE solid == {j \in o..Len(text) : At(text, j) \notin Blank}
<1>1. Len(text) \in Nat /\ Length = Len(text) + 1 /\ o \in Nat
  BY TextIs
<1>2. CASE o >= Length
  BY <1>1, <1>2 DEF SkipWhitespace
<1>3. CASE o < Length /\ solid = {}
  BY <1>1, <1>3 DEF SkipWhitespace
<1>4. CASE o < Length /\ solid # {}
  <2>1. SkipWhitespace(o) = Min(solid)
    BY <1>1, <1>4 DEF SkipWhitespace
  <2>2. solid \subseteq Nat
    BY <1>1
  <2>3. Min(solid) \in solid
    BY <1>4, <2>2, MinIs
  <2> QED BY <1>1, <2>1, <2>3
<1> QED BY <1>1, <1>2, <1>3, <1>4

\* The digits of a number end in the text, before its NUL at the latest.
LEMMA NumberEndIs ==
  ASSUME text \in Octets, NEW o \in 0..Len(text)
  PROVE  NumberEnd(o) \in o..Len(text)
<1> DEFINE stops == {j \in o..Length : At(text, j) \notin Numeric \/ j = o + NumberBuffer - 1}
           ends  == {o} \cup {j \in o..Min(stops) : IsNumeral(Slice(text, o, j))}
           n     == Len(text)
<1>1. n \in Nat /\ Length = n + 1 /\ Length \in Nat /\ o \in Nat /\ o <= n
  BY TextIs
<1>2. n \in stops
  <2>1. At(text, n) = NUL
    BY <1>1 DEF At
  <2>2. NUL \notin Numeric
    BY ByteValues DEF NUL, Numeric, Signs, Exponents
  <2> QED BY <1>1, <2>1, <2>2
<1>3. stops \subseteq Nat /\ stops # {}
  BY <1>1, <1>2
<1>4. Min(stops) \in stops /\ Min(stops) <= n
  BY <1>2, <1>3, MinIs
<1>5. Min(stops) \in o..n
  BY <1>1, <1>4
<1>6. NumberEnd(o) = Max(ends)
  BY DEF NumberEnd
<1> HIDE DEF stops
<1>7. ends \subseteq o..n /\ ends # {}
  BY <1>1, <1>5
<1> HIDE DEF ends, n
<1>8. ends \subseteq 0..n
  BY <1>1, <1>7
<1>9. Max(ends) \in ends
  BY <1>1, <1>7, <1>8, MaxIs
<1> QED BY <1>6, <1>7, <1>9 DEF n

(***************************************************************************)
(* The recursive functions that look for the end of a string and count its *)
(* backslashes: they look further ahead until they reach some number.      *)
(***************************************************************************)
LEMMA BackwardInduction ==
  ASSUME NEW N \in Nat, NEW S, \A j \in Nat : j >= N => j \in S,
         \A j \in Nat : (\A k \in Nat : k > j => k \in S) => j \in S
  PROVE  Nat \subseteq S
<1> DEFINE T == Nat \ S
<1> SUFFICES ASSUME T # {} PROVE FALSE
  OBVIOUS
<1>1. T \subseteq 0..N
  OBVIOUS
<1>2. PICK m \in T : \A y \in T : y <= m
  <2> HIDE DEF T
  <2> QED BY <1>1, MaxIs
<1>3. ASSUME NEW k \in Nat, k > m PROVE k \in S
  <2>1. m \in Nat /\ ~(k <= m)
    BY <1>3
  <2>2. k \notin T
    BY <1>2, <2>1
  <2> QED BY <2>2
<1> QED BY <1>2, <1>3

\* f goes from j to step[j] until it comes to a place of S, and adds up.
Walks(f, S, base, add, step) ==
  f = [j \in Nat |-> IF j \in S THEN base[j] ELSE add[j] + f[step[j]]]

\* A walk that only goes forward has a value at every number.
LEMMA WalkExists ==
  ASSUME NEW N \in Nat, NEW S, \A j \in Nat : j >= N => j \in S,
         NEW base \in [Nat -> Nat], NEW add \in [Nat -> Nat],
         NEW step \in [Nat -> Nat], \A j \in Nat : step[j] > j
  PROVE  \E f \in [Nat -> Nat] : Walks(f, S, base, add, step)
<1> DEFINE From0(f, m) == \A j \in Nat : j >= m => f[j] = IF j \in S THEN base[j] ELSE add[j] + f[step[j]]
           P == {m \in Nat : \E f \in [Nat -> Nat] : From0(f, m)}
<1>1. ASSUME NEW m \in Nat, m >= N PROVE m \in P
  <2>1. From0(base, m)
    BY <1>1
  <2> QED BY <2>1
<1>2. ASSUME NEW m \in Nat, \A k \in Nat : k > m => k \in P PROVE m \in P
  <2>1. m + 1 \in P
    <3> HIDE DEF P
    <3> QED BY <1>2
  <2>2. PICK f \in [Nat -> Nat] : From0(f, m + 1)
    BY <2>1
  <2> DEFINE v == IF m \in S THEN base[m] ELSE add[m] + f[step[m]]
             g == [f EXCEPT ![m] = v]
  <2>3. v \in Nat
    OBVIOUS
  <2> HIDE DEF v
  <2>4. g \in [Nat -> Nat] /\ g[m] = v /\ \A j \in Nat : j # m => g[j] = f[j]
    BY <2>3
  <2> HIDE DEF g
  <2>5. ASSUME NEW j \in Nat, j >= m
        PROVE  g[j] = IF j \in S THEN base[j] ELSE add[j] + g[step[j]]
    <3>1. step[j] \in Nat /\ step[j] # m
      BY <2>5
    <3>2. g[step[j]] = f[step[j]]
      BY <2>4, <3>1
    <3>3. CASE j = m
      BY <2>4, <3>2, <3>3 DEF v
    <3>4. CASE j # m
      BY <2>2, <2>4, <2>5, <3>2, <3>4
    <3> QED BY <3>3, <3>4
  <2> QED BY <2>4, <2>5
<1>3. 0 \in P
  <2> HIDE DEF P
  <2> QED BY <1>1, <1>2, BackwardInduction
<1>4. PICK f \in [Nat -> Nat] : From0(f, 0)
  BY <1>3
<1>5. \A j \in Nat : f[j] = IF j \in S THEN base[j] ELSE add[j] + f[step[j]]
  BY <1>4
<1>6. Walks(f, S, base, add, step)
  BY <1>5 DEF Walks
<1> QED BY <1>6

\* The byte that starts an escape.
Backslash == Byte["\\"]

\* f is the recursive function of Skipped.
Counts(f, end) ==
  f = [j \in Nat |-> IF j >= end THEN 0
                     ELSE IF At(text, j) = Byte["\\"] THEN 1 + f[j + 2] ELSE f[j + 1]]

\* The count of skipped bytes: a reverse solidus is one, and is read with its pair.
LEMMA SkippedIs ==
  ASSUME NEW end \in Nat, NEW o \in Nat
  PROVE  /\ Skipped(o, end) \in Nat
         /\ o >= end => Skipped(o, end) = 0
         /\ o < end /\ At(text, o) = Backslash => Skipped(o, end) = 1 + Skipped(o + 2, end)
         /\ o < end /\ At(text, o) # Backslash => Skipped(o, end) = Skipped(o + 1, end)
<1> DEFINE f == CHOOSE g : Counts(g, end)
<1>1. \A j : Skipped(j, end) = f[j]
  BY DEF Skipped, Counts
<1>2. \E g : Counts(g, end)
  <2> DEFINE S    == {j \in Nat : j >= end}
             base == [j \in Nat |-> 0]
             add  == [j \in Nat |-> IF At(text, j) = Byte["\\"] THEN 1 ELSE 0]
             step == [j \in Nat |-> IF At(text, j) = Byte["\\"] THEN j + 2 ELSE j + 1]
  <2>1. /\ base \in [Nat -> Nat] /\ add \in [Nat -> Nat] /\ step \in [Nat -> Nat]
        /\ \A j \in Nat : step[j] > j
        /\ \A j \in Nat : j >= end => j \in S
    OBVIOUS
  <2>2. PICK g \in [Nat -> Nat] : Walks(g, S, base, add, step)
    <3> HIDE DEF S, base, add, step
    <3> QED BY <2>1, WalkExists
  <2>3. g = [j \in Nat |-> IF j \in S THEN base[j] ELSE add[j] + g[step[j]]]
    BY <2>2 DEF Walks
  <2> DEFINE h == [j \in Nat |-> IF j >= end THEN 0
                     ELSE IF At(text, j) = Byte["\\"] THEN 1 + g[j + 2] ELSE g[j + 1]]
  <2>4. ASSUME NEW j \in Nat PROVE g[j] = h[j]
    <3>1. g[j] = IF j \in S THEN base[j] ELSE add[j] + g[step[j]]
      <4> HIDE DEF S, base, add, step
      <4> QED BY <2>3
    <3>2. g[j + 1] \in Nat /\ g[j + 2] \in Nat
      OBVIOUS
    <3>3. CASE j >= end
      BY <3>1, <3>3
    <3>4. CASE j < end /\ At(text, j) = Byte["\\"]
      BY <3>1, <3>2, <3>4
    <3>5. CASE j < end /\ At(text, j) # Byte["\\"]
      BY <3>1, <3>2, <3>5
    <3> QED BY <3>3, <3>4, <3>5
  <2>5. g = h
    BY <2>4
  <2>6. Counts(g, end)
    BY <2>5 DEF Counts
  <2> QED BY <2>6
<1>3. Counts(f, end)
  BY <1>2
<1> HIDE DEF f
<1>4. ASSUME NEW j \in Nat
      PROVE  f[j] = IF j >= end THEN 0 ELSE IF At(text, j) = Byte["\\"] THEN 1 + f[j + 2] ELSE f[j + 1]
  BY <1>3 DEF Counts
<1> DEFINE Good == {j \in Nat : f[j] \in Nat}
<1>5. \A j \in Nat : j >= end => j \in Good
  BY <1>4
<1>6. ASSUME NEW j \in Nat, \A k \in Nat : k > j => k \in Good PROVE j \in Good
  <2>1. j + 1 \in Good /\ j + 2 \in Good
    BY <1>6
  <2> QED BY <1>4, <2>1
<1>7. Nat \subseteq Good
  <2> HIDE DEF Good
  <2> QED BY <1>5, <1>6, BackwardInduction
<1> QED BY <1>1, <1>4, <1>7 DEF Backslash

\* How much of a string that ends at end there is from o on, an escape counted
\* as one byte.
Left(o, end) == (end - o) - Skipped(o, end)

\* What is left is counted the same way: one for an escape, one for a byte.
LEMMA LeftIs ==
  ASSUME NEW end \in Nat, NEW o \in Nat
  PROVE  /\ Left(o, end) \in Int
         /\ o >= end => Left(o, end) = end - o
         /\ o < end /\ At(text, o) = Backslash => Left(o, end) = 1 + Left(o + 2, end)
         /\ o < end /\ At(text, o) # Backslash => Left(o, end) = 1 + Left(o + 1, end)
<1>1. Skipped(o, end) \in Nat /\ Skipped(o + 1, end) \in Nat /\ Skipped(o + 2, end) \in Nat
  <2>1. o + 1 \in Nat /\ o + 2 \in Nat
    OBVIOUS
  <2> QED BY <2>1, SkippedIs, Zenon
<1>2. o >= end => Left(o, end) = end - o
  BY SkippedIs DEF Left
<1>3. o < end /\ At(text, o) = Backslash => Left(o, end) = 1 + Left(o + 2, end)
  BY <1>1, SkippedIs DEF Left
<1>4. o < end /\ At(text, o) # Backslash => Left(o, end) = 1 + Left(o + 1, end)
  BY <1>1, SkippedIs DEF Left
<1> QED BY <1>1, <1>2, <1>3, <1>4 DEF Left

\* One byte on there is no more left.
LEMMA LeftFallsByOne ==
  ASSUME NEW end \in Nat
  PROVE  \A o \in Nat : Left(o + 1, end) <= Left(o, end)
<1> DEFINE L(j) == Left(j, end)
           S == {j \in Nat : L(j + 1) <= L(j)}
<1>1. ASSUME NEW j \in Nat
      PROVE  /\ L(j) \in Int /\ L(j + 1) \in Int /\ L(j + 2) \in Int /\ L(j + 3) \in Int
             /\ j >= end => L(j) = end - j
             /\ j < end => L(j) = 1 + L(j + 1) \/ (At(text, j) = Backslash /\ L(j) = 1 + L(j + 2))
  BY LeftIs
<1> HIDE DEF L
<1>2. ASSUME NEW j \in Nat, j >= end PROVE j \in S
  BY <1>1, <1>2
<1>3. ASSUME NEW j \in Nat, \A k \in Nat : k > j => k \in S PROVE j \in S
  <2>1. CASE j >= end
    BY <1>2, <2>1
  <2>2. CASE j < end /\ L(j) = 1 + L(j + 1)
    BY <1>1, <2>2
  <2>3. CASE j < end /\ L(j) = 1 + L(j + 2)
    <3>1. CASE j + 1 >= end
      BY <1>1, <2>3, <3>1
    <3>2. CASE j + 1 < end /\ L(j + 1) = 1 + L(j + 2)
      BY <1>1, <2>3, <3>2
    <3>3. CASE j + 1 < end /\ L(j + 1) = 1 + L(j + 3)
      <4>1. j + 2 \in S
        BY <1>3
      <4> QED BY <1>1, <2>3, <3>3, <4>1
    <3>4. j + 1 < end => L(j + 1) = 1 + L(j + 2) \/ L(j + 1) = 1 + L(j + 3)
      <4>1. j + 1 \in Nat /\ j + 1 + 1 = j + 2 /\ j + 1 + 2 = j + 3
        OBVIOUS
      <4> QED BY <1>1, <4>1
    <3> QED BY <3>1, <3>2, <3>3, <3>4
  <2> QED BY <1>1, <2>1, <2>2, <2>3
<1>4. Nat \subseteq S
  <2> HIDE DEF S
  <2> QED BY <1>2, <1>3, BackwardInduction
<1> QED BY <1>4 DEF L

\* And n bytes on.
LEMMA LeftFalls ==
  ASSUME NEW end \in Nat, NEW o \in Nat, NEW n \in Nat
  PROVE  Left(o + n, end) <= Left(o, end)
<1> DEFINE S == {m \in Nat : Left(o + m, end) <= Left(o, end)}
<1>1. 0 \in S
  BY LeftIs
<1>2. ASSUME NEW m \in Nat, m \in S PROVE m + 1 \in S
  <2>1. o + m \in Nat /\ o + m + 1 \in Nat /\ o + (m + 1) = o + m + 1
    OBVIOUS
  <2>2. Left(o + m + 1, end) <= Left(o + m, end)
    BY <2>1, LeftFallsByOne
  <2>3. Left(o, end) \in Int /\ Left(o + m, end) \in Int /\ Left(o + m + 1, end) \in Int
    BY <2>1, LeftIs
  <2> QED BY <1>2, <2>1, <2>2, <2>3
<1>3. Nat \subseteq S
  <2> HIDE DEF S
  <2> QED BY <1>1, <1>2, Induction
<1> QED BY <1>3

\* Bytes that are no reverse solidus count as what they are.
LEMMA LeftPlain ==
  ASSUME NEW end \in Nat, NEW o \in Nat, NEW n \in Nat, o + n <= end,
         \A j \in o..(o + n - 1) : At(text, j) # Backslash
  PROVE  Left(o, end) = n + Left(o + n, end)
<1> DEFINE S == {m \in Nat : m <= n => Left(o, end) = m + Left(o + m, end)}
<1>1. 0 \in S
  BY LeftIs
<1>2. ASSUME NEW m \in Nat, m \in S PROVE m + 1 \in S
  <2> SUFFICES ASSUME m + 1 <= n PROVE Left(o, end) = m + 1 + Left(o + (m + 1), end)
    OBVIOUS
  <2>1. o + m \in Nat /\ o + m < end /\ o + m + 1 \in Nat /\ o + (m + 1) = o + m + 1 /\ o + m \in o..(o + n - 1)
    OBVIOUS
  <2>2. At(text, o + m) # Backslash
    BY <2>1
  <2>3. Left(o + m, end) = 1 + Left(o + m + 1, end)
    BY <2>1, <2>2, LeftIs
  <2>4. Left(o, end) \in Int /\ Left(o + m, end) \in Int /\ Left(o + m + 1, end) \in Int
    BY <2>1, LeftIs
  <2> QED BY <1>2, <2>1, <2>3, <2>4
<1>3. Nat \subseteq S
  <2> HIDE DEF S
  <2> QED BY <1>1, <1>2, Induction
<1> QED BY <1>3

\* g is the recursive function of QuoteFrom.
Seeks(g) ==
  g = [j \in Nat |-> IF j >= Length \/ At(text, j) = Byte["quote"] THEN j
                     ELSE g[j + IF At(text, j) = Byte["\\"] THEN 2 ELSE 1]]

\* The quote is never before the place where the search starts.
LEMMA QuoteFromIs ==
  ASSUME text \in Octets, NEW o \in Nat
  PROVE  QuoteFrom(o) \in Nat /\ QuoteFrom(o) >= o
<1> DEFINE f == CHOOSE g : Seeks(g)
<1>1. QuoteFrom(o) = f[o]
  BY DEF QuoteFrom, Seeks
<1>0. Length \in Nat
  BY TextIs
<1>2. \E g : Seeks(g)
  <2> DEFINE S    == {j \in Nat : j >= Length \/ At(text, j) = Byte["quote"]}
             base == [j \in Nat |-> j]
             add  == [j \in Nat |-> 0]
             step == [j \in Nat |-> j + IF At(text, j) = Byte["\\"] THEN 2 ELSE 1]
  <2>1. /\ base \in [Nat -> Nat] /\ add \in [Nat -> Nat] /\ step \in [Nat -> Nat]
        /\ \A j \in Nat : step[j] > j
        /\ \A j \in Nat : j >= Length => j \in S
    OBVIOUS
  <2>2. PICK g \in [Nat -> Nat] : Walks(g, S, base, add, step)
    <3> HIDE DEF S, base, add, step
    <3> QED BY <1>0, <2>1, WalkExists
  <2>3. g = [j \in Nat |-> IF j \in S THEN base[j] ELSE add[j] + g[step[j]]]
    BY <2>2 DEF Walks
  <2> DEFINE h == [j \in Nat |-> IF j >= Length \/ At(text, j) = Byte["quote"] THEN j
                     ELSE g[j + IF At(text, j) = Byte["\\"] THEN 2 ELSE 1]]
  <2>4. ASSUME NEW j \in Nat PROVE g[j] = h[j]
    <3>1. g[j] = IF j \in S THEN base[j] ELSE add[j] + g[step[j]]
      <4> HIDE DEF S, base, add, step
      <4> QED BY <2>3
    <3>2. g[step[j]] \in Nat /\ step[j] = j + IF At(text, j) = Byte["\\"] THEN 2 ELSE 1
      OBVIOUS
    <3> QED BY <3>1, <3>2
  <2>5. g = h
    BY <2>4
  <2>6. Seeks(g)
    BY <2>5 DEF Seeks
  <2> QED BY <2>6
<1>3. Seeks(f)
  BY <1>2
<1> HIDE DEF f
<1>4. ASSUME NEW j \in Nat
      PROVE  f[j] = IF j >= Length \/ At(text, j) = Byte["quote"] THEN j
                    ELSE f[j + IF At(text, j) = Byte["\\"] THEN 2 ELSE 1]
  BY <1>3 DEF Seeks
<1> DEFINE Good == {j \in Nat : f[j] \in Nat /\ f[j] >= j}
<1>5. \A j \in Nat : j >= Length => j \in Good
  BY <1>4
<1>6. ASSUME NEW j \in Nat, \A k \in Nat : k > j => k \in Good PROVE j \in Good
  <2>1. /\ f[j + 1] \in Nat /\ f[j + 1] >= j + 1
        /\ f[j + 2] \in Nat /\ f[j + 2] >= j + 2
    BY <1>6
  <2>2. f[j] = j \/ f[j] = f[j + 1] \/ f[j] = f[j + 2]
    BY <1>4
  <2> QED BY <2>1, <2>2
<1>7. Nat \subseteq Good
  <2> HIDE DEF Good
  <2> QED BY <1>0, <1>5, <1>6, BackwardInduction
<1> QED BY <1>1, <1>7

(***************************************************************************)
(* Escapes.                                                                *)
(***************************************************************************)
LEMMA EscapesAre ==
  ASSUME NEW b \in DOMAIN Escapes
  PROVE  Escapes[b] \in 0..255
<1> DEFINE itself == {Byte["quote"], Byte["\\"], Byte["/"]}
<1>1. \/ b = Byte["b"] /\ Escapes[b] = 8
      \/ b = Byte["f"] /\ Escapes[b] = 12
      \/ b = Byte["n"] /\ Escapes[b] = 10
      \/ b = Byte["r"] /\ Escapes[b] = 13
      \/ b = Byte["t"] /\ Escapes[b] = 9
      \/ b \in itself /\ Escapes[b] = b
  BY ByteValues, SMT DEF Escapes
<1>2. \A c \in itself : c \in 0..255
  BY ByteValues
<1> QED BY <1>1, <1>2, SMT

\* Two bytes are a text of length two.
LEMMA TwoOctets ==
  ASSUME NEW a \in 0..255, NEW b \in 0..255
  PROVE  <<a, b>> \in Octets /\ Len(<<a, b>>) = 2
BY DEF Octets

\* Three bytes are a text of length three.
LEMMA ThreeOctets ==
  ASSUME NEW a \in 0..255, NEW b \in 0..255, NEW c \in 0..255
  PROVE  <<a, b, c>> \in Octets /\ Len(<<a, b, c>>) = 3
BY DEF Octets

\* The number of code points in a plane of Unicode.
Plane == 65536

\* utf16_literal_to_utf8: up to three bytes for a unit, up to four for a pair.
LEMMA Utf8Is ==
  ASSUME NEW c \in Nat, c < 17 * Plane
  PROVE  /\ Utf8(c) \in Octets
         /\ c < 128 => Len(Utf8(c)) = 1
         /\ c < Plane => Len(Utf8(c)) \in 1..3
         /\ Len(Utf8(c)) \in 1..4
<1> DEFINE low1 == 128 + ((c \div 1) % 64)
           low2 == 128 + ((c \div 64) % 64)
           low3 == 128 + ((c \div 4096) % 64)
<1>1. low1 \in 0..255 /\ low2 \in 0..255 /\ low3 \in 0..255
  <2>1. ASSUME NEW k \in Nat PROVE 128 + (k % 64) \in 0..255
    BY SMT
  <2>2. c \div 1 \in Nat /\ c \div 64 \in Nat /\ c \div 4096 \in Nat
    BY SMT
  <2> QED BY <2>1, <2>2, SMT
<1>2. CASE c < 128
  <2>1. Utf8(c) = <<c>>
    BY <1>2, SMT DEF Utf8, Plane
  <2>2. c \in 0..255
    BY <1>2, SMT
  <2>3. Utf8(c) \in Octets /\ Len(Utf8(c)) = 1
    BY ONLY <2>1, <2>2, OneOctet, Zenon
  <2> QED BY <1>2, <2>3, SMT DEF Plane
<1>3. CASE c >= 128 /\ c < 2048
  <2> DEFINE first == 192 + c \div 64
  <2>1. Utf8(c) = <<first, low1>>
    BY <1>3, SMT DEF Utf8, Plane
  <2>2. first \in 0..255
    BY <1>3, SMT DEF Plane
  <2>3. Utf8(c) \in Octets /\ Len(Utf8(c)) = 2
    <3> HIDE DEF first, low1, low2, low3
    <3> QED BY ONLY <1>1, <2>1, <2>2, TwoOctets, Zenon
  <2> QED BY <1>3, <2>3, SMT DEF Plane
<1>4. CASE c >= 2048 /\ c < Plane
  <2> DEFINE first == 224 + c \div 4096
  <2>1. Utf8(c) = <<first, low2, low1>>
    BY <1>4, SMT DEF Utf8, Plane
  <2>2. first \in 0..255
    BY <1>4, SMT DEF Plane
  <2>3. Utf8(c) \in Octets /\ Len(Utf8(c)) = 3
    <3> HIDE DEF first, low1, low2, low3
    <3>1. <<first, low2, low1>> \in Octets /\ Len(<<first, low2, low1>>) = 3
      BY ONLY <1>1, <2>2, ThreeOctets, ZenonT(60)
    <3> QED BY ONLY <2>1, <3>1, Zenon
  <2> QED BY <1>4, <2>3, SMT DEF Plane
<1>5. CASE c >= Plane
  <2> DEFINE first == 240 + c \div 262144
  <2>1. Utf8(c) = <<first, low3, low2, low1>>
    BY <1>5, SMT DEF Utf8, Plane
  <2>2. first \in 0..255
    BY <1>5, SMT DEF Plane
  <2>3. Utf8(c) \in Octets /\ Len(Utf8(c)) = 4
    <3> HIDE DEF first, low1, low2, low3
    <3>1. <<first, low3, low2, low1>> \in Octets /\ Len(<<first, low3, low2, low1>>) = 4
      BY ONLY <1>1, <2>2, FourOctets, ZenonT(60)
    <3> QED BY ONLY <2>1, <3>1, Zenon
  <2> QED BY <1>5, <2>3, SMT DEF Plane
<1> QED BY <1>2, <1>3, <1>4, <1>5, SMT DEF Plane

\* No reverse solidus is a hexadecimal digit.
LEMMA HexDigitIs ==
  ASSUME NEW b \in Int
  PROVE  HexDigit(b) \in -1..15 /\ (HexDigit(b) # -1 => b # Backslash)
<1>1. /\ Byte["0"] = 48 /\ Byte["9"] = 57 /\ Byte["A"] = 65 /\ Byte["F"] = 70
      /\ Byte["a"] = 97 /\ Byte["f"] = 102 /\ Backslash = 92
  BY ByteValues DEF Backslash
<1>2. CASE b \in 48..57
  BY <1>1, <1>2 DEF HexDigit, IsDigit, Value
<1>3. CASE b \in 65..70
  BY <1>1, <1>3 DEF HexDigit, IsDigit, Value
<1>4. CASE b \in 97..102
  BY <1>1, <1>4 DEF HexDigit, IsDigit, Value
<1>5. CASE b \notin 48..57 /\ b \notin 65..70 /\ b \notin 97..102
  BY <1>1, <1>5 DEF HexDigit, IsDigit, Value
<1> QED BY <1>2, <1>3, <1>4, <1>5

\* Unless parse_hex4 returns 0, it has read four digits.
LEMMA ParseHex4Is ==
  ASSUME NEW s, \A j \in 1..4 : s[j] \in Int
  PROVE  /\ ParseHex4(s) \in Nat /\ ParseHex4(s) < Plane
         /\ ParseHex4(s) # 0 => \A j \in 1..4 : s[j] # Backslash
<1> DEFINE h == [j \in 1..4 |-> HexDigit(s[j])]
<1>1. \A j \in 1..4 : h[j] = HexDigit(s[j]) /\ h[j] \in -1..15 /\ (h[j] # -1 => s[j] # Backslash)
  BY HexDigitIs
<1>2. ParseHex4(s) = IF \E j \in 1..4 : h[j] = -1 THEN 0
                     ELSE 4096 * h[1] + 256 * h[2] + 16 * h[3] + h[4]
  BY DEF ParseHex4
<1> HIDE DEF h
<1>3. CASE \E j \in 1..4 : h[j] = -1
  <2>1. ParseHex4(s) = 0
    BY ONLY <1>2, <1>3, SMT
  <2> QED BY ONLY <2>1, SMT DEF Plane
<1>4. CASE \A j \in 1..4 : h[j] # -1
  <2>1. h[1] \in 0..15 /\ h[2] \in 0..15 /\ h[3] \in 0..15 /\ h[4] \in 0..15
    BY <1>1, <1>4, SMT
  <2>2. ParseHex4(s) = 4096 * h[1] + 256 * h[2] + 16 * h[3] + h[4]
    BY ONLY <1>2, <1>4, SMT
  <2>3. ParseHex4(s) \in Nat /\ ParseHex4(s) < Plane
    <3> DEFINE a == h[1]
               b == h[2]
               c == h[3]
               d == h[4]
    <3>1. /\ a \in 0..15 /\ b \in 0..15 /\ c \in 0..15 /\ d \in 0..15
          /\ ParseHex4(s) = 4096 * a + 256 * b + 16 * c + d
      BY <2>1, <2>2
    <3> HIDE DEF a, b, c, d
    <3> QED BY ONLY <3>1, SMT DEF Plane
  <2>4. \A j \in 1..4 : s[j] # Backslash
    BY ONLY <1>1, <1>4, Zenon
  <2> QED BY ONLY <2>3, <2>4
<1> QED BY ONLY <1>3, <1>4

\* So the four digits of an escaped unit hold no reverse solidus, unless it is 0.
LEMMA UnitIs ==
  ASSUME text \in Octets, NEW o \in Nat, o + 6 <= Len(text)
  PROVE  /\ Unit(o) \in Nat /\ Unit(o) < Plane
         /\ Unit(o) # 0 => \A j \in (o + 2)..(o + 5) : At(text, j) # Backslash
<1> DEFINE s == Slice(text, o + 2, o + 6)
<1>1. Len(text) \in Nat /\ o + 2 \in Nat /\ o + 6 \in (o + 2)..Len(text) /\ (o + 6) - (o + 2) = 4
  BY TextIs
<1>2. /\ s \in Octets /\ Len(s) = (o + 6) - (o + 2)
      /\ \A k \in 0..((o + 6) - (o + 2) - 1) : At(s, k) = At(text, o + 2 + k)
  BY <1>1, OctetsSlice
<1> HIDE DEF s
<1>3. Len(s) = 4 /\ \A k \in 0..3 : At(s, k) = At(text, o + 2 + k)
  BY <1>1, <1>2
<1>4. \A k \in 0..3 : s[k + 1] = At(text, o + 2 + k) /\ At(text, o + 2 + k) \in 0..255
  <2> TAKE k \in 0..3
  <2>1. At(s, k) = At(text, o + 2 + k)
    BY <1>3, Zenon
  <2>2. k < 4 /\ o + 2 + k \in Nat
    BY SMT
  <2>3. At(s, k) = s[k + 1]
    BY ONLY <1>3, <2>2, Zenon DEF At
  <2>4. At(text, o + 2 + k) \in 0..255
    BY ONLY text \in Octets, <2>2, TextIs, Zenon
  <2> QED BY ONLY <2>1, <2>3, <2>4, Zenon
<1>5. \A j \in 1..4 : s[j] = At(text, o + 1 + j) /\ s[j] \in Int
  <2> TAKE j \in 1..4
  <2>1. j - 1 \in 0..3 /\ j - 1 + 1 = j /\ o + 2 + (j - 1) = o + 1 + j
    OBVIOUS
  <2>2. s[j - 1 + 1] = At(text, o + 2 + (j - 1)) /\ At(text, o + 2 + (j - 1)) \in 0..255
    BY ONLY <1>4, <2>1, Zenon
  <2> QED BY ONLY <2>1, <2>2
<1>6. Unit(o) = ParseHex4(s)
  BY DEF Unit, s
<1>7. /\ Unit(o) \in Nat /\ Unit(o) < Plane
      /\ Unit(o) # 0 => \A j \in 1..4 : s[j] # Backslash
  BY <1>5, <1>6, ParseHex4Is
<1>8. ASSUME Unit(o) # 0, NEW j \in (o + 2)..(o + 5) PROVE At(text, j) # Backslash
  <2>1. j - (o + 1) \in 1..4 /\ o + 1 + (j - (o + 1)) = j
    OBVIOUS
  <2> QED BY <1>5, <1>7, <1>8, <2>1
<1> QED BY <1>7, <1>8

(***************************************************************************)
(* The parser.                                                             *)
(***************************************************************************)
\* Whether the item at hand has no value yet, and no name yet; and whether the
\* tree is kept.
Pending  == parsing \in {"begin", "value", "string", "item", "colon"}
Untitled == parsing = "item" \/ (parsing = "string" /\ copy.into = "name")
Live     == parsing \in {"begin", "value", "string", "item", "colon", "after", "parsed"}

\* The copy of a string has room for what is left of it and two bytes more.
Copied ==
  parsing = "string" =>
    /\ copy.end < Length /\ offset <= copy.end + 1
    /\ Len(copy.bytes) + Left(offset, copy.end) <= copy.room - 2

Scanned ==
  /\ parsing \in ParserStages
  /\ text \in Octets /\ offset \in 0..Length
  /\ open \in Seq(Container) /\ here \in Address /\ Len(open) = Len(here)
  /\ copy \in [end : Nat, into : {"text", "name"}, room : Nat, bytes : Octets]
  /\ Len(copy.bytes) < copy.room

Enclosed ==
  /\ parsing = "item" => offset < Len(text)
  /\ Untitled => open # <<>>
  /\ parsing = "string" /\ copy.into = "name" => Innermost = "object"
  /\ parsing \in {"idle", "begin", "parsed", "failed"} => open = <<>>

Held ==
  /\ parsing \in {"idle", "failed"} => DOMAIN tree = {}
  /\ parsing = "failing" => Loose(tree, here)
  /\ Live => Sound(tree, here, open, Pending, Untitled)

ParserInv == Scanned /\ Copied /\ Enclosed /\ Held

\* Where the parser is inside a container.
LEMMA InsideIs ==
  ASSUME Scanned, open # <<>>
  PROVE  \E p \in Address, i \in Position, op \in Seq(Container), type \in Container :
           /\ here = Append(p, i) /\ open = Append(op, type) /\ Len(op) = Len(p)
           /\ Parent(here) = p /\ Last(here) = i /\ Front(open) = op /\ Innermost = type
<1> DEFINE p    == Parent(here)
           i    == here[Len(here)]
           n    == Len(open)
           op   == Front(open)
           type == open[n]
<1>1. /\ open \in Seq(Container) /\ here \in Address /\ n = Len(here) /\ n \in Nat \ {0}
      /\ \A j \in 1..n : open[j] \in Container
  BY EmptySeq, ElementOfSeq, LenProperties DEF Scanned
<1>2. here # Root
  BY <1>1, EmptySeq DEF Root
<1>3. p \in Address /\ i \in Position /\ here = Append(p, i)
  BY <1>1, <1>2, ParentAppend
<1>4. n = Len(p) + 1 /\ Len(p) \in Nat
  BY <1>1, <1>3, AppendProperties, LenProperties DEF Address
<1>5. /\ op \in Seq(Container) /\ Len(op) = n - 1
      /\ \A j \in 1..(n - 1) : op[j] = open[j]
  <2>1. op = SubSeq(open, 1, n - 1)
    BY DEF Front
  <2>2. n - 1 \in Int /\ 1 \in Int /\ \A j \in 1..(n - 1) : open[j] \in Container
    BY <1>1
  <2> HIDE DEF n, op
  <2>3. /\ SubSeq(open, 1, n - 1) \in Seq(Container)
        /\ Len(SubSeq(open, 1, n - 1)) = IF 1 <= n - 1 THEN n - 1 - 1 + 1 ELSE 0
        /\ \A j \in 1..(n - 1 - 1 + 1) : SubSeq(open, 1, n - 1)[j] = open[1 + j - 1]
    BY ONLY <2>2, SubSeqProperties
  <2> QED BY <1>1, <2>1, <2>3
<1>6. type \in Container
  BY <1>1
<1>7. /\ Append(op, type) \in Seq(Container) /\ Len(Append(op, type)) = n
      /\ \A j \in 1..n : Append(op, type)[j] = open[j]
  <2> HIDE DEF op, type, n
  <2>1. /\ Append(op, type) \in Seq(Container) /\ Len(Append(op, type)) = Len(op) + 1
        /\ Append(op, type)[Len(op) + 1] = type
        /\ \A j \in 1..Len(op) : Append(op, type)[j] = op[j]
    BY <1>5, <1>6, AppendProperties
  <2> QED BY <1>1, <1>5, <2>1 DEF type
<1>8. open = Append(op, type)
  <2> HIDE DEF op, type, n
  <2> QED BY <1>1, <1>7, SeqEqual, Zenon DEF n
<1>9. Last(here) = i /\ Innermost = type
  BY DEF Last, Innermost
<1> QED BY <1>1, <1>3, <1>4, <1>5, <1>6, <1>8, <1>9

\* A decoded text read as a C string ends before its first NUL.
LEMMA CStringIsOne ==
  ASSUME NEW bytes \in Octets
  PROVE  CString(bytes) \in CStrings /\ CString(bytes) \in Octets
<1> DEFINE n == IndexFrom(bytes, 0, {NUL})
           s == Slice(bytes, 0, n)
           m == Len(bytes)
<1>1. m \in Nat /\ n \in 0..m /\ \A j \in 0..(n - 1) : At(bytes, j) \notin {NUL}
  BY IndexFromIs, LenProperties DEF Octets
<1> HIDE DEF n
<1>2. s \in Octets /\ Len(s) = n - 0 /\ \A k \in 0..(n - 0 - 1) : At(s, k) = At(bytes, 0 + k)
  BY <1>1, OctetsSlice
<1> HIDE DEF s, m
<1>3. n \in Nat /\ Len(s) = n /\ s \in Seq(0..255)
  BY <1>1, <1>2 DEF Octets
<1>4. DOMAIN s = 1..n /\ s = [j \in 1..n |-> s[j]] /\ \A j \in 1..n : s[j] \in 0..255
  BY <1>3, LenProperties, ElementOfSeq
<1>5. ASSUME NEW j \in 1..n PROVE s[j] \in 1..255
  <2>1. j - 1 \in 0..(n - 1) /\ j - 1 + 1 = j /\ j - 1 < n /\ 0 + (j - 1) = j - 1
    BY <1>3
  <2>2. At(s, j - 1) # NUL
    <3>1. j - 1 \in 0..(n - 0 - 1)
      BY ONLY <1>3, <2>1
    <3>2. At(s, j - 1) = At(bytes, j - 1) /\ At(bytes, j - 1) \notin {NUL}
      BY ONLY <1>1, <1>2, <2>1, <3>1
    <3> QED BY ONLY <3>2
  <2>3. At(s, j - 1) = s[j]
    BY ONLY <1>3, <2>1 DEF At
  <2>4. s[j] \in 0..255 /\ s[j] # 0
    BY ONLY <1>4, <2>2, <2>3, j \in 1..n DEF NUL
  <2> QED BY ONLY <2>4
<1>6. s \in Seq(1..255)
  <2>1. s \in [1..n -> 1..255]
    BY ONLY <1>4, <1>5, Zenon
  <2> QED BY ONLY <1>3, <2>1, SeqDef, SMTT(30)
<1>7. CString(bytes) = s
  BY DEF CString, s, n
<1> QED BY ONLY <1>2, <1>6, <1>7, Zenon DEF CStrings

\* While a text is being parsed its items are sound.
LEMMA LiveIs ==
  ASSUME ParserInv, Live
  PROVE  /\ Sound(tree, here, open, Pending, Untitled) /\ Loose(tree, here)
         /\ here \in DOMAIN tree
<1>1. Sound(tree, here, open, Pending, Untitled)
  BY DEF ParserInv, Held
<1> QED BY <1>1 DEF Sound

\* A failure keeps what is held, for GiveUp to free.
LEMMA FailIs ==
  ASSUME ParserInv, Live, NEW o \in 0..Length, FailAt(o)
  PROVE  ParserInv'
<1>1. /\ parsing' = "failing" /\ offset' = o /\ text' = text
      /\ open' = open /\ here' = here /\ tree' = tree /\ copy' = copy
  BY DEF FailAt
<1>2. Length' = Length /\ Loose(tree, here)
  BY <1>1, LiveIs DEF Length
<1>3. Scanned'
  BY <1>1, <1>2 DEF ParserInv, Scanned, ParserStages
<1>4. Copied' /\ Enclosed'
  BY <1>1 DEF Copied, Enclosed, Untitled
<1>5. Held'
  BY <1>1, <1>2 DEF Held, Live
<1> QED BY <1>3, <1>4, <1>5 DEF ParserInv

\* A value is read: the item at hand gets its label.
LEMMA ParsedIs ==
  ASSUME ParserInv, parsing = "value",
         NEW label \in Items, label.t \in Container \cup Scalar, label.n = 0,
         NEW o \in 0..Length, ParsedAs(label, o)
  PROVE  ParserInv'
<1> DEFINE new == [label EXCEPT !.name = tree[here].name]
<1>1. /\ parsing' = "after" /\ offset' = o /\ text' = text
      /\ open' = open /\ here' = here /\ tree' = [tree EXCEPT ![here] = new] /\ copy' = copy
  BY DEF ParsedAs
<1>2. Length' = Length
  BY <1>1 DEF Length
<1>3. Live /\ Pending = TRUE /\ Untitled = FALSE
  BY DEF Live, Pending, Untitled
<1>4. Sound(tree, here, open, TRUE, FALSE) /\ Loose(tree, here) /\ here \in DOMAIN tree
  BY <1>3, LiveIs
<1>5. tree[here] \in Items
  BY <1>4 DEF Loose
<1>6. new \in Items /\ new.t = label.t /\ new.n = label.n /\ new.name = tree[here].name
  BY <1>5 DEF Items
<1> HIDE DEF new
<1>7. DOMAIN tree' = DOMAIN tree /\ tree'[here] = new /\ \A a \in DOMAIN tree : a # here => tree'[a] = tree[a]
  BY <1>1, <1>4
<1>8. Sound(tree', here, open, FALSE, FALSE)
  BY <1>4, <1>6, <1>7, GetsValue
<1>9. Pending' = FALSE /\ Untitled' = FALSE
  BY <1>1 DEF Pending, Untitled
<1>10. Scanned'
  BY <1>1, <1>2 DEF ParserInv, Scanned, ParserStages
<1>11. Copied' /\ Enclosed'
  BY <1>1, <1>9 DEF Copied, Enclosed
<1>12. Held'
  BY <1>1, <1>8, <1>9 DEF Held
<1> QED BY <1>10, <1>11, <1>12 DEF ParserInv

\* null, true and false are texts.
LEMMA LiteralsAre ==
  ASSUME NEW word \in DOMAIN Literals
  PROVE  Literals[word] \in Octets /\ Len(Literals[word]) \in Nat
<1> DEFINE B == 0..255
<1>1. /\ Byte["n"] \in B /\ Byte["u"] \in B /\ Byte["l"] \in B /\ Byte["f"] \in B /\ Byte["a"] \in B
      /\ Byte["s"] \in B /\ Byte["e"] \in B /\ Byte["t"] \in B /\ Byte["r"] \in B
  BY ByteValues
<1> HIDE DEF B
<1>2. \/ Literals[word] = <<Byte["n"], Byte["u"], Byte["l"], Byte["l"]>>
      \/ Literals[word] = <<Byte["f"], Byte["a"], Byte["l"], Byte["s"], Byte["e"]>>
      \/ Literals[word] = <<Byte["t"], Byte["r"], Byte["u"], Byte["e"]>>
  BY DEF Literals, Bytes
<1>3. Literals[word] \in Seq(B)
  <2>1. /\ <<Byte["n"], Byte["u"], Byte["l"], Byte["l"]>> \in Seq(B)
        /\ <<Byte["t"], Byte["r"], Byte["u"], Byte["e"]>> \in Seq(B)
    BY <1>1
  <2>2. <<Byte["f"], Byte["a"], Byte["l"], Byte["s"], Byte["e"]>> \in Seq(B)
    BY <1>1
  <2> QED BY <1>2, <2>1, <2>2
<1> QED BY <1>3, LenProperties DEF Octets, B

\* The literals of parse_value.
LEMMA ParsesLiteral ==
  ASSUME ParserInv, ParseLiteral
  PROVE  ParserInv'
<1>1. PICK word \in DOMAIN Literals :
        /\ StartsWith(Literals[word])
        /\ ParsedAs([Reads(IF word = "null" THEN "null" ELSE "boolean") EXCEPT !.text = Literals[word]],
                    offset + Len(Literals[word]))
  BY DEF ParseLiteral
<1> DEFINE type  == IF word = "null" THEN "null" ELSE "boolean"
           label == [Reads(type) EXCEPT !.text = Literals[word]]
           o     == offset + Len(Literals[word])
<1>2. Literals[word] \in Octets /\ Len(Literals[word]) \in Nat
  BY LiteralsAre
<1>3. o \in 0..Length
  <2>1. Length \in Nat /\ offset \in 0..Length
    BY TextIs DEF ParserInv, Scanned
  <2> QED BY <1>1, <1>2, <2>1 DEF StartsWith
<1>4. label \in Items /\ label.t \in Container \cup Scalar /\ label.n = 0
  BY <1>2 DEF Reads, NewItem, Items, Scalar
<1>5. ParsedAs(label, o) /\ parsing = "value"
  BY <1>1 DEF ParseLiteral, Reading
<1> HIDE DEF label, o
<1> QED BY <1>3, <1>4, <1>5, ParsedIs

\* parse_number.
LEMMA ParsesNumber ==
  ASSUME ParserInv, ParseNumber
  PROVE  ParserInv'
<1> DEFINE end   == NumberEnd(offset)
           label == [Reads("number") EXCEPT !.text = Slice(text, offset, end)]
<1>1. text \in Octets /\ offset \in 0..Length /\ parsing = "value" /\ Live
  BY DEF ParserInv, Scanned, ParseNumber, Reading, Live
<1>2. Len(text) \in Nat /\ Length = Len(text) + 1 /\ offset \in 0..Len(text)
  <2>1. ByteHere # NUL
    BY ByteValues DEF ParseNumber, NUL, IsDigit
  <2> QED BY <1>1, <2>1, TextIs DEF ByteHere
<1>3. end \in offset..Len(text)
  BY <1>1, <1>2, NumberEndIs
<1>4. end \in 0..Length
  BY <1>2, <1>3
<1>5. CASE end > offset
  <2>1. ParsedAs(label, end)
    BY <1>5 DEF ParseNumber
  <2>2. offset \in Nat
    BY <1>2
  <2> HIDE DEF end
  <2>3. Slice(text, offset, end) \in Octets
    BY <1>1, <1>3, <2>2, OctetsSlice
  <2>4. label \in Items /\ label.t \in Container \cup Scalar /\ label.n = 0
    BY <2>3 DEF Reads, NewItem, Items, Scalar
  <2> HIDE DEF label
  <2> QED BY <1>1, <1>4, <2>1, <2>4, ParsedIs
<1>6. CASE ~(end > offset)
  <2>1. FailAt(offset)
    BY <1>6 DEF ParseNumber
  <2> QED BY <1>1, <2>1, FailIs
<1> QED BY <1>5, <1>6

\* A value that is none.
LEMMA ParsesNothing ==
  ASSUME ParserInv, NoValue
  PROVE  ParserInv'
<1>1. Live /\ FailAt(offset) /\ offset \in 0..Length
  BY DEF NoValue, Reading, Live, ParserInv, Scanned
<1> QED BY <1>1, FailIs

\* A reverse solidus right before the quote is the only way to be one short.
LEMMA LeftLow ==
  ASSUME NEW end \in Nat
  PROVE  \A o \in Nat : o <= end + 1 => Left(o, end) >= -1
<1> DEFINE L(j) == Left(j, end)
           S == {j \in Nat : j <= end + 1 => L(j) >= -1}
<1>1. ASSUME NEW j \in Nat
      PROVE  /\ L(j) \in Int /\ L(j + 1) \in Int /\ L(j + 2) \in Int
             /\ j >= end => L(j) = end - j
             /\ j < end => L(j) = 1 + L(j + 1) \/ L(j) = 1 + L(j + 2)
  BY LeftIs
<1> HIDE DEF L
<1>2. \A j \in Nat : j >= end + 1 => j \in S
  BY <1>1
<1>3. ASSUME NEW j \in Nat, \A k \in Nat : k > j => k \in S PROVE j \in S
  <2>1. j + 1 \in S /\ j + 2 \in S
    BY <1>3
  <2> QED BY <1>1, <2>1
<1>4. Nat \subseteq S
  <2>1. end + 1 \in Nat
    OBVIOUS
  <2> HIDE DEF S
  <2> QED BY <1>2, <1>3, <2>1, BackwardInduction
<1> QED BY <1>4 DEF L

\* A string is found, and the copy allocated.
LEMMA StringStarts ==
  ASSUME ParserInv, NEW o \in Nat, o < Length, NEW into,
         \/ into = "text" /\ parsing = "value"
         \/ into = "name" /\ parsing = "item" /\ Innermost = "object",
         StartString(o, into)
  PROVE  ParserInv'
<1> DEFINE end  == QuoteFrom(o + 1)
           room == end - o - Skipped(o + 1, end) + 1
<1>1. text \in Octets /\ Length \in Nat /\ Live /\ o + 1 \in Nat /\ o + 1 \in 0..Length
  BY TextIs DEF ParserInv, Scanned, Live
<1>2. end \in Nat /\ end >= o + 1
  BY <1>1, QuoteFromIs
<1>3. CASE At(text, o) # Byte["quote"] \/ end >= Length
  <2>1. FailAt(o + 1)
    BY <1>3 DEF StartString
  <2> QED BY <1>1, <2>1, FailIs
<1>4. CASE ~(At(text, o) # Byte["quote"] \/ end >= Length)
  <2>1. /\ copy' = [end |-> end, into |-> into, room |-> room, bytes |-> <<>>]
        /\ offset' = o + 1 /\ parsing' = "string"
        /\ text' = text /\ open' = open /\ here' = here /\ tree' = tree
    BY <1>4 DEF StartString
  <2>2. Skipped(o + 1, end) \in Nat /\ Left(o + 1, end) >= -1 /\ Left(o + 1, end) \in Int
    BY <1>1, <1>2, SkippedIs, LeftLow, LeftIs, SMTT(30)
  <2>3. Left(o + 1, end) = room - 2
    BY <1>2, <2>2 DEF Left
  <2>4. end < Length
    BY <1>1, <1>2, <1>4
  <2> HIDE DEF end, room
  <2>5. room \in Nat /\ 0 < room
    <3>1. room \in Int
      BY <1>2, <2>2 DEF room
    <3> QED BY <2>2, <2>3, <3>1
  <2>6. /\ copy'.end = end /\ copy'.into = into /\ copy'.room = room /\ copy'.bytes = <<>>
        /\ Length' = Length
    BY <2>1 DEF Length
  <2>7. <<>> \in Octets /\ Len(<<>>) = 0
    BY DEF Octets
  <2>8. copy' \in [end : Nat, into : {"text", "name"}, room : Nat, bytes : Octets]
    BY <1>2, <2>1, <2>5, <2>7
  <2>9. Scanned'
    BY <1>1, <2>1, <2>5, <2>6, <2>7, <2>8 DEF ParserInv, Scanned, ParserStages
  <2>10. Left(offset, copy.end)' = Left(o + 1, end)
    BY <2>1, <2>6 DEF Left, Skipped
  <2>11. Copied'
    BY <1>1, <1>2, <2>1, <2>3, <2>4, <2>5, <2>6, <2>7, <2>10 DEF Copied
  <2>12. Pending' = TRUE /\ Untitled' = Untitled /\ Pending = TRUE
    BY <2>1, <2>6 DEF Pending, Untitled
  <2>13. Innermost' = Innermost
    BY <2>1 DEF Innermost
  <2>14. Enclosed'
    BY <2>1, <2>6, <2>12, <2>13 DEF Enclosed, ParserInv
  <2>15. Sound(tree, here, open, TRUE, Untitled)
    BY <1>1, <2>12, LiveIs
  <2>16. Held'
    BY <2>1, <2>12, <2>15 DEF Held
  <2> QED BY <2>9, <2>11, <2>14, <2>16 DEF ParserInv
<1> QED BY <1>3, <1>4

\* parse_string for a value.
LEMMA ParsesString ==
  ASSUME ParserInv, ParseString
  PROVE  ParserInv'
<1>1. text \in Octets /\ offset \in 0..Length /\ offset \in Nat /\ Length \in Nat
  BY TextIs DEF ParserInv, Scanned
<1>2. ByteHere # NUL
  BY ByteValues DEF ParseString, NUL
<1>3. offset < Length
  BY <1>1, <1>2, TextIs DEF ByteHere
<1> QED BY <1>1, <1>3, StringStarts DEF ParseString, Reading

\* parse_string for the name of a member.
LEMMA ParsesName ==
  ASSUME ParserInv, ParseName
  PROVE  ParserInv'
<1>1. text \in Octets /\ offset \in 0..Length /\ Length \in Nat /\ Live
  BY TextIs DEF ParserInv, Scanned, ParseName, Live
<1>2. CASE CanAccess(1)
  <2> DEFINE o == SkipWhitespace(offset + 1)
  <2>1. offset + 1 \in 0..Length /\ offset + 1 < Length
    BY <1>1, <1>2 DEF CanAccess
  <2>2. o \in (offset + 1)..Length /\ o < Length
    BY <1>1, <2>1, SkipWhitespaceIs
  <2>3. o \in Nat
    BY <1>1, <2>2
  <2>4. StartString(o, "name")
    BY <1>2 DEF ParseName
  <2> HIDE DEF o
  <2> QED BY <2>2, <2>3, <2>4, StringStarts DEF ParseName
<1>3. CASE ~CanAccess(1)
  <2>1. FailAt(offset)
    BY <1>3 DEF ParseName
  <2> QED BY <1>1, <2>1, FailIs
<1> QED BY <1>2, <1>3

\* Some bytes are decoded, no more than were left for them.
LEMMA Decodes ==
  ASSUME ParserInv, Decoding, NEW bytes \in Octets, NEW n \in Nat,
         offset + n <= copy.end + 1,
         Len(bytes) + Left(offset + n, copy.end) <= Left(offset, copy.end),
         Decode(bytes, n)
  PROVE  ParserInv'
<1> DEFINE end == copy.end
           o   == offset + n
           all == copy.bytes \o bytes
           l   == Len(copy.bytes)
           k   == Len(bytes)
           m   == Len(all)
<1>1. /\ copy' = [copy EXCEPT !.bytes = all] /\ offset' = o
      /\ text' = text /\ open' = open /\ here' = here /\ tree' = tree /\ parsing' = parsing
  BY DEF Decode
<1>2. /\ parsing = "string" /\ text \in Octets /\ Length \in Nat /\ offset \in 0..Length
      /\ copy \in [end : Nat, into : {"text", "name"}, room : Nat, bytes : Octets]
      /\ l < copy.room /\ end < Length /\ l + Left(offset, end) <= copy.room - 2
  BY TextIs DEF ParserInv, Scanned, Copied, Decoding
<1>3. /\ end \in Nat /\ copy.room \in Nat /\ copy.bytes \in Octets /\ offset \in Nat
      /\ o \in Nat /\ o <= end + 1
  BY <1>2
<1>4. all \in Octets /\ l \in Nat /\ k \in Nat /\ m = l + k
  BY <1>3, OctetsConcat
<1>5. /\ copy'.end = end /\ copy'.into = copy.into /\ copy'.room = copy.room /\ copy'.bytes = all
      /\ Length' = Length
      /\ copy' \in [end : Nat, into : {"text", "name"}, room : Nat, bytes : Octets]
  BY <1>1, <1>2, <1>4 DEF Length
<1>6. Left(o, end) \in Int /\ Left(offset, end) \in Int /\ Left(o, end) >= -1
  BY <1>3, LeftIs, LeftLow
<1>7. k + Left(o, end) <= Left(offset, end)
  OBVIOUS
<1>8. Left(offset, copy.end)' = Left(o, end)
  BY <1>1, <1>5 DEF Left, Skipped
<1>9. o \in 0..Length
  BY <1>2, <1>3
<1> HIDE DEF all, l, k, m, o, end
<1>10. m + Left(o, end) <= copy.room - 2
  BY ONLY <1>2, <1>3, <1>4, <1>6, <1>7
<1>11. m < copy.room
  BY ONLY <1>3, <1>4, <1>6, <1>10
<1>12. Scanned'
  BY <1>1, <1>5, <1>9, <1>11 DEF ParserInv, Scanned, m
<1>13. Copied'
  BY <1>1, <1>2, <1>3, <1>5, <1>8, <1>10 DEF Copied, m
<1>14. Pending' = Pending /\ Untitled' = Untitled /\ Innermost' = Innermost
  BY <1>1, <1>5 DEF Pending, Untitled, Innermost
<1>15. Enclosed'
  BY <1>1, <1>2, <1>5, <1>14 DEF Enclosed, ParserInv
<1>16. Held'
  BY <1>1, <1>2, <1>14 DEF Held, Live, ParserInv
<1> QED BY <1>12, <1>13, <1>15, <1>16 DEF ParserInv

\* Where the second loop of parse_string is.
LEMMA DecodingIs ==
  ASSUME ParserInv, Decoding
  PROVE  /\ text \in Octets /\ Len(text) \in Nat /\ copy.end \in Nat /\ copy.end <= Len(text)
         /\ offset \in Nat /\ offset < copy.end /\ offset \in 0..Length /\ Live
<1>1. /\ text \in Octets /\ parsing = "string" /\ offset < copy.end /\ copy.end < Length
      /\ offset \in 0..Length
      /\ copy \in [end : Nat, into : {"text", "name"}, room : Nat, bytes : Octets]
  BY DEF ParserInv, Scanned, Copied, Decoding
<1>2. Len(text) \in Nat /\ Length = Len(text) + 1
  BY <1>1, TextIs
<1> QED BY <1>1, <1>2 DEF Live

\* Bytes without an escape are copied.
LEMMA CopiesBytes ==
  ASSUME ParserInv, CopyBytes
  PROVE  ParserInv'
<1> DEFINE end  == copy.end
           stop == IndexFrom(text, offset, {Byte["\\"]})
           next == Min({end, stop})
           s    == Slice(text, offset, next)
           l    == Len(text)
<1>1. Decoding /\ next > offset /\ Decode(s, next - offset)
  BY DEF CopyBytes
<1>2. text \in Octets /\ l \in Nat /\ end \in Nat /\ end <= l /\ offset \in Nat /\ offset < end
  BY <1>1, DecodingIs
<1>3. stop \in Nat /\ \A j \in offset..(stop - 1) : At(text, j) \notin {Byte["\\"]}
  BY <1>2, IndexFromIs DEF Octets
<1> HIDE DEF stop
<1>4. next \in {end, stop} /\ next <= end /\ next <= stop
  <2>1. {end, stop} \subseteq Nat /\ {end, stop} # {}
    BY <1>2, <1>3
  <2> QED BY <2>1, MinIs
<1>5. next \in Nat /\ next \in offset..l
  BY <1>1, <1>2, <1>3, <1>4
<1> HIDE DEF next, end
<1>6. s \in Octets /\ Len(s) = next - offset
  BY <1>2, <1>5, OctetsSlice
<1> HIDE DEF s
<1> DEFINE n == next - offset
<1>7. n \in Nat /\ offset + n = next /\ offset + n <= end
  BY <1>1, <1>2, <1>4, <1>5
<1>8. \A j \in offset..(offset + n - 1) : At(text, j) # Backslash
  <2> TAKE j \in offset..(offset + n - 1)
  <2>1. j \in offset..(stop - 1)
    BY <1>2, <1>3, <1>4, <1>5, <1>7
  <2> QED BY <1>3, <2>1 DEF Backslash
<1> HIDE DEF n
<1>9. Left(offset, end) = n + Left(offset + n, end)
  BY <1>2, <1>7, <1>8, LeftPlain, Zenon
<1>10. Len(s) = n
  BY <1>6 DEF n
<1>11. Left(offset + n, end) \in Int
  BY <1>2, <1>5, <1>7, LeftIs
<1>12. offset + n <= end + 1
  BY ONLY <1>2, <1>5, <1>7
<1>13. Len(s) + Left(offset + n, end) <= Left(offset, end)
  BY ONLY <1>7, <1>9, <1>10, <1>11
<1> QED BY <1>1, <1>6, <1>7, <1>12, <1>13, Decodes DEF end, n

\* The escapes of one character.
LEMMA Unescapes ==
  ASSUME ParserInv, Unescape
  PROVE  ParserInv'
<1> DEFINE b == At(text, offset + 1)
           s == <<Escapes[b]>>
<1>1. Decoding /\ At(text, offset) = Backslash /\ b \in DOMAIN Escapes /\ Decode(s, 2)
  BY DEF Unescape, Escaping, ByteHere, Backslash
<1>2. copy.end \in Nat /\ offset \in Nat /\ offset < copy.end
  BY <1>1, DecodingIs
<1>3. Escapes[b] \in 0..255
  BY <1>1, EscapesAre
<1> HIDE DEF b
<1>4. s \in Octets /\ Len(s) = 1
  BY <1>3, OneOctet
<1> HIDE DEF s
<1>5. Left(offset, copy.end) = 1 + Left(offset + 2, copy.end)
  BY <1>1, <1>2, LeftIs
<1>6. Left(offset + 2, copy.end) \in Int
  BY <1>2, LeftIs
<1>7. Len(s) + Left(offset + 2, copy.end) <= Left(offset, copy.end)
  BY ONLY <1>4, <1>5, <1>6
<1>8. 2 \in Nat /\ offset + 2 <= copy.end + 1
  BY <1>2
<1> QED BY <1>1, <1>4, <1>7, <1>8, Decodes

\* An escaped code unit takes more bytes than it becomes.
LEMMA UnitTakes ==
  ASSUME ParserInv, Escaping, HasUnit(offset)
  PROVE  /\ Unit(offset) \in Nat /\ Unit(offset) < Plane /\ offset + 6 <= copy.end
         /\ Left(offset, copy.end) >= 1 + Left(offset + 6, copy.end)
         /\ Unit(offset) # 0 => Left(offset, copy.end) = 5 + Left(offset + 6, copy.end)
<1> DEFINE end == copy.end
           l   == Len(text)
<1>1. /\ text \in Octets /\ l \in Nat /\ end \in Nat /\ end <= l /\ offset \in Nat /\ offset < end
      /\ At(text, offset) = Backslash
  BY DecodingIs DEF Escaping, ByteHere, Backslash
<1>2. end - offset >= 6
  BY DEF HasUnit
<1> HIDE DEF l, end
<1>3. offset + 6 <= end /\ offset + 6 <= l
  BY <1>1, <1>2
<1>4. /\ Unit(offset) \in Nat /\ Unit(offset) < Plane
      /\ Unit(offset) # 0 => \A j \in (offset + 2)..(offset + 5) : At(text, j) # Backslash
  BY <1>1, <1>3, UnitIs DEF l
<1>5. Left(offset, end) = 1 + Left(offset + 2, end)
  BY <1>1, LeftIs
<1>6. Left(offset + 2, end) \in Int /\ Left(offset + 6, end) \in Int
  BY <1>1, LeftIs
<1>7. offset + 2 \in Nat /\ (offset + 2) + 4 = offset + 6 /\ offset + 2 + 4 - 1 = offset + 5
  BY <1>1
<1>8. Left(offset + 6, end) <= Left(offset + 2, end)
  <2>1. Left((offset + 2) + 4, end) <= Left(offset + 2, end)
    BY <1>1, <1>7, LeftFalls
  <2> QED BY <1>7, <2>1
<1>9. ASSUME Unit(offset) # 0 PROVE Left(offset + 2, end) = 4 + Left(offset + 6, end)
  <2> DEFINE o == offset + 2
  <2>1. /\ o \in Nat /\ o + 4 <= end /\ o + 4 = offset + 6
        /\ \A j \in o..(o + 4 - 1) : At(text, j) # Backslash
    BY <1>1, <1>3, <1>4, <1>7, <1>9
  <2> HIDE DEF o
  <2>2. Left(o, end) = 4 + Left(o + 4, end)
    BY <1>1, <2>1, LeftPlain
  <2> QED BY <2>1, <2>2 DEF o
<1> HIDE DEF Plane
<1> QED BY <1>3, <1>4, <1>5, <1>6, <1>8, <1>9 DEF end

\* An escape of one code unit: six bytes read, at most three written.
LEMMA UnescapesUnit ==
  ASSUME ParserInv, UnescapeUnit
  PROVE  ParserInv'
<1> DEFINE unit == Unit(offset)
           s    == Utf8(unit)
           m    == Len(s)
           L    == Left(offset, copy.end)
           L6   == Left(offset + 6, copy.end)
<1>1. Decoding /\ Escaping /\ HasUnit(offset) /\ Decode(s, 6)
  BY DEF UnescapeUnit, Escaping
<1>2. /\ unit \in Nat /\ unit < Plane /\ offset + 6 <= copy.end
      /\ L >= 1 + L6
      /\ unit # 0 => L = 5 + L6
  BY <1>1, UnitTakes
<1>3. copy.end \in Nat /\ offset \in Nat
  BY <1>1, DecodingIs
<1>4. L \in Int /\ L6 \in Int
  BY <1>3, LeftIs
<1> HIDE DEF unit, L, L6
<1>5. s \in Octets /\ (unit < 128 => m = 1) /\ m \in 1..3
  <2>1. unit < 17 * Plane
    BY <1>2, SMT DEF Plane
  <2> QED BY <1>2, <2>1, Utf8Is, SMT
<1> HIDE DEF s, m
<1>6. m + L6 <= L
  <2>1. CASE unit = 0
    BY ONLY <1>2, <1>4, <1>5, <2>1, SMT
  <2>2. CASE unit # 0
    BY ONLY <1>2, <1>4, <1>5, <2>2, SMT
  <2> QED BY <2>1, <2>2, SMT
<1>7. 6 \in Nat /\ offset + 6 <= copy.end + 1
  BY <1>2, <1>3
<1> QED BY <1>1, <1>5, <1>6, <1>7, Decodes, SMT DEF L, L6, m

\* Two escaped units further.
LEMMA LeftAtTwo ==
  ASSUME NEW end \in Nat, NEW o \in Nat
  PROVE  /\ Left(o, end) \in Int /\ Left(o + 6, end) \in Int /\ Left((o + 6) + 6, end) \in Int
         /\ Left((o + 6) + 6, end) <= Left(o + 6, end)
<1>1. o + 6 \in Nat /\ (o + 6) + 6 \in Nat /\ 6 \in Nat
  OBVIOUS
<1>2. Left((o + 6) + 6, end) <= Left(o + 6, end)
  BY ONLY <1>1, LeftFalls, Zenon
<1> QED BY <1>1, <1>2, LeftIs

\* A pair of surrogates.
LEMMA PairIs ==
  ASSUME NEW x \in Nat, NEW y \in Nat, x \in Surrogate, y \in LowSurrogate
  PROVE  /\ x # 0 /\ y # 0
         /\ 65536 + 1024 * (x - 55296) + (y - 56320) \in Nat
         /\ 65536 + 1024 * (x - 55296) + (y - 56320) < 17 * Plane
BY SMT DEF Surrogate, LowSurrogate, Plane

\* A pair of surrogates: twelve bytes read, four written.
LEMMA UnescapesPair ==
  ASSUME ParserInv, UnescapePair
  PROVE  ParserInv'
<1> DEFINE x    == Unit(offset)
           y    == Unit(offset + 6)
           code == 65536 + 1024 * (x - 55296) + (y - 56320)
           s    == Utf8(code)
           m    == Len(s)
           L    == Left(offset, copy.end)
           L6   == Left(offset + 6, copy.end)
           L12  == Left((offset + 6) + 6, copy.end)
<1>1. /\ Decoding /\ Escaping /\ HasUnit(offset) /\ HasUnit(offset + 6)
      /\ x \in Surrogate /\ y \in LowSurrogate /\ Decode(s, 12)
  BY SMT DEF UnescapePair, Escaping, HasPair
<1>2. x \in Nat /\ offset + 6 <= copy.end /\ (x # 0 => L = 5 + L6)
  BY <1>1, UnitTakes, SMT
<1>3. /\ text \in Octets /\ Len(text) \in Nat
      /\ copy.end \in Nat /\ copy.end <= Len(text) /\ offset \in Nat
  BY <1>1, DecodingIs
<1>4. copy.end - (offset + 6) >= 6
  BY <1>1, SMT DEF HasUnit
<1>5. y \in Nat
  <2>1. offset + 6 \in Nat /\ (offset + 6) + 6 <= Len(text)
    BY <1>3, <1>4, SMT
  <2> QED BY <1>3, <2>1, UnitIs, SMT
<1>6. x # 0 /\ code \in Nat /\ code < 17 * Plane
  BY <1>1, <1>2, <1>5, PairIs, SMT
<1> HIDE DEF x, code
<1>7. s \in Octets /\ m \in 1..4
  BY <1>6, Utf8Is, SMT
<1> HIDE DEF s, m
<1>8. /\ L \in Int /\ L6 \in Int /\ L12 \in Int
      /\ L12 <= L6
  <2>1. copy.end \in Nat /\ offset \in Nat
    BY <1>3, SMT
  <2> QED BY ONLY <2>1, LeftAtTwo, SMTT(30)
<1>9. (offset + 6) + 6 = offset + 12
  BY <1>3, SMT
<1> HIDE DEF L, L6, L12
<1>10. m + L12 <= L
  BY ONLY <1>2, <1>6, <1>7, <1>8, SMT
<1>11. 12 \in Nat /\ offset + 12 <= copy.end + 1
  BY <1>3, <1>4, SMT
<1>12. Len(s) + Left(offset + 12, copy.end) <= Left(offset, copy.end)
  BY <1>9, <1>10, SMT DEF L, L12, m
<1> QED BY <1>1, <1>7, <1>11, <1>12, Decodes, SMT

\* An escape that is none.
LEMMA RefusesEscape ==
  ASSUME ParserInv, BadEscape
  PROVE  ParserInv'
<1>1. Live /\ FailAt(offset) /\ offset \in 0..Length
  BY DecodingIs DEF BadEscape, Escaping
<1> QED BY <1>1, FailIs

\* The quote: the item gets its text or its name.
LEMMA EndsString ==
  ASSUME ParserInv, EndString
  PROVE  ParserInv'
<1> DEFINE bytes == CString(copy.bytes)
<1>1. /\ parsing = "string" /\ Scanned /\ text \in Octets /\ copy.bytes \in Octets /\ copy.end \in Nat
      /\ copy.end < Length /\ Length \in Nat /\ copy.into \in {"text", "name"}
      /\ open \in Seq(Container) /\ here \in Address /\ Len(open) = Len(here)
      /\ copy \in [end : Nat, into : {"text", "name"}, room : Nat, bytes : Octets]
      /\ Len(copy.bytes) < copy.room
  BY TextIs DEF ParserInv, Scanned, Copied, EndString
<1>2. bytes \in CStrings /\ bytes \in Octets
  BY <1>1, CStringIsOne
<1>3. Live /\ Pending = TRUE /\ Untitled = (copy.into = "name")
  BY <1>1 DEF Live, Pending, Untitled
<1>4. Sound(tree, here, open, TRUE, Untitled) /\ Loose(tree, here) /\ here \in DOMAIN tree
  BY <1>3, LiveIs
<1>5. tree[here] \in Items /\ tree[here].n = 0
  BY <1>4 DEF Loose, Sound
<1> HIDE DEF bytes
<1>6. /\ text' = text /\ open' = open /\ here' = here /\ copy' = copy /\ offset' = copy.end + 1
      /\ Length' = Length
  BY DEF EndString, Length
<1>7. Pending' = (parsing' = "colon") /\ Untitled' = FALSE /\ parsing' \in {"colon", "after"}
  BY DEF EndString, Pending, Untitled
<1>8. Scanned' /\ Copied'
  BY <1>1, <1>6, <1>7 DEF Scanned, Copied, ParserStages
<1>9. Enclosed'
  BY <1>7 DEF Enclosed
<1>10. CASE copy.into = "name"
  <2>1. parsing' = "colon" /\ tree' = [tree EXCEPT ![here].name = bytes]
    BY <1>10 DEF EndString, bytes
  <2>2. open # <<>> /\ Innermost = "object"
    BY <1>1, <1>10 DEF ParserInv, Enclosed, Untitled
  <2>3. PICK p \in Address, i \in Position, op \in Seq(Container), type \in Container :
          here = Append(p, i) /\ open = Append(op, type) /\ Len(op) = Len(p) /\ type = "object"
    BY <1>1, <2>2, InsideIs
  <2>4. /\ DOMAIN tree' = DOMAIN tree /\ \A a \in DOMAIN tree : a # here => tree'[a] = tree[a]
        /\ tree'[here] = [tree[here] EXCEPT !.name = bytes]
    BY <1>4, <2>1
  <2>5. /\ tree'[here] \in Items /\ tree'[here].t = tree[here].t /\ tree'[here].n = tree[here].n
        /\ tree'[here].name \in CStrings
    BY <1>2, <1>5, <2>4 DEF Items
  <2>6. Sound(tree, here, open, TRUE, TRUE)
    BY <1>3, <1>4, <1>10
  <2>7. Sound(tree', here, open, TRUE, FALSE)
    BY <2>3, <2>4, <2>5, <2>6, GetsName
  <2>8. Pending' = TRUE
    BY <1>7, <2>1
  <2>9. Held'
    BY <1>6, <1>7, <2>1, <2>7, <2>8 DEF Held
  <2> QED BY <1>8, <1>9, <2>9 DEF ParserInv
<1>11. CASE copy.into # "name"
  <2>1. parsing' = "after" /\ tree' = [tree EXCEPT ![here].t = "string", ![here].text = bytes]
    BY <1>11 DEF EndString, bytes
  <2>2. /\ DOMAIN tree' = DOMAIN tree /\ \A a \in DOMAIN tree : a # here => tree'[a] = tree[a]
        /\ tree'[here] = [tree[here] EXCEPT !.t = "string", !.text = bytes]
    BY <1>4, <2>1
  <2>3. /\ tree'[here] \in Items /\ tree'[here].t \in Container \cup Scalar /\ tree'[here].n = 0
        /\ tree'[here].name = tree[here].name
    BY <1>2, <1>5, <2>2 DEF Items, Scalar
  <2>4. Sound(tree, here, open, TRUE, FALSE)
    BY <1>3, <1>4, <1>11
  <2>5. Sound(tree', here, open, FALSE, FALSE)
    BY <2>2, <2>3, <2>4, GetsValue
  <2>6. Pending' = FALSE
    BY <1>7, <2>1
  <2>7. Held'
    BY <1>6, <1>7, <2>1, <2>5, <2>6 DEF Held
  <2> QED BY <1>8, <1>9, <2>7 DEF ParserInv
<1> QED BY <1>10, <1>11

\* A bracket is no NUL.
LEMMA BracketsAre ==
  ASSUME NEW type \in Container
  PROVE  Opening[type] # NUL /\ Closing[type] # NUL
<1>1. /\ Opening["array"] = Byte["["] /\ Opening["object"] = Byte["lbrace"]
      /\ Closing["array"] = Byte["]"] /\ Closing["object"] = Byte["rbrace"]
  BY DEF Opening, Closing
<1>2. /\ Byte["["] # NUL /\ Byte["lbrace"] # NUL /\ Byte["]"] # NUL /\ Byte["rbrace"] # NUL
  BY ByteValues DEF NUL
<1>3. type = "array" \/ type = "object"
  BY DEF Container
<1> QED BY <1>1, <1>2, <1>3

\* A container opens.
LEMMA OpensOne ==
  ASSUME ParserInv, NEW type \in Container, OpenContainer(type)
  PROVE  ParserInv'
<1> DEFINE o   == SkipWhitespace(offset + 1)
           new == Append(here, 1)
<1>1. /\ parsing = "value" /\ text \in Octets /\ offset \in 0..Length /\ Live /\ Pending = TRUE
      /\ Untitled = FALSE /\ open \in Seq(Container) /\ here \in Address /\ Len(open) = Len(here)
      /\ copy \in [end : Nat, into : {"text", "name"}, room : Nat, bytes : Octets]
      /\ Len(copy.bytes) < copy.room
  BY DEF OpenContainer, Reading, ParserInv, Scanned, Live, Pending, Untitled
<1>2. Len(text) \in Nat /\ Length = Len(text) + 1 /\ offset < Len(text)
  <2>1. ByteHere # NUL
    BY BracketsAre DEF OpenContainer
  <2> QED BY <1>1, <2>1, TextIs DEF ByteHere
<1>3. offset + 1 \in 0..Length /\ offset + 1 < Length
  BY <1>1, <1>2
<1>4. o \in (offset + 1)..Length /\ o < Length
  BY <1>1, <1>3, SkipWhitespaceIs
<1> HIDE DEF o
<1>5. o - 1 \in 0..Length /\ o + 1 \in 0..Length /\ o - 1 < Len(text)
  BY <1>1, <1>2, <1>4
<1>6. CASE Len(open) >= NestingLimit
  <2>1. FailAt(offset)
    BY <1>6 DEF OpenContainer
  <2> QED BY <1>1, <2>1, FailIs
<1>7. CASE ~(Len(open) >= NestingLimit) /\ At(text, o) = Closing[type]
  <2>1. ParsedAs(Reads(type), o + 1)
    BY <1>7 DEF OpenContainer, o
  <2>2. Reads(type) \in Items /\ Reads(type).t \in Container \cup Scalar /\ Reads(type).n = 0
    BY NewItemIs DEF Reads, NewItem, Items
  <2> QED BY <1>1, <1>5, <2>1, <2>2, ParsedIs
<1>8. CASE ~(Len(open) >= NestingLimit) /\ At(text, o) # Closing[type]
  <2>1. /\ open' = Append(open, type) /\ here' = new /\ tree' = With(tree, new)
        /\ offset' = o - 1 /\ parsing' = "item"
        /\ text' = text /\ copy' = copy /\ Length' = Length
    BY <1>8 DEF OpenContainer, o, WithNew, With, Length
  <2>2. Sound(tree, here, open, TRUE, FALSE)
    BY <1>1, LiveIs
  <2>3. Sound(tree', here', open', TRUE, TRUE)
    BY <1>1, <2>1, <2>2, OpensContainer
  <2>4. /\ open' \in Seq(Container) /\ Len(open') = Len(open) + 1 /\ open' # <<>>
        /\ here' \in Address /\ Len(here') = Len(here) + 1
    <3>1. 1 \in Position
      BY DEF Position
    <3>2. Append(open, type) \in Seq(Container) /\ Len(Append(open, type)) = Len(open) + 1
      BY <1>1, AppendProperties
    <3>3. new \in Address /\ Len(new) = Len(here) + 1
      BY <1>1, <3>1, AppendProperties DEF Address
    <3>4. Len(open) \in Nat /\ Len(<<>>) = 0
      BY <1>1, LenProperties, EmptySeq
    <3> HIDE DEF new
    <3> QED BY <2>1, <3>2, <3>3, <3>4
  <2>5. Pending' = TRUE /\ Untitled' = TRUE
    BY <2>1 DEF Pending, Untitled
  <2>6. Scanned'
    BY <1>1, <1>5, <2>1, <2>4 DEF Scanned, ParserStages
  <2>7. Copied' /\ Enclosed'
    BY <1>5, <2>1, <2>4 DEF Copied, Enclosed
  <2>8. Held'
    BY <2>1, <2>3, <2>5 DEF Held
  <2> QED BY <2>6, <2>7, <2>8 DEF ParserInv
<1> QED BY <1>6, <1>7, <1>8

\* An element has no name to wait for.
LEMMA ParsesElement ==
  ASSUME ParserInv, ParseElement
  PROVE  ParserInv'
<1>1. /\ parsing = "item" /\ Innermost = "array" /\ Scanned /\ Live /\ Pending = TRUE /\ Untitled = TRUE
      /\ open # <<>> /\ text \in Octets /\ offset \in 0..Length /\ offset < Len(text)
  BY DEF ParserInv, Scanned, Enclosed, ParseElement, Live, Pending, Untitled
<1>2. /\ parsing' = "value" /\ offset' = SkipWhitespace(offset + 1)
      /\ text' = text /\ open' = open /\ here' = here /\ tree' = tree /\ copy' = copy /\ Length' = Length
  BY DEF ParseElement, Length
<1>3. Length \in Nat /\ offset + 1 \in 0..Length
  BY <1>1, TextIs
<1>4. offset' \in 0..Length
  <2>1. SkipWhitespace(offset + 1) \in (offset + 1)..Length
    BY <1>1, <1>3, SkipWhitespaceIs
  <2> QED BY <1>1, <1>2, <1>3, <2>1
<1>5. PICK p \in Address, i \in Position, op \in Seq(Container), type \in Container :
        here = Append(p, i) /\ open = Append(op, type) /\ Len(op) = Len(p) /\ type = "array"
  BY <1>1, InsideIs
<1>6. Sound(tree, here, open, TRUE, TRUE)
  BY <1>1, LiveIs
<1>7. tree[here] \in Items /\ tree[here].name = NoName /\ here # Root
  <2>1. here # Root
    BY <1>5, AppendParent
  <2>2. here \in DOMAIN tree /\ tree[here] \in Items
    BY <1>6 DEF Sound, Loose
  <2>3. tree[here].name \in IF TypeAt(tree, here, open, Parent(here)) = "object" /\ ~(here = here /\ TRUE)
                            THEN CStrings ELSE {NoName}
    BY <1>6, <2>1, <2>2 DEF Sound
  <2> QED BY <2>1, <2>2, <2>3
<1>8. Sound(tree, here, open, TRUE, FALSE)
  BY <1>5, <1>6, <1>7, GetsName
<1>9. Pending' = TRUE /\ Untitled' = FALSE
  BY <1>2 DEF Pending, Untitled
<1>10. Scanned'
  BY <1>1, <1>2, <1>4 DEF Scanned, ParserStages
<1>11. Copied' /\ Enclosed' /\ Held'
  BY <1>2, <1>8, <1>9 DEF Copied, Enclosed, Held
<1> QED BY <1>10, <1>11 DEF ParserInv

\* What buffer_at_offset reads behind the whitespace is in the text.
LEMMA BehindIs ==
  ASSUME ParserInv
  PROVE  /\ text \in Octets /\ Len(text) \in Nat /\ Length = Len(text) + 1 /\ Behind \in 0..Length
         /\ At(text, Behind) # NUL => Behind < Len(text) /\ Behind + 1 \in 0..Length
<1>1. text \in Octets /\ offset \in 0..Length
  BY DEF ParserInv, Scanned
<1>2. Len(text) \in Nat /\ Length = Len(text) + 1
  BY <1>1, TextIs
<1>3. Behind \in offset..Length
  BY <1>1, SkipWhitespaceIs DEF Behind
<1>4. Behind \in 0..Length /\ Behind \in Nat
  BY <1>1, <1>2, <1>3
<1>5. At(text, Behind) # NUL => Behind < Len(text)
  BY <1>1, <1>4, TextIs
<1> HIDE DEF Behind
<1> QED BY <1>1, <1>2, <1>4, <1>5

\* The offset moves and the stage is another, but what is held is the same.
LEMMA MovesOn ==
  ASSUME ParserInv, Live, offset' \in 0..Length, parsing' \in {"value", "parsed"},
         Pending' = Pending, Untitled = FALSE,
         parsing' = "parsed" => open = <<>>,
         UNCHANGED <<text, open, here, tree, copy>>
  PROVE  ParserInv'
<1>1. Length' = Length /\ Untitled' = FALSE
  BY DEF Length, Untitled
<1>2. Scanned'
  BY <1>1 DEF ParserInv, Scanned, ParserStages
<1>3. Copied' /\ Enclosed'
  BY <1>1 DEF Copied, Enclosed
<1>4. Sound(tree, here, open, Pending, FALSE)
  BY LiveIs
<1>5. Held'
  BY <1>1, <1>4 DEF Held
<1> QED BY <1>2, <1>3, <1>5 DEF ParserInv

\* The whitespace and the byte order mark before the value.
LEMMA Begins ==
  ASSUME ParserInv, Begin
  PROVE  ParserInv'
<1>1. /\ parsing = "begin" /\ parsing' = "value" /\ offset' = SkipWhitespace(SkipBom)
      /\ UNCHANGED <<text, open, here, tree, copy>>
  BY DEF Begin
<1>2. text \in Octets
  BY DEF ParserInv, Scanned
<1>3. Length \in Nat /\ Length >= 1
  BY <1>2, TextIs
<1>4. SkipBom \in 0..Length
  BY <1>3 DEF SkipBom
<1>5. SkipWhitespace(SkipBom) \in 0..Length
  <2>1. SkipWhitespace(SkipBom) \in SkipBom..Length
    BY <1>2, <1>4, SkipWhitespaceIs
  <2> QED BY <1>3, <1>4, <2>1
<1>6. Live /\ Pending' = Pending /\ Untitled = FALSE
  BY <1>1 DEF Live, Pending, Untitled
<1> QED BY <1>1, <1>5, <1>6, MovesOn

\* The colon behind a name.
LEMMA ParsesColon ==
  ASSUME ParserInv, ParseColon
  PROVE  ParserInv'
<1>1. /\ parsing = "colon" /\ parsing' = "value" /\ offset' = SkipWhitespace(Behind + 1)
      /\ At(text, Behind) # NUL /\ UNCHANGED <<text, open, here, tree, copy>>
  BY ByteValues DEF ParseColon, NUL
<1>2. /\ text \in Octets /\ Len(text) \in Nat /\ Length = Len(text) + 1
      /\ Behind + 1 \in 0..Length
  BY <1>1, BehindIs
<1>3. SkipWhitespace(Behind + 1) \in 0..Length
  <2>1. SkipWhitespace(Behind + 1) \in (Behind + 1)..Length
    BY <1>2, SkipWhitespaceIs
  <2> HIDE DEF Behind
  <2> QED BY <1>2, <2>1
<1>4. Live /\ Pending' = Pending /\ Untitled = FALSE
  BY <1>1 DEF Live, Pending, Untitled
<1> QED BY <1>1, <1>3, <1>4, MovesOn

\* No colon, or neither a comma nor a closing bracket.
LEMMA FailsBehind ==
  ASSUME ParserInv, NoColon \/ NoEnd
  PROVE  ParserInv'
<1>1. Live /\ FailAt(Behind)
  BY DEF NoColon, NoEnd, InContainer, Live
<1> QED BY <1>1, BehindIs, FailIs

\* Behind a value: its item has everything.
LEMMA AfterIs ==
  ASSUME ParserInv, parsing = "after"
  PROVE  /\ Live /\ Pending = FALSE /\ Untitled = FALSE /\ Scanned
         /\ Sound(tree, here, open, FALSE, FALSE)
<1>1. Live /\ Pending = FALSE /\ Untitled = FALSE /\ Scanned
  BY DEF Live, Pending, Untitled, ParserInv
<1> QED BY <1>1, LiveIs

\* A comma: the next item is linked behind the last.
LEMMA GoesToNextItem ==
  ASSUME ParserInv, NextItem
  PROVE  ParserInv'
<1>1. parsing = "after" /\ open # <<>> /\ At(text, Behind) # NUL
  BY ByteValues DEF NextItem, InContainer, NUL
<1>2. Pending = FALSE /\ Untitled = FALSE /\ Scanned /\ Sound(tree, here, open, FALSE, FALSE)
  BY <1>1, AfterIs
<1>3. PICK p \in Address, i \in Position, op \in Seq(Container), type \in Container :
        /\ here = Append(p, i) /\ open = Append(op, type) /\ Len(op) = Len(p)
        /\ Parent(here) = p /\ Last(here) = i
  BY <1>1, <1>2, InsideIs
<1> DEFINE new == Append(p, i + 1)
<1>4. /\ tree' = With(tree, new) /\ here' = new /\ offset' = Behind /\ parsing' = "item"
      /\ text' = text /\ open' = open /\ copy' = copy /\ Length' = Length
  BY <1>3 DEF NextItem, WithNew, With, Length
<1>5. Sound(tree', here', open', TRUE, TRUE)
  BY <1>2, <1>3, <1>4, AddsItem
<1>6. new \in Address /\ Len(new) = Len(here)
  <2>1. i + 1 \in Position /\ p \in Seq(Position)
    BY <1>3 DEF Position, Address
  <2>2. Len(Append(p, i + 1)) = Len(p) + 1 /\ Len(Append(p, i)) = Len(p) + 1 /\ Append(p, i + 1) \in Seq(Position)
    BY <2>1, AppendProperties
  <2> QED BY <1>3, <2>2 DEF Address
<1> HIDE DEF new
<1>7. Pending' = TRUE /\ Untitled' = TRUE
  BY <1>4 DEF Pending, Untitled
<1>8. Behind \in 0..Length /\ Behind < Len(text)
  BY <1>1, BehindIs
<1>9. Scanned'
  BY <1>2, <1>4, <1>6, <1>8 DEF Scanned, ParserStages
<1>10. Copied' /\ Enclosed'
  BY <1>1, <1>4, <1>8 DEF Copied, Enclosed
<1>11. Held'
  BY <1>4, <1>5, <1>7 DEF Held
<1> QED BY <1>9, <1>10, <1>11 DEF ParserInv

\* A closing bracket.
LEMMA ClosesOne ==
  ASSUME ParserInv, CloseContainer
  PROVE  ParserInv'
<1>1. parsing = "after" /\ open # <<>> /\ At(text, Behind) = Closing[Innermost]
  BY DEF CloseContainer, InContainer
<1>2. Pending = FALSE /\ Untitled = FALSE /\ Scanned /\ Sound(tree, here, open, FALSE, FALSE)
  BY <1>1, AfterIs
<1>3. PICK p \in Address, i \in Position, op \in Seq(Container), type \in Container :
        /\ here = Append(p, i) /\ open = Append(op, type) /\ Len(op) = Len(p)
        /\ Parent(here) = p /\ Last(here) = i /\ Front(open) = op /\ Innermost = type
  BY <1>1, <1>2, InsideIs
<1>4. /\ tree' = [tree EXCEPT ![p].t = type, ![p].n = i] /\ here' = p /\ open' = op
      /\ offset' = Behind + 1
      /\ text' = text /\ copy' = copy /\ parsing' = parsing /\ Length' = Length
  BY <1>3 DEF CloseContainer, Length
<1>5. Sound(tree', here', open', FALSE, FALSE)
  <2>1. Sound(tree, Append(p, i), Append(op, type), FALSE, FALSE)
    BY <1>2, <1>3
  <2>2. Sound([tree EXCEPT ![p].t = type, ![p].n = i], p, op, FALSE, FALSE)
    BY ONLY <1>3, <2>1, ClosesContainer, Zenon
  <2> QED BY ONLY <1>4, <2>2, Zenon
<1>6. Behind + 1 \in 0..Length
  BY <1>1, <1>3, BracketsAre, BehindIs
<1>7. Pending' = FALSE /\ Untitled' = FALSE
  BY <1>1, <1>4 DEF Pending, Untitled
<1>8. Scanned'
  BY <1>2, <1>3, <1>4, <1>6 DEF Scanned
<1>9. Copied' /\ Enclosed' /\ Held'
  BY <1>1, <1>4, <1>5, <1>7 DEF Copied, Enclosed, Held
<1> QED BY <1>8, <1>9 DEF ParserInv

\* The fail labels: each container frees its list, the last the root.
LEMMA GivesUp ==
  ASSUME ParserInv, GiveUp
  PROVE  ParserInv'
<1>1. parsing = "failing" /\ open # <<>> /\ Scanned /\ Loose(tree, here)
  BY DEF GiveUp, ParserInv, Held
<1>2. PICK p \in Address, i \in Position, op \in Seq(Container), type \in Container :
        /\ here = Append(p, i) /\ open = Append(op, type) /\ Len(op) = Len(p)
        /\ Parent(here) = p /\ Last(here) = i /\ Front(open) = op
  BY <1>1, InsideIs
<1>3. /\ tree' = [a \in DOMAIN tree \ UNION {Linked(a) : a \in {Append(p, k) : k \in 1..i}} |-> tree[a]]
      /\ open' = op /\ here' = p
      /\ text' = text /\ offset' = offset /\ copy' = copy /\ parsing' = parsing /\ Length' = Length
  BY <1>2 DEF GiveUp, Delete, Length
<1>4. Loose(tree', p)
  BY <1>1, <1>2, <1>3, DeletesList
<1>5. Scanned'
  BY <1>1, <1>2, <1>3 DEF Scanned
<1>6. Copied' /\ Enclosed' /\ Held'
  BY <1>1, <1>3, <1>4 DEF Copied, Enclosed, Untitled, Held, Live
<1> QED BY <1>5, <1>6 DEF ParserInv

\* Text behind the value, where none may be.
LEMMA RefusesText ==
  ASSUME ParserInv, Refuse
  PROVE  ParserInv'
<1>1. parsing = "failing" /\ open = <<>> /\ Scanned /\ Loose(tree, here)
  BY DEF Refuse, ParserInv, Held
<1>2. here = Root
  BY <1>1, EmptySeq DEF Scanned, Address, Root
<1>3. Linked(Root) = DOMAIN tree
  BY <1>1, <1>2, DeletesAll
<1>4. /\ DOMAIN tree' = {} /\ parsing' = "failed"
      /\ text' = text /\ offset' = offset /\ open' = open /\ here' = here /\ copy' = copy
      /\ Length' = Length
  BY <1>3 DEF Refuse, Delete, Length
<1>5. Scanned'
  BY <1>1, <1>4 DEF Scanned, ParserStages
<1>6. Copied' /\ Enclosed' /\ Held'
  BY <1>1, <1>4 DEF Copied, Enclosed, Untitled, Held, Live
<1> QED BY <1>5, <1>6 DEF ParserInv

\* The value is returned.
LEMMA Accepts ==
  ASSUME ParserInv, Accept
  PROVE  ParserInv'
<1>1. Live /\ Pending = FALSE /\ Untitled = FALSE /\ open = <<>> /\ offset \in 0..Length
  BY AfterIs DEF Accept, Scanned
<1>2. CASE whole /\ At(text, Behind) # NUL
  <2>1. FailAt(Behind)
    BY <1>2 DEF Accept
  <2> QED BY <1>1, <2>1, BehindIs, FailIs
<1>3. CASE ~(whole /\ At(text, Behind) # NUL)
  <2>1. parsing' = "parsed" /\ UNCHANGED <<text, offset, open, here, tree, copy>>
    BY <1>3 DEF Accept
  <2>2. Pending' = FALSE
    BY <2>1 DEF Pending
  <2> QED BY <1>1, <2>1, <2>2, MovesOn
<1> QED BY <1>2, <1>3

\* A parse starts with one item and nothing read.
LEMMA StartsParsing ==
  ASSUME ParserInv, NEW bytes \in Octets, NEW all, StartParsing(bytes, all)
  PROVE  ParserInv'
<1>1. /\ parsing = "idle" /\ parsing' = "begin" /\ text' = bytes /\ offset' = 0
      /\ tree' = [a \in {Root} |-> NewItem] /\ open' = open /\ here' = here /\ copy' = copy
  BY DEF StartParsing
<1>2. open = <<>> /\ Scanned
  BY <1>1 DEF ParserInv, Enclosed
<1>3. here = Root
  BY <1>2, EmptySeq DEF Scanned, Address, Root
<1>4. Len(bytes) \in Nat /\ 0 \in 0..(Len(bytes) + 1)
  <2>1. Len(bytes) \in Nat
    BY LenProperties DEF Octets
  <2> QED BY <2>1
<1>5. Scanned'
  BY <1>1, <1>2, <1>4 DEF Scanned, ParserStages, Length
<1>6. Sound(tree', Root, <<>>, TRUE, FALSE)
  BY <1>1, FirstItem
<1>7. Pending' = TRUE /\ Untitled' = FALSE
  BY <1>1 DEF Pending, Untitled
<1>8. Copied' /\ Enclosed' /\ Held'
  BY <1>1, <1>2, <1>3, <1>6, <1>7 DEF Copied, Enclosed, Held
<1> QED BY <1>5, <1>8 DEF ParserInv

\* Nothing is being parsed and nothing is held.
Forgotten ==
  /\ text = <<>> /\ offset = 0 /\ open = <<>> /\ here = Root /\ tree = <<>>
  /\ copy = NoCopy /\ parsing = "idle"

\* With nothing held there is nothing to say.
LEMMA IsForgotten == Forgotten => ParserInv
<1> SUFFICES ASSUME Forgotten PROVE ParserInv
  OBVIOUS
<1> USE DEF Forgotten
<1>1. <<>> \in Octets /\ Len(<<>>) = 0 /\ <<>> \in Seq(Container) /\ Root \in Address
  BY DEF Octets, Root, Address
<1>2. Length = 1 /\ offset \in 0..Length
  BY <1>1 DEF Length
<1>3. /\ copy.room = 1 /\ copy.bytes = <<>>
      /\ copy \in [end : Nat, into : {"text", "name"}, room : Nat, bytes : Octets]
  BY <1>1 DEF NoCopy
<1>4. Scanned
  BY <1>1, <1>2, <1>3 DEF Scanned, ParserStages, Root
<1>5. DOMAIN tree = {}
  OBVIOUS
<1>6. Copied /\ Enclosed /\ Held
  BY <1>5 DEF Copied, Enclosed, Untitled, Held, Live
<1> QED BY <1>4, <1>6 DEF ParserInv

\* Every step of the parser, and every step that is none of its own, keeps
\* ParserInv: the copy of a string has room for what is still to be decoded, and
\* the items made so far are a document but for the containers still open.
THEOREM ParserStep ==
  ASSUME ParserInv, PrinterInv, [Next]_vars
  PROVE  ParserInv'
<1>1. CASE UNCHANGED parserVars
  <2>1. UNCHANGED <<text, offset, open, here, tree, copy, parsing>>
    BY <1>1 DEF parserVars
  <2>2. Length' = Length /\ Innermost' = Innermost /\ Pending' = Pending /\ Untitled' = Untitled /\ (Live' <=> Live)
    BY <2>1 DEF Length, Innermost, Pending, Untitled, Live
  <2>3. Left(offset, copy.end)' = Left(offset, copy.end)
    BY <2>1 DEF Left, Skipped
  <2> QED BY <2>1, <2>2, <2>3 DEF ParserInv, Scanned, Copied, Enclosed, Held
<1>2. CASE CreateNode
  <2>1. PICK bytes \in Texts : StartParsing(bytes, TRUE)
    BY <1>2 DEF CreateNode
  <2>2. bytes \in Octets
    BY TextsAssumption, CStringIs
  <2> QED BY <2>1, <2>2, StartsParsing
<1>3. CASE Load
  BY <1>3, StartsParsing DEF Load, PrinterInv
<1>4. CASE Reply
  <2>1. Forgotten'
    BY <1>4 DEF Reply, ParserForget, Forgotten
  <2> QED BY <2>1, IsForgotten, PTL
<1>5. CASE ParserNext
  <2>1. CASE Begin
    BY <2>1, Begins
  <2>2. CASE ParseLiteral \/ ParseString \/ ParseNumber \/ NoValue
    BY <2>2, ParsesLiteral, ParsesString, ParsesNumber, ParsesNothing
  <2>3. CASE CopyBytes \/ Unescape \/ UnescapeUnit \/ UnescapePair \/ BadEscape \/ EndString
    BY <2>3, CopiesBytes, Unescapes, UnescapesUnit, UnescapesPair, RefusesEscape, EndsString
  <2>4. CASE \E type \in Container : OpenContainer(type)
    BY <2>4, OpensOne
  <2>5. CASE ParseElement \/ ParseName \/ ParseColon \/ NoColon \/ NextItem \/ CloseContainer \/ NoEnd
    BY <2>5, ParsesElement, ParsesName, ParsesColon, FailsBehind, GoesToNextItem, ClosesOne
  <2>6. CASE GiveUp \/ Refuse \/ Accept
    BY <2>6, GivesUp, RefusesText, Accepts
  <2> QED BY <1>5, <2>1, <2>2, <2>3, <2>4, <2>5, <2>6 DEF ParserNext
<1> QED BY <1>1, <1>2, <1>3, <1>4, <1>5 DEF Next, Work, Save, vars

\* The parser stays inside its text and inside the copy it allocates, builds a
\* linked document and, after a failure, holds no item: ParserInv always holds,
\* for every text (parse_value, parse_string, parse_array, parse_object and
\* their fail labels in cJSON.c).
THEOREM ParserCorrect == Spec => []ParserInv
<1>1. Init => ParserInv
  BY IsForgotten DEF Init, ParserInit, Forgotten
<1>2. ParserInv /\ PrinterInv /\ [Next]_vars => ParserInv'
  BY ParserStep
<1> QED BY <1>1, <1>2, PrinterCorrect, PTL DEF Spec

\* Parser, printer and what they hand over have their types; what a parse
\* returned, and what is printed, is a document: one root, every item linked
\* once, a name exactly for the members of objects (cJSON_ParseWithLengthOpts,
\* print).
THEOREM TextTypeCorrect == Spec => []TypeOK
<1>1. ParserInv /\ PrinterInv => TypeOK
  <2> SUFFICES ASSUME ParserInv, PrinterInv PROVE TypeOK
    OBVIOUS
  <2>1. /\ parsing \in ParserStages /\ offset \in 0..Length /\ Len(open) = Len(here)
        /\ printing \in PrinterStages /\ filled \in 0..MaxInt /\ length \in 0..MaxInt
    BY DEF ParserInv, Scanned, PrinterInv
  <2>2. ASSUME parsing \notin {"idle", "failing", "failed"} PROVE here \in DOMAIN tree
    BY <2>1, <2>2, LiveIs DEF ParserStages, Live
  <2>3. ASSUME parsing = "parsed" PROVE WellFormed(Shape(tree))
    <3>1. Live /\ Pending = FALSE /\ Untitled = FALSE /\ open = <<>> /\ here \in Address
      BY <2>3 DEF Live, Pending, Untitled, ParserInv, Enclosed, Scanned
    <3>2. here = Root
      BY <2>1, <3>1, EmptySeq DEF Address, Root
    <3>3. Sound(tree, Root, <<>>, FALSE, FALSE)
      BY <3>1, <3>2, LiveIs
    <3> QED BY <3>3, SoundIsDocument
  <2> QED BY <2>1, <2>2, <2>3 DEF TypeOK
<1> QED BY <1>1, ParserCorrect, PrinterCorrect, PTL

\* No text overruns its buffer: a decoded string fits into the copy that
\* parse_string allocates by counting escapes, and everything printed fits into
\* what ensure has made room for.
THEOREM BuffersNeverOverflow == Spec => []BuffersHold
<1>1. ParserInv /\ PrinterInv => BuffersHold
  BY DEF ParserInv, Scanned, PrinterInv, BuffersHold
<1> QED BY <1>1, ParserCorrect, PrinterCorrect, PTL

\* A failed parse has freed every item it made, however deep in nested lists
\* it failed (the fail labels of parse_array, parse_object and
\* cJSON_ParseWithLengthOpts).
THEOREM NoItemLeaks == Spec => []FailureFreesAll
<1>1. ParserInv => FailureFreesAll
  <2> SUFFICES ASSUME ParserInv PROVE FailureFreesAll
    OBVIOUS
  <2>1. ASSUME parsing = "failed" PROVE DOMAIN tree = {}
    BY <2>1 DEF ParserInv, Held
  <2>2. ASSUME parsing = "parsed" PROVE DOMAIN tree = Linked(Root)
    <3>1. Live /\ open = <<>> /\ Scanned
      BY <2>2 DEF Live, ParserInv, Enclosed
    <3>2. here = Root
      BY <3>1, EmptySeq DEF Scanned, Address, Root
    <3>3. Loose(tree, Root)
      BY <3>1, <3>2, LiveIs
    <3> QED BY <3>3, DeletesAll
  <2> QED BY <2>1, <2>2 DEF FailureFreesAll
<1> QED BY <1>1, ParserCorrect, PTL
=============================================================================
