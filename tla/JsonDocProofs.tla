---------------------------- MODULE JsonDocProofs ----------------------------
(***************************************************************************)
(* Numbers and texts, addresses, and documents: detaching and inserting    *)
(* children keeps a document well formed.                                  *)
(***************************************************************************)
EXTENDS JsonDoc, Ascii, SequenceTheorems, FiniteSetTheorems, WellFoundedInduction, TLAPS

(***************************************************************************)
(* Natural numbers.  Induction is stated with a set, so that the solvers   *)
(* can use it.                                                             *)
(***************************************************************************)
LEMMA LeastNat ==
  ASSUME NEW T, T \subseteq Nat, T # {}
  PROVE  \E x \in T : \A y \in T : x <= y
<1> DEFINE R == {ss \in Nat \X Nat : ss[1] < ss[2]}
<1>1. IsWellFoundedOn(R, Nat)
  BY NatLessThanWellFounded DEF OpToRel
<1>2. PICK x \in T : \A y \in T : <<y, x>> \notin R
  <2> HIDE DEF R
  <2> QED BY <1>1, WFMin
<1>3. ASSUME NEW y \in T PROVE x <= y
  <2>1. <<y, x>> \notin R
    BY <1>2
  <2> QED BY <2>1
<1> QED BY <1>3

\* Induction, as a fact about sets of numbers.
LEMMA Induction ==
  ASSUME NEW S, 0 \in S, \A n \in Nat : n \in S => n + 1 \in S
  PROVE  Nat \subseteq S
<1> DEFINE T == Nat \ S
<1> SUFFICES ASSUME T # {} PROVE FALSE
  OBVIOUS
<1>1. PICK x \in T : \A y \in T : x <= y
  BY LeastNat
<1>2. x # 0 /\ x - 1 \in Nat
  OBVIOUS
<1>3. x - 1 \notin T
  BY <1>1, <1>2
<1> QED BY <1>2, <1>3

\* Min and Max are what they are called.
LEMMA MinIs ==
  ASSUME NEW T, T \subseteq Nat, T # {}
  PROVE  Min(T) \in T /\ \A y \in T : Min(T) <= y
<1>1. \E x \in T : \A y \in T : x <= y
  BY LeastNat
<1> QED BY <1>1 DEF Min

\* The same of the greatest number of a bounded set.
LEMMA MaxIs ==
  ASSUME NEW T, NEW m \in Nat, T \subseteq 0..m, T # {}
  PROVE  Max(T) \in T /\ \A y \in T : y <= Max(T)
<1> DEFINE D == {m - x : x \in T}
<1>0. D \subseteq Nat /\ D # {}
  <2>1. \A x \in T : m - x \in Nat
    OBVIOUS
  <2> QED BY <2>1
<1>1. PICK d \in D : \A e \in D : d <= e
  <2> HIDE DEF D
  <2> QED BY <1>0, LeastNat
<1>2. PICK x \in T : d = m - x
  OBVIOUS
<1>3. ASSUME NEW y \in T PROVE x >= y
  <2>1. d <= m - y
    BY <1>1
  <2> QED BY <1>2, <2>1
<1>4. \E z \in T : \A y \in T : z >= y
  BY <1>3
<1>5. Max(T) \in T /\ \A y \in T : Max(T) >= y
  BY <1>4 DEF Max
<1> QED BY <1>5

(***************************************************************************)
(* Bytes, and the parts of a text.                                         *)
(***************************************************************************)
\* No character is listed twice, so a byte has one character.
LEMMA PrintableOnce ==
  ASSUME NEW i \in 1..95, NEW j \in 1..95, Printable[i] = Printable[j]
  PROVE  i = j
BY SMTT(60) DEF Printable

\* The j-th printable character is the byte 31 + j.
LEMMA ByteOf == \A j \in 1..95 : Byte[Printable[j]] = 31 + j
<1>1. DOMAIN Printable = 1..95
  BY DEF Printable
<1>2. ASSUME NEW j \in 1..95
      PROVE  (CHOOSE i \in 1..95 : Printable[i] = Printable[j]) = j
  BY PrintableOnce
<1>3. \A j \in 1..95 : Printable[j] \in ToSet(Printable)
  BY <1>1 DEF ToSet
<1> QED BY <1>2, <1>3 DEF Byte

\* The bytes that the code writes as characters.
LEMMA ByteValues ==
  /\ Byte["quote"] = 34 /\ Byte["$"] = 36 /\ Byte["'"] = 39 /\ Byte["+"] = 43 /\ Byte["comma"] = 44 /\ Byte["-"] = 45
  /\ Byte["."] = 46 /\ Byte["/"] = 47 /\ Byte["0"] = 48 /\ Byte["1"] = 49 /\ Byte["9"] = 57 /\ Byte[":"] = 58
  /\ Byte["A"] = 65 /\ Byte["E"] = 69 /\ Byte["F"] = 70
  /\ Byte["["] = 91 /\ Byte["\\"] = 92 /\ Byte["]"] = 93
  /\ Byte["a"] = 97 /\ Byte["b"] = 98 /\ Byte["e"] = 101 /\ Byte["f"] = 102
  /\ Byte["l"] = 108 /\ Byte["n"] = 110 /\ Byte["r"] = 114 /\ Byte["s"] = 115 /\ Byte["t"] = 116
  /\ Byte["u"] = 117 /\ Byte["lbrace"] = 123 /\ Byte["rbrace"] = 125 /\ Byte["~"] = 126
<1>1. /\ Printable[3] = "quote" /\ Printable[5] = "$" /\ Printable[8] = "'" /\ Printable[12] = "+" /\ Printable[13] = "comma"
      /\ Printable[14] = "-" /\ Printable[15] = "." /\ Printable[16] = "/"
      /\ Printable[17] = "0" /\ Printable[18] = "1" /\ Printable[26] = "9" /\ Printable[27] = ":"
      /\ Printable[34] = "A" /\ Printable[38] = "E" /\ Printable[39] = "F"
      /\ Printable[60] = "[" /\ Printable[61] = "\\" /\ Printable[62] = "]"
      /\ Printable[66] = "a" /\ Printable[67] = "b" /\ Printable[70] = "e"
      /\ Printable[71] = "f" /\ Printable[77] = "l" /\ Printable[79] = "n"
      /\ Printable[83] = "r" /\ Printable[84] = "s" /\ Printable[85] = "t"
      /\ Printable[86] = "u" /\ Printable[92] = "lbrace" /\ Printable[94] = "rbrace"
      /\ Printable[95] = "~"
  BY DEF Printable
<1>2. \A j \in 1..95 : Byte[Printable[j]] = 31 + j
  BY ByteOf
<1> HIDE DEF Printable
<1> QED BY <1>1, <1>2

\* A slice holds the bytes from i up to j.
LEMMA SliceIs ==
  ASSUME NEW S, NEW t \in Seq(S), NEW i \in Nat, NEW j \in i..Len(t)
  PROVE  /\ Slice(t, i, j) \in Seq(S) /\ Len(Slice(t, i, j)) = j - i
         /\ \A k \in 0..(j - i - 1) : At(Slice(t, i, j), k) = At(t, i + k)
<1>1. Len(t) \in Nat /\ \A k \in 1..Len(t) : t[k] \in S
  BY ElementOfSeq, LenProperties
<1>2. /\ SubSeq(t, i + 1, j) \in Seq(S)
      /\ Len(SubSeq(t, i + 1, j)) = IF i + 1 <= j THEN j - (i + 1) + 1 ELSE 0
      /\ \A k \in 1..(j - (i + 1) + 1) : SubSeq(t, i + 1, j)[k] = t[(i + 1) + k - 1]
  BY <1>1, SubSeqProperties
<1>3. Len(Slice(t, i, j)) = j - i
  BY <1>1, <1>2 DEF Slice
<1>4. ASSUME NEW k \in 0..(j - i - 1) PROVE At(Slice(t, i, j), k) = At(t, i + k)
  <2>1. k + 1 \in 1..(j - (i + 1) + 1) /\ k < j - i /\ i + k < Len(t)
    BY <1>1
  <2>2. SubSeq(t, i + 1, j)[k + 1] = t[i + k + 1]
    BY <1>2, <2>1
  <2> QED BY <1>3, <2>1, <2>2 DEF Slice, At
<1> QED BY <1>2, <1>3, <1>4 DEF Slice

\* The tail of a sequence from i on; nothing behind its end.
LEMMA FromIs ==
  ASSUME NEW S, NEW t \in Seq(S), NEW i \in Nat
  PROVE  /\ From(t, i) \in Seq(S)
         /\ Len(From(t, i)) = IF i <= Len(t) THEN Len(t) - i ELSE 0
         /\ \A k \in 0..(Len(t) - i - 1) : At(From(t, i), k) = At(t, i + k)
<1>1. Len(t) \in Nat /\ \A k \in 1..Len(t) : t[k] \in S
  BY ElementOfSeq, LenProperties
<1>2. /\ SubSeq(t, i + 1, Len(t)) \in Seq(S)
      /\ Len(SubSeq(t, i + 1, Len(t))) = IF i + 1 <= Len(t) THEN Len(t) - (i + 1) + 1 ELSE 0
      /\ \A k \in 1..(Len(t) - (i + 1) + 1) : SubSeq(t, i + 1, Len(t))[k] = t[(i + 1) + k - 1]
  BY <1>1, SubSeqProperties
<1>3. Len(From(t, i)) = IF i <= Len(t) THEN Len(t) - i ELSE 0
  BY <1>1, <1>2 DEF From
<1>4. ASSUME NEW k \in 0..(Len(t) - i - 1) PROVE At(From(t, i), k) = At(t, i + k)
  <2>1. k + 1 \in 1..(Len(t) - (i + 1) + 1) /\ k < Len(t) - i /\ i + k < Len(t)
    BY <1>1
  <2>2. SubSeq(t, i + 1, Len(t))[k + 1] = t[i + k + 1]
    BY <1>2, <2>1
  <2> QED BY <1>1, <1>3, <2>1, <2>2 DEF From, At
<1> QED BY <1>2, <1>3, <1>4 DEF From

\* IndexFrom stops at the first byte of B, or at the end.
LEMMA IndexFromIs ==
  ASSUME NEW S, NEW t \in Seq(S), NEW i \in Nat, NEW B
  PROVE  /\ i <= Len(t) => IndexFrom(t, i, B) \in i..Len(t)
         /\ IndexFrom(t, i, B) \in Nat /\ IndexFrom(t, i, B) <= Len(t)
         /\ IndexFrom(t, i, B) < Len(t) => At(t, IndexFrom(t, i, B)) \in B
         /\ \A j \in i..(IndexFrom(t, i, B) - 1) : At(t, j) \notin B
<1> DEFINE hits == {j \in i..(Len(t) - 1) : At(t, j) \in B}
<1>0. Len(t) \in Nat
  BY LenProperties
<1>1. CASE hits = {}
  <2>1. IndexFrom(t, i, B) = Len(t)
    BY <1>1 DEF IndexFrom
  <2> QED BY <1>0, <1>1, <2>1
<1>2. CASE hits # {}
  <2>1. IndexFrom(t, i, B) = Min(hits)
    BY <1>2 DEF IndexFrom
  <2>2. hits \subseteq Nat
    BY <1>0
  <2>3. Min(hits) \in hits /\ \A y \in hits : Min(hits) <= y
    BY <1>2, <2>2, MinIs
  <2>4. ASSUME NEW j \in i..(Min(hits) - 1) PROVE At(t, j) \notin B
    <3>1. j \notin hits
      BY <1>0, <2>3
    <3> QED BY <1>0, <2>3, <3>1
  <2> HIDE DEF hits
  <2>5. Min(hits) \in i..(Len(t) - 1) /\ At(t, Min(hits)) \in B
    BY <2>3 DEF hits
  <2> QED BY <1>0, <2>1, <2>4, <2>5
<1> QED BY <1>1, <1>2

(***************************************************************************)
(* Addresses.                                                              *)
(***************************************************************************)
\* Two addresses of the same length with the same positions are equal.
LEMMA AddressEqual ==
  ASSUME NEW a \in Address, NEW b \in Address, Len(a) = Len(b),
         \A j \in 1..Len(a) : a[j] = b[j]
  PROVE  a = b
BY SeqEqual DEF Address

\* A function on 1..n to positions is an address, and so is a concatenation.
LEMMA AddressOf ==
  ASSUME NEW n \in Nat, NEW f, f = [l \in 1..n |-> f[l]],
         \A l \in 1..n : f[l] \in Position
  PROVE  f \in Address /\ Len(f) = n
BY DEF Address

LEMMA ConcatAddress ==
  ASSUME NEW a \in Address, NEW b \in Address
  PROVE  /\ a \o b \in Address /\ Len(a \o b) = Len(a) + Len(b)
         /\ \A l \in 1..(Len(a) + Len(b)) :
              (a \o b)[l] = IF l <= Len(a) THEN a[l] ELSE b[l - Len(a)]
BY ConcatProperties DEF Address

\* What Shift does to an address that stays within the positions.
LEMMA ShiftType ==
  ASSUME NEW p \in Address, NEW i \in Position, NEW k \in Int, NEW b \in Address,
         FromChild(p, i, b) => b[Len(p) + 1] + k \in Position
  PROVE  /\ Shift(p, i, k, b) \in Address
         /\ Len(Shift(p, i, k, b)) = Len(b)
         /\ \A j \in 1..Len(b) :
              Shift(p, i, k, b)[j] =
                IF j = Len(p) + 1 /\ FromChild(p, i, b) THEN b[j] + k ELSE b[j]
<1>1. CASE ~FromChild(p, i, b)
  BY <1>1 DEF Shift
<1>2. CASE FromChild(p, i, b)
  <2>1. Len(p) + 1 \in 1..Len(b)
    BY <1>2 DEF FromChild, Address
  <2>2. Shift(p, i, k, b) = [b EXCEPT ![Len(p) + 1] = b[Len(p) + 1] + k]
    BY <1>2 DEF Shift
  <2> QED
    BY <1>2, <2>1, <2>2, ExceptSeq DEF Address, Position
<1> QED
  BY <1>1, <1>2

\* Moving children up by k leaves a block of k free positions, and moving
\* them back restores the address.
LEMMA ShiftUp ==
  ASSUME NEW p \in Address, NEW i \in Position, NEW k \in Nat, NEW b \in Address
  PROVE  /\ Shift(p, i, k, b) \in Address
         /\ ~InBlock(p, i, k, Shift(p, i, k, b))
         /\ Shift(p, i, -k, Shift(p, i, k, b)) = b
<1> DEFINE c == Shift(p, i, k, b)
<1>0. Len(p) \in Nat /\ Len(b) \in Nat /\ Len(p) + 1 \in Position
  BY LenProperties DEF Address, Position
<1>1. \A j \in 1..Len(b) : b[j] \in Position
  BY ElementOfSeq DEF Address
<1>2. FromChild(p, i, b) => b[Len(p) + 1] + k \in Position
  BY <1>0, <1>1 DEF FromChild, Position
<1>3. /\ c \in Address /\ Len(c) = Len(b)
      /\ \A j \in 1..Len(b) :
           c[j] = IF j = Len(p) + 1 /\ FromChild(p, i, b) THEN b[j] + k ELSE b[j]
  BY <1>2, ShiftType DEF Position
<1>4. Under(p, c) <=> Under(p, b)
  BY <1>0, <1>3 DEF Under
<1>5. FromChild(p, i, c) <=> FromChild(p, i, b)
  BY <1>0, <1>1, <1>3, <1>4 DEF FromChild, Position
<1>6. ~InBlock(p, i, k, c)
  BY <1>0, <1>1, <1>3, <1>4, <1>5 DEF InBlock, FromChild, Position
<1>7. -k \in Int
  OBVIOUS
<1>8. FromChild(p, i, c) => c[Len(p) + 1] + (-k) \in Position
  BY <1>0, <1>1, <1>3, <1>5 DEF FromChild, Position
<1> HIDE DEF c
<1>9. /\ Shift(p, i, -k, c) \in Address /\ Len(Shift(p, i, -k, c)) = Len(c)
      /\ \A j \in 1..Len(c) : Shift(p, i, -k, c)[j] =
           IF j = Len(p) + 1 /\ FromChild(p, i, c) THEN c[j] + (-k) ELSE c[j]
  BY <1>3, <1>7, <1>8, ShiftType
<1>10. Shift(p, i, -k, c) = b
  <2>1. \A j \in 1..Len(b) : Shift(p, i, -k, c)[j] = b[j]
    BY <1>0, <1>1, <1>3, <1>5, <1>9 DEF Position
  <2> QED
    BY <1>3, <1>9, <2>1, AddressEqual
<1> QED
  BY <1>3, <1>6, <1>10 DEF c

\* Moving children down onto a block of k positions that has been emptied.
LEMMA ShiftDown ==
  ASSUME NEW p \in Address, NEW i \in Position, NEW k \in Nat, NEW a \in Address,
         ~InBlock(p, i, k, a)
  PROVE  /\ Shift(p, i, -k, a) \in Address
         /\ Shift(p, i, k, Shift(p, i, -k, a)) = a
<1> DEFINE c == Shift(p, i, -k, a)
<1>0. Len(p) \in Nat /\ Len(a) \in Nat /\ Len(p) + 1 \in Position /\ -k \in Int
  BY LenProperties DEF Address, Position
<1>1. \A j \in 1..Len(a) : a[j] \in Position
  BY ElementOfSeq DEF Address
<1>2. FromChild(p, i, a) => a[Len(p) + 1] >= i + k
  BY <1>0, <1>1 DEF InBlock, FromChild, Position
<1>3. FromChild(p, i, a) => a[Len(p) + 1] + (-k) \in Position
  BY <1>0, <1>1, <1>2 DEF FromChild, Position
<1>4. /\ c \in Address /\ Len(c) = Len(a)
      /\ \A j \in 1..Len(a) :
           c[j] = IF j = Len(p) + 1 /\ FromChild(p, i, a) THEN a[j] + (-k) ELSE a[j]
  BY <1>0, <1>3, ShiftType
<1>5. Under(p, c) <=> Under(p, a)
  BY <1>0, <1>4 DEF Under
<1>6. FromChild(p, i, c) <=> FromChild(p, i, a)
  BY <1>0, <1>1, <1>2, <1>4, <1>5 DEF FromChild, Position
<1>7. FromChild(p, i, c) => c[Len(p) + 1] + k \in Position
  BY <1>0, <1>1, <1>4, <1>6 DEF FromChild, Position
<1> HIDE DEF c
<1>8. /\ Shift(p, i, k, c) \in Address /\ Len(Shift(p, i, k, c)) = Len(c)
      /\ \A j \in 1..Len(c) : Shift(p, i, k, c)[j] =
           IF j = Len(p) + 1 /\ FromChild(p, i, c) THEN c[j] + k ELSE c[j]
  BY <1>4, <1>7, ShiftType
<1>9. Shift(p, i, k, c) = a
  <2>1. \A j \in 1..Len(a) : Shift(p, i, k, c)[j] = a[j]
    BY <1>0, <1>1, <1>4, <1>6, <1>8 DEF Position
  <2> QED
    BY <1>4, <1>8, <2>1, AddressEqual
<1> QED
  BY <1>4, <1>9 DEF c

\* How Shift acts on the address of a child.
LEMMA ShiftAppend ==
  ASSUME NEW p \in Address, NEW i \in Position, NEW k \in Nat,
         NEW b \in Address, NEW j \in Position
  PROVE  /\ Append(b, j) \in Address
         /\ Shift(p, i, k, p) = p
         /\ b = p => Shift(p, i, k, Append(b, j))
                       = Append(p, IF j >= i THEN j + k ELSE j)
         /\ b # p => Shift(p, i, k, Append(b, j)) = Append(Shift(p, i, k, b), j)
<1>0. Len(p) \in Nat /\ Len(b) \in Nat /\ Len(p) + 1 \in Position /\ k \in Int
  BY LenProperties DEF Address, Position
<1>1. /\ Append(b, j) \in Address
      /\ Len(Append(b, j)) = Len(b) + 1
      /\ Append(b, j)[Len(b) + 1] = j
      /\ \A l \in 1..Len(b) : Append(b, j)[l] = b[l] /\ b[l] \in Position
  BY AppendProperties, ElementOfSeq DEF Address
<1>2. Shift(p, i, k, p) = p
  BY <1>0 DEF Shift, FromChild
<1>3. ASSUME b = p
      PROVE  Shift(p, i, k, Append(b, j)) = Append(p, IF j >= i THEN j + k ELSE j)
  <2> DEFINE m == IF j >= i THEN j + k ELSE j
             c == Shift(p, i, k, Append(b, j))
  <2>1. m \in Position
    BY DEF Position
  <2>2. FromChild(p, i, Append(b, j)) <=> j >= i
    BY <1>0, <1>1, <1>3 DEF FromChild, Under
  <2>3. /\ c \in Address /\ Len(c) = Len(p) + 1
        /\ \A l \in 1..(Len(p) + 1) : c[l] = IF l = Len(p) + 1 THEN m ELSE p[l]
    <3>1. /\ c \in Address /\ Len(c) = Len(Append(b, j))
          /\ \A l \in 1..Len(Append(b, j)) : c[l] =
               IF l = Len(p) + 1 /\ FromChild(p, i, Append(b, j))
               THEN Append(b, j)[l] + k ELSE Append(b, j)[l]
      <4>1. FromChild(p, i, Append(b, j)) => Append(b, j)[Len(p) + 1] + k \in Position
        BY <1>0, <1>1, <1>3 DEF Position
      <4> QED
        BY <1>0, <1>1, <4>1, ShiftType
    <3> QED
      BY <1>0, <1>1, <1>3, <2>2, <3>1
  <2>4. /\ Append(p, m) \in Address /\ Len(Append(p, m)) = Len(p) + 1
        /\ \A l \in 1..(Len(p) + 1) : Append(p, m)[l] = IF l = Len(p) + 1 THEN m ELSE p[l]
    BY <1>0, <2>1, AppendProperties DEF Address
  <2> HIDE DEF m, c
  <2>5. c = Append(p, m)
    BY <2>3, <2>4, AddressEqual
  <2> QED
    BY <2>5 DEF m, c
<1>4. ASSUME b # p
      PROVE  Shift(p, i, k, Append(b, j)) = Append(Shift(p, i, k, b), j)
  <2> DEFINE c == Shift(p, i, k, Append(b, j))
             s == Shift(p, i, k, b)
  <2>1. Under(p, Append(b, j)) /\ Len(p) < Len(Append(b, j)) <=> Under(p, b) /\ Len(p) < Len(b)
    <3>1. ASSUME Under(p, b), Len(p) = Len(b) PROVE FALSE
      BY <1>4, <3>1, AddressEqual DEF Under
    <3>2. ASSUME Under(p, Append(b, j)), Len(p) = Len(b) PROVE FALSE
      <4>1. Under(p, b)
        BY <1>0, <1>1, <3>2 DEF Under
      <4> QED
        BY <3>1, <3>2, <4>1
    <3>3. ASSUME Len(p) < Len(b) PROVE Under(p, b) <=> Under(p, Append(b, j))
      BY <1>0, <1>1, <3>3 DEF Under
    <3> QED
      BY <1>0, <1>1, <3>2, <3>3
  <2>2. FromChild(p, i, Append(b, j)) <=> FromChild(p, i, b)
    BY <1>0, <1>1, <2>1 DEF FromChild
  <2>3. FromChild(p, i, b) => Len(p) + 1 \in 1..Len(b)
    BY <1>0 DEF FromChild
  <2>4. /\ s \in Address /\ Len(s) = Len(b)
        /\ \A l \in 1..Len(b) :
              s[l] = IF l = Len(p) + 1 /\ FromChild(p, i, b) THEN b[l] + k ELSE b[l]
    <3>1. FromChild(p, i, b) => b[Len(p) + 1] + k \in Position
      BY <1>1, <2>3 DEF Position
    <3> QED
      BY <3>1, ShiftType
  <2>5. /\ c \in Address /\ Len(c) = Len(b) + 1
        /\ \A l \in 1..(Len(b) + 1) : c[l] =
             IF l = Len(p) + 1 /\ FromChild(p, i, b) THEN Append(b, j)[l] + k ELSE Append(b, j)[l]
    <3>1. FromChild(p, i, Append(b, j)) => Append(b, j)[Len(p) + 1] + k \in Position
      BY <1>1, <2>2, <2>3 DEF Position
    <3>2. /\ c \in Address /\ Len(c) = Len(Append(b, j))
          /\ \A l \in 1..Len(Append(b, j)) : c[l] =
               IF l = Len(p) + 1 /\ FromChild(p, i, Append(b, j))
               THEN Append(b, j)[l] + k ELSE Append(b, j)[l]
      BY <1>0, <1>1, <3>1, ShiftType
    <3> QED
      BY <1>1, <2>2, <3>2
  <2> HIDE DEF c, s
  <2>6. /\ Append(s, j) \in Address /\ Len(Append(s, j)) = Len(b) + 1
        /\ Append(s, j)[Len(b) + 1] = j
        /\ \A l \in 1..Len(b) : Append(s, j)[l] = s[l]
    BY <2>4, AppendProperties DEF Address
  <2>7. \A l \in 1..(Len(b) + 1) : c[l] = Append(s, j)[l]
    BY <1>0, <1>1, <2>3, <2>4, <2>5, <2>6
  <2>8. c = Append(s, j)
    BY <2>5, <2>6, <2>7, AddressEqual
  <2> QED
    BY <2>8 DEF c, s
<1> QED
  BY <1>1, <1>2, <1>3, <1>4

(***************************************************************************)
(* Well-formedness, in terms of Append: the children of a node are at the  *)
(* positions 1, ..., n below it.                                           *)
(***************************************************************************)
Tree(d) ==
  \A a \in Address, j \in Position :
    Append(a, j) \in DOMAIN d <=>
      a \in DOMAIN d /\ d[a].t \in Container /\ d[a].n \in Nat /\ j <= d[a].n

TitledBelow(d) ==
  \A a \in Address, j \in Position : Append(a, j) \in DOMAIN d =>
    IF d[a].t = "object"
    THEN d[Append(a, j)].name \in Name
    ELSE d[Append(a, j)].name \in {NoName, ValueName}

CountsAreNatural(d) == \A a \in DOMAIN d : d[a].t \in Container => d[a].n \in Nat

\* An address that is not the root is its parent with a last position.
LEMMA ParentAppend ==
  ASSUME NEW a \in Address, a # Root
  PROVE  /\ Parent(a) \in Address /\ a[Len(a)] \in Position
         /\ a = Append(Parent(a), a[Len(a)])
<1>1. Len(a) \in Nat \ {0} /\ \A l \in 1..Len(a) : a[l] \in Position
  BY EmptySeq, ElementOfSeq, LenProperties DEF Address, Root
<1>2. Parent(a) = [l \in 1..(Len(a) - 1) |-> a[l]]
  BY DEF Parent, Prefix
<1>3. /\ Parent(a) \in Address /\ Len(Parent(a)) = Len(a) - 1
      /\ \A l \in 1..(Len(a) - 1) : Parent(a)[l] = a[l]
  BY <1>1, <1>2 DEF Address
<1>4. /\ Append(Parent(a), a[Len(a)]) \in Address
      /\ Len(Append(Parent(a), a[Len(a)])) = Len(a)
      /\ \A l \in 1..Len(a) : Append(Parent(a), a[Len(a)])[l] = a[l]
  BY <1>1, <1>3, AppendProperties DEF Address
<1>5. a = Append(Parent(a), a[Len(a)])
  BY <1>4, AddressEqual
<1> QED
  BY <1>1, <1>3, <1>5

LEMMA AppendParent ==
  ASSUME NEW a \in Address, NEW j \in Position
  PROVE  /\ Append(a, j) \in Address /\ Append(a, j) # Root
         /\ Parent(Append(a, j)) = a
         /\ Append(a, j)[Len(Append(a, j))] = j
<1>1. /\ Append(a, j) \in Address /\ Len(Append(a, j)) = Len(a) + 1 /\ Len(a) \in Nat
      /\ Append(a, j)[Len(a) + 1] = j
      /\ \A l \in 1..Len(a) : Append(a, j)[l] = a[l] /\ a[l] \in Position
  BY AppendProperties, LenProperties, ElementOfSeq DEF Address
<1>2. Parent(Append(a, j)) = [l \in 1..Len(a) |-> Append(a, j)[l]]
  BY <1>1 DEF Parent, Prefix
<1>3. Parent(Append(a, j)) \in Address /\ Len(Parent(Append(a, j))) = Len(a)
  BY <1>1, <1>2 DEF Address
<1>4. Parent(Append(a, j)) = a
  BY <1>1, <1>2, <1>3, AddressEqual
<1>5. Append(a, j) # Root
  BY <1>1 DEF Root
<1> QED
  BY <1>1, <1>4, <1>5

LEMMA WellFormedIsTree ==
  ASSUME NEW d, Labelled(d)
  PROVE  WellFormed(d) <=>
           Rooted(d) /\ CountsAreNatural(d) /\ Tree(d) /\ TitledBelow(d)
<1>1. ASSUME WellFormed(d) PROVE CountsAreNatural(d) /\ Tree(d) /\ TitledBelow(d)
  <2>1. CountsAreNatural(d)
    BY <1>1 DEF WellFormed, CountsAreNatural, Counted
  <2>2. ASSUME NEW a \in Address, NEW j \in Position
        PROVE  Append(a, j) \in DOMAIN d <=>
                 a \in DOMAIN d /\ d[a].t \in Container /\ d[a].n \in Nat /\ j <= d[a].n
    <3>1. /\ Append(a, j) # Root /\ Parent(Append(a, j)) = a
          /\ Append(a, j)[Len(Append(a, j))] = j
      BY <2>2, AppendParent
    <3>2. ASSUME Append(a, j) \in DOMAIN d
          PROVE  a \in DOMAIN d /\ d[a].t \in Container /\ d[a].n \in Nat /\ j <= d[a].n
      BY <1>1, <2>1, <3>1, <3>2 DEF WellFormed, Attached, CountsAreNatural
    <3>3. ASSUME a \in DOMAIN d, d[a].t \in Container, d[a].n \in Nat, j <= d[a].n
          PROVE  Append(a, j) \in DOMAIN d
      <4>1. j \in 1..d[a].n
        BY <2>2, <3>3 DEF Position
      <4> QED
        BY <1>1, <3>3, <4>1 DEF WellFormed, Counted
    <3> QED
      BY <3>2, <3>3
  <2>3. ASSUME NEW a \in Address, NEW j \in Position, Append(a, j) \in DOMAIN d
        PROVE  IF d[a].t = "object"
               THEN d[Append(a, j)].name \in Name
               ELSE d[Append(a, j)].name \in {NoName, ValueName}
    BY <1>1, <2>3, AppendParent DEF WellFormed, Titled
  <2> QED
    BY <2>1, <2>2, <2>3 DEF Tree, TitledBelow
<1>2. ASSUME Rooted(d), CountsAreNatural(d), Tree(d), TitledBelow(d) PROVE WellFormed(d)
  <2>1. Counted(d)
    BY <1>2 DEF Counted, CountsAreNatural, Tree, Labelled, Position
  <2>2. ASSUME NEW a \in DOMAIN d, a # Root
        PROVE  /\ Parent(a) \in Address /\ a[Len(a)] \in Position
               /\ a = Append(Parent(a), a[Len(a)])
    BY <2>2, ParentAppend DEF Labelled
  <2>3. Attached(d)
    BY <1>2, <2>2 DEF Attached, Tree
  <2>4. Titled(d)
    BY <1>2, <2>2 DEF Titled, TitledBelow
  <2> QED
    BY <1>2, <2>1, <2>3, <2>4 DEF WellFormed
<1> QED
  BY <1>1, <1>2 DEF WellFormed

\* A label of another size.
LEMMA ResizedLabel ==
  ASSUME NEW label \in Label, NEW k \in Int
  PROVE  /\ Resized(label, k) \in Label /\ Resized(label, -k) \in Label
         /\ Resized(label, k).t = label.t /\ Resized(label, -k).t = label.t
         /\ Resized(label, k).n = label.n + k /\ Resized(label, -k).n = label.n - k
         /\ Resized(label, k).name = label.name /\ Resized(label, -k).name = label.name
BY DEF Resized, Label

(***************************************************************************)
(* Detaching.                                                              *)
(***************************************************************************)
\* The nodes of what DetachItems leaves, each with the node it was.
LEMMA DetachDomain ==
  ASSUME NEW d, Labelled(d), NEW p \in Address, NEW i \in Position, NEW k \in Nat
  PROVE  /\ \A b : b \in DOMAIN DetachItems(d, p, i, k) <=>
                     b \in Address /\ Shift(p, i, k, b) \in DOMAIN d
         /\ \A b \in DOMAIN DetachItems(d, p, i, k) :
              DetachItems(d, p, i, k)[b] =
                IF b = p THEN Resized(d[p], -k) ELSE d[Shift(p, i, k, b)]
<1> DEFINE kept == {a \in DOMAIN d : ~InBlock(p, i, k, a)}
           dom  == {Shift(p, i, -k, a) : a \in kept}
<1>1. DetachItems(d, p, i, k) =
        [b \in dom |-> IF b = p THEN Resized(d[p], -k) ELSE d[Shift(p, i, k, b)]]
  BY DEF DetachItems
<1>2. ASSUME NEW b \in dom
      PROVE  b \in Address /\ Shift(p, i, k, b) \in DOMAIN d
  <2>1. PICK a \in kept : b = Shift(p, i, -k, a)
    OBVIOUS
  <2>2. a \in Address /\ ~InBlock(p, i, k, a) /\ a \in DOMAIN d
    BY <2>1 DEF Labelled
  <2> QED
    BY <2>1, <2>2, ShiftDown
<1>3. ASSUME NEW b \in Address, Shift(p, i, k, b) \in DOMAIN d
      PROVE  b \in dom
  <2>1. ~InBlock(p, i, k, Shift(p, i, k, b)) /\ Shift(p, i, -k, Shift(p, i, k, b)) = b
    BY ShiftUp
  <2>2. Shift(p, i, k, b) \in kept
    BY <1>3, <2>1
  <2> QED
    BY <2>1, <2>2
<1>4. DOMAIN DetachItems(d, p, i, k) = dom
  BY <1>1
<1>5. \A b \in dom : DetachItems(d, p, i, k)[b] =
        IF b = p THEN Resized(d[p], -k) ELSE d[Shift(p, i, k, b)]
  BY <1>1
<1> HIDE DEF dom, kept
<1> QED
  BY <1>2, <1>3, <1>4, <1>5

\* Taking children out of a container leaves a well-formed document
\* (cJSON_DetachItemViaPointer, detach_item_from_array).
THEOREM DetachWellFormed ==
  ASSUME NEW d, WellFormed(d), NEW p \in DOMAIN d, d[p].t \in Container,
         NEW i \in Position, NEW k \in Nat, i + k - 1 <= d[p].n
  PROVE  WellFormed(DetachItems(d, p, i, k))
<1> DEFINE e == DetachItems(d, p, i, k)
           S(b) == Shift(p, i, k, b)
<1>0. /\ Labelled(d) /\ Rooted(d) /\ CountsAreNatural(d) /\ Tree(d) /\ TitledBelow(d)
      /\ p \in Address /\ d[p].n \in Nat /\ d[p] \in Label /\ k \in Int
  BY WellFormedIsTree DEF WellFormed, Labelled, CountsAreNatural
<1>1. /\ \A b : b \in DOMAIN e <=> b \in Address /\ S(b) \in DOMAIN d
      /\ \A b \in DOMAIN e :
           e[b] = IF b = p THEN Resized(d[p], -k) ELSE d[S(b)]
  BY <1>0, DetachDomain
<1>2. S(p) = p
  BY <1>0, ShiftAppend DEF Position
<1>3. /\ Resized(d[p], -k) \in Label
      /\ Resized(d[p], -k).t = d[p].t
      /\ Resized(d[p], -k).n = d[p].n - k
      /\ Resized(d[p], -k).name = d[p].name
  BY <1>0, ResizedLabel
<1>4. \A b \in DOMAIN e :
        /\ e[b] \in Label /\ e[b].t = d[S(b)].t /\ e[b].name = d[S(b)].name
        /\ e[b].n = IF b = p THEN d[p].n - k ELSE d[S(b)].n
  BY <1>0, <1>1, <1>2, <1>3 DEF Labelled
<1>5. \A b \in Address, j \in Position :
        /\ Append(b, j) \in Address
        /\ b = p => S(Append(b, j)) = Append(p, IF j >= i THEN j + k ELSE j)
        /\ b # p => S(Append(b, j)) = Append(S(b), j)
  <2> SUFFICES ASSUME NEW b \in Address, NEW j \in Position
               PROVE  /\ Append(b, j) \in Address
                      /\ b = p => S(Append(b, j)) = Append(p, IF j >= i THEN j + k ELSE j)
                      /\ b # p => S(Append(b, j)) = Append(S(b), j)
    OBVIOUS
  <2>1. p \in Address
    BY <1>0
  <2>2. /\ Append(b, j) \in Address
        /\ b = p => Shift(p, i, k, Append(b, j)) = Append(p, IF j >= i THEN j + k ELSE j)
        /\ b # p => Shift(p, i, k, Append(b, j)) = Append(Shift(p, i, k, b), j)
    BY ONLY <2>1, ShiftAppend, i \in Position, k \in Nat, b \in Address, j \in Position
  <2> QED
    BY <2>2
<1>6. \A b \in Address : S(b) \in Address
  BY <1>0, ShiftUp
<1>7. d[p].n - k \in Nat
  BY <1>0 DEF Position
<1> HIDE DEF e, S
<1>8. Labelled(e)
  BY <1>1, <1>4 DEF Labelled
<1>9. Rooted(e)
  <2>1. Root \in Address
    BY <1>0 DEF Labelled, Rooted
  <2>2. S(Root) = Root
    <3>1. Len(Root) = 0 /\ Len(p) \in Nat
      BY <1>0, LenProperties DEF Root, Address
    <3> QED
      BY <3>1 DEF S, Shift, FromChild
  <2> QED
    BY <1>0, <1>1, <1>4, <2>1, <2>2 DEF Rooted
<1>10. CountsAreNatural(e)
  BY <1>0, <1>1, <1>4, <1>7 DEF CountsAreNatural
<1>11. Tree(e)
  <2> SUFFICES ASSUME NEW b \in Address, NEW j \in Position
               PROVE  Append(b, j) \in DOMAIN e <=>
                        b \in DOMAIN e /\ e[b].t \in Container /\ e[b].n \in Nat /\ j <= e[b].n
    BY DEF Tree
  <2>1. Append(b, j) \in DOMAIN e <=> S(Append(b, j)) \in DOMAIN d
    BY <1>1, <1>5
  <2>2. CASE b = p
    <3> DEFINE m == IF j >= i THEN j + k ELSE j
    <3>1. m \in Position
      BY DEF Position
    <3>2. Append(b, j) \in DOMAIN e <=> m <= d[p].n
      <4>1. S(Append(b, j)) = Append(p, m)
        BY <1>5, <2>2
      <4>2. Append(p, m) \in DOMAIN d <=> m <= d[p].n
        BY <1>0, <3>1 DEF Tree
      <4> QED
        BY <2>1, <4>1, <4>2
    <3>3. m <= d[p].n <=> j <= d[p].n - k
      BY <1>0 DEF Position
    <3>4. b \in DOMAIN e /\ e[b].t \in Container /\ e[b].n = d[p].n - k
      BY <1>0, <1>1, <1>2, <1>4, <2>2
    <3> QED
      BY <1>7, <3>2, <3>3, <3>4
  <2>3. CASE b # p
    <3>1. Append(b, j) \in DOMAIN e <=>
            S(b) \in DOMAIN d /\ d[S(b)].t \in Container /\ d[S(b)].n \in Nat /\ j <= d[S(b)].n
      <4>1. S(Append(b, j)) = Append(S(b), j) /\ S(b) \in Address
        BY <1>5, <1>6, <2>3
      <4>2. \A a \in Address : Append(a, j) \in DOMAIN d <=>
              a \in DOMAIN d /\ d[a].t \in Container /\ d[a].n \in Nat /\ j <= d[a].n
        BY <1>0 DEF Tree
      <4> QED
        BY <2>1, <4>1, <4>2
    <3>2. b \in DOMAIN e <=> S(b) \in DOMAIN d
      BY <1>1
    <3>3. b \in DOMAIN e => e[b].t = d[S(b)].t /\ e[b].n = d[S(b)].n
      BY <1>4, <2>3
    <3> QED
      BY <3>1, <3>2, <3>3
  <2> QED
    BY <2>2, <2>3
<1>12. TitledBelow(e)
  <2> SUFFICES ASSUME NEW b \in Address, NEW j \in Position, Append(b, j) \in DOMAIN e
               PROVE  IF e[b].t = "object"
                      THEN e[Append(b, j)].name \in Name
                      ELSE e[Append(b, j)].name \in {NoName, ValueName}
    BY DEF TitledBelow
  <2>1. b \in DOMAIN e /\ S(Append(b, j)) \in DOMAIN d
    BY <1>1, <1>11 DEF Tree
  <2>2. \E m \in Position : S(Append(b, j)) = Append(S(b), m)
    <3>1. (IF j >= i THEN j + k ELSE j) \in Position
      BY DEF Position
    <3> QED
      BY <1>2, <1>5, <3>1
  <2>3. e[b].t = d[S(b)].t /\ e[Append(b, j)].name = d[S(Append(b, j))].name
    BY <1>4, <2>1
  <2> QED
    BY <1>0, <1>6, <2>1, <2>2, <2>3 DEF TitledBelow
<1> QED
  BY <1>8, <1>9, <1>10, <1>11, <1>12, WellFormedIsTree DEF e

(***************************************************************************)
(* Inserting.                                                              *)
(***************************************************************************)
\* The address of a node of the document put at position m of p, taken apart
\* and put together again.
LEMMA BlockAddress ==
  ASSUME NEW p \in Address, NEW i \in Position, NEW k \in Nat
  PROVE  /\ \A s \in Address, m \in Position : \A b :
              i <= m /\ m < i + k /\ b = Below(p, m, s) =>
                /\ b \in Address
                /\ InBlock(p, i, k, b)
                /\ Turn(p, b) = m
                /\ Rest(p, b) = s
         /\ \A b \in Address : InBlock(p, i, k, b) =>
              /\ Rest(p, b) \in Address
              /\ Turn(p, b) \in i..(i + k - 1)
              /\ Below(p, Turn(p, b), Rest(p, b)) = b
<1>0. Len(p) \in Nat /\ \A l \in 1..Len(p) : p[l] \in Position
  BY LenProperties, ElementOfSeq DEF Address
<1>1. ASSUME NEW s \in Address, NEW m \in i..(i + k - 1)
      PROVE  /\ Append(p, m) \o s \in Address
             /\ InBlock(p, i, k, Append(p, m) \o s)
             /\ (Append(p, m) \o s)[Len(p) + 1] = m
             /\ Suffix(Append(p, m) \o s, Len(p) + 1) = s
  <2> DEFINE q == Append(p, m)
             b == q \o s
  <2>0. m \in Position
    BY DEF Position
  <2>1. /\ q \in Address /\ Len(q) = Len(p) + 1 /\ q[Len(p) + 1] = m
        /\ \A l \in 1..Len(p) : q[l] = p[l]
    BY <2>0, AppendProperties DEF Address
  <2>2. Len(s) \in Nat /\ \A l \in 1..Len(s) : s[l] \in Position
    BY LenProperties, ElementOfSeq DEF Address
  <2> HIDE DEF q
  <2>3. /\ b \in Address /\ Len(b) = Len(q) + Len(s)
        /\ \A l \in 1..(Len(q) + Len(s)) : b[l] = IF l <= Len(q) THEN q[l] ELSE s[l - Len(q)]
    BY <2>1, ConcatAddress
  <2> HIDE DEF b
  <2>4. b[Len(p) + 1] = m /\ Under(p, b) /\ Len(p) < Len(b)
    BY <1>0, <2>1, <2>2, <2>3 DEF Under
  <2>5. InBlock(p, i, k, b)
    BY <2>4 DEF InBlock, FromChild, Position
  <2>6. Suffix(b, Len(p) + 1) = s
    <3>1. /\ Suffix(b, Len(p) + 1) \in Address
          /\ Len(Suffix(b, Len(p) + 1)) = Len(s)
          /\ \A l \in 1..Len(s) : Suffix(b, Len(p) + 1)[l] = s[l]
      <4>1. Suffix(b, Len(p) + 1) = [l \in 1..Len(s) |-> b[l + (Len(p) + 1)]]
        BY <1>0, <2>1, <2>2, <2>3 DEF Suffix
      <4>2. \A l \in 1..Len(s) : b[l + (Len(p) + 1)] = s[l]
        BY <1>0, <2>1, <2>2, <2>3
      <4>3. \A l \in 1..Len(s) : Suffix(b, Len(p) + 1)[l] = s[l]
        BY <4>1, <4>2
      <4>4. Suffix(b, Len(p) + 1) = [l \in 1..Len(s) |-> Suffix(b, Len(p) + 1)[l]]
        BY <4>1
      <4> QED
        BY <2>2, <4>3, <4>4, AddressOf
    <3> QED
      BY <3>1, AddressEqual
  <2> QED
    BY <2>3, <2>4, <2>5, <2>6 DEF b, q
<1>2. ASSUME NEW b \in Address, InBlock(p, i, k, b)
      PROVE  /\ Suffix(b, Len(p) + 1) \in Address
             /\ b[Len(p) + 1] \in i..(i + k - 1)
             /\ Append(p, b[Len(p) + 1]) \o Suffix(b, Len(p) + 1) = b
  <2> DEFINE m == b[Len(p) + 1]
             s == Suffix(b, Len(p) + 1)
             q == Append(p, m)
  <2>1. Len(b) \in Nat /\ \A l \in 1..Len(b) : b[l] \in Position
    BY LenProperties, ElementOfSeq DEF Address
  <2>2. Len(p) < Len(b) /\ (\A l \in 1..Len(p) : b[l] = p[l]) /\ m >= i /\ m < i + k
    BY <1>2 DEF InBlock, FromChild, Under
  <2>3. m \in Position
    BY <1>0, <2>1, <2>2
  <2>4. /\ s \in Address /\ Len(s) = Len(b) - (Len(p) + 1)
        /\ \A l \in 1..(Len(b) - (Len(p) + 1)) : s[l] = b[l + (Len(p) + 1)]
    <3>1. s = [l \in 1..(Len(b) - (Len(p) + 1)) |-> b[l + (Len(p) + 1)]]
      BY DEF Suffix
    <3>2. \A l \in 1..(Len(b) - (Len(p) + 1)) : b[l + (Len(p) + 1)] \in Position
      BY <1>0, <2>1, <2>2
    <3>3. Len(b) - (Len(p) + 1) \in Nat
      BY <1>0, <2>1, <2>2
    <3> DEFINE n == Len(b) - (Len(p) + 1)
    <3> HIDE DEF n, s
    <3>4. s = [l \in 1..n |-> b[l + (Len(p) + 1)]]
      BY <3>1 DEF n
    <3>5. n \in Nat /\ \A l \in 1..n : b[l + (Len(p) + 1)] \in Position
      BY <3>2, <3>3 DEF n
    <3>6. s = [l \in 1..n |-> s[l]] /\ \A l \in 1..n : s[l] = b[l + (Len(p) + 1)]
      BY <3>4
    <3>7. s \in Address /\ Len(s) = n
      BY <3>5, <3>6, AddressOf
    <3> QED BY <3>6, <3>7 DEF n
  <2>5. /\ q \in Address /\ Len(q) = Len(p) + 1 /\ q[Len(p) + 1] = m
        /\ \A l \in 1..Len(p) : q[l] = p[l]
    BY <2>3, AppendProperties DEF Address
  <2>6. m \in i..(i + k - 1)
    BY <2>2, <2>3 DEF Position
  <2> HIDE DEF q, s
  <2>7. /\ q \o s \in Address /\ Len(q \o s) = Len(q) + Len(s)
        /\ \A l \in 1..(Len(q) + Len(s)) : (q \o s)[l] = IF l <= Len(q) THEN q[l] ELSE s[l - Len(q)]
    BY <2>4, <2>5, ConcatAddress
  <2>8. ASSUME NEW l \in 1..Len(b)
        PROVE  (q \o s)[l] = b[l]
    <3>1. CASE l <= Len(p)
      BY <1>0, <2>1, <2>2, <2>4, <2>5, <2>7, <3>1
    <3>2. CASE l = Len(p) + 1
      BY <1>0, <2>1, <2>2, <2>4, <2>5, <2>7, <3>2
    <3>3. CASE l > Len(p) + 1
      <4>1. l - Len(q) \in 1..(Len(b) - (Len(p) + 1)) /\ ~(l <= Len(q))
        BY <1>0, <2>1, <2>5, <3>3
      <4>2. (q \o s)[l] = s[l - Len(q)]
        BY <1>0, <2>1, <2>2, <2>4, <2>5, <2>7, <4>1
      <4>3. s[l - Len(q)] = b[(l - Len(q)) + (Len(p) + 1)]
        BY <2>4, <4>1
      <4>4. (l - Len(q)) + (Len(p) + 1) = l
        BY <1>0, <2>5
      <4> QED
        BY <4>2, <4>3, <4>4
    <3>4. l <= Len(p) \/ l = Len(p) + 1 \/ l > Len(p) + 1
      BY <1>0, <2>1
    <3> QED
      BY <3>1, <3>2, <3>3, <3>4
  <2>9. q \o s = b
    <3>1. Len(q \o s) = Len(b)
      BY <1>0, <2>1, <2>4, <2>5, <2>7
    <3> QED
      BY <2>7, <2>8, <3>1, AddressEqual
  <2> QED
    BY <2>4, <2>6, <2>9 DEF q, s
<1>3. \A s \in Address, m \in Position : \A b :
        i <= m /\ m < i + k /\ b = Below(p, m, s) =>
          /\ b \in Address
          /\ InBlock(p, i, k, b)
          /\ Turn(p, b) = m
          /\ Rest(p, b) = s
  <2> SUFFICES ASSUME NEW s \in Address, NEW m \in Position, i <= m, m < i + k
               PROVE  /\ Append(p, m) \o s \in Address
                      /\ InBlock(p, i, k, Append(p, m) \o s)
                      /\ (Append(p, m) \o s)[Len(p) + 1] = m
                      /\ Suffix(Append(p, m) \o s, Len(p) + 1) = s
    BY DEF Turn, Rest, Below
  <2>1. m \in i..(i + k - 1)
    BY DEF Position
  <2> QED
    BY <1>1, <2>1
<1> QED
  BY <1>2, <1>3 DEF Turn, Rest, Below

\* What a document needs to be put in another: everything but the name of its
\* root.
Branch(sub) ==
  /\ Root \in DOMAIN sub /\ Labelled(sub) /\ CountsAreNatural(sub)
  /\ Tree(sub) /\ TitledBelow(sub)

LEMMA WellFormedIsBranch ==
  ASSUME NEW d, WellFormed(d)
  PROVE  Branch(d)
BY WellFormedIsTree DEF Branch, WellFormed, Rooted

LEMMA NamedIsBranch ==
  ASSUME NEW d, WellFormed(d), NEW name \in Name \cup {NoName}
  PROVE  /\ Branch(Named(d, name)) /\ Named(d, name)[Root].name = name
         /\ DOMAIN Named(d, name) = DOMAIN d
<1> DEFINE e == Named(d, name)
<1>1. Branch(d)
  BY WellFormedIsBranch
<1>2. d[Root] \in Label /\ Root \in DOMAIN d
  BY <1>1 DEF Branch, Labelled
<1>3. /\ DOMAIN e = DOMAIN d
      /\ \A a \in DOMAIN d : e[a] = IF a = Root THEN [d[Root] EXCEPT !.name = name] ELSE d[a]
  BY <1>2 DEF Named
<1>4. /\ [d[Root] EXCEPT !.name = name] \in Label
      /\ [d[Root] EXCEPT !.name = name].name = name
      /\ [d[Root] EXCEPT !.name = name].t = d[Root].t
      /\ [d[Root] EXCEPT !.name = name].n = d[Root].n
  BY <1>2 DEF Label
<1>5. \A a \in DOMAIN d :
        /\ e[a] \in Label /\ e[a].t = d[a].t /\ e[a].n = d[a].n
        /\ a # Root => e[a].name = d[a].name
  BY <1>1, <1>3, <1>4 DEF Branch, Labelled
<1>6. e[Root].name = name
  BY <1>2, <1>3, <1>4
<1> HIDE DEF e
<1>7. Labelled(e) /\ CountsAreNatural(e)
  BY <1>1, <1>3, <1>5 DEF Branch, Labelled, CountsAreNatural
<1>8. Tree(e)
  BY <1>1, <1>3, <1>5 DEF Branch, Tree
<1>9. TitledBelow(e)
  <2> SUFFICES ASSUME NEW a \in Address, NEW j \in Position, Append(a, j) \in DOMAIN e
               PROVE  IF e[a].t = "object"
                      THEN e[Append(a, j)].name \in Name
                      ELSE e[Append(a, j)].name \in {NoName, ValueName}
    BY DEF TitledBelow
  <2>1. Append(a, j) # Root /\ a \in DOMAIN d /\ Append(a, j) \in DOMAIN d
    BY <1>1, <1>3, AppendParent DEF Branch, Tree
  <2>2. e[a].t = d[a].t /\ e[Append(a, j)].name = d[Append(a, j)].name
    BY <1>5, <2>1
  <2> QED
    BY <1>1, <2>1, <2>2 DEF Branch, TitledBelow
<1> QED
  BY <1>2, <1>3, <1>6, <1>7, <1>8, <1>9 DEF Branch, e

\* The nodes of what InsertItems builds, each with the node it was.
LEMMA InsertDomain ==
  ASSUME NEW d, Labelled(d), NEW p \in Address, NEW i \in Position,
         NEW subs, NEW k \in Nat, k = Len(subs), \A j \in 1..k : Labelled(subs[j])
  PROVE  /\ \A b : b \in DOMAIN InsertItems(d, p, i, subs) <=>
              /\ b \in Address
              /\ IF InBlock(p, i, k, b)
                 THEN Rest(p, b) \in DOMAIN subs[Turn(p, b) - i + 1]
                 ELSE Shift(p, i, -k, b) \in DOMAIN d
         /\ \A b \in DOMAIN InsertItems(d, p, i, subs) :
              InsertItems(d, p, i, subs)[b] =
                IF b = p THEN Resized(d[p], k)
                ELSE IF InBlock(p, i, k, b)
                THEN subs[Turn(p, b) - i + 1][Rest(p, b)]
                ELSE d[Shift(p, i, -k, b)]
<1> DEFINE old == {Shift(p, i, k, a) : a \in DOMAIN d}
           new == UNION {{Below(p, i + j - 1, s) : s \in DOMAIN subs[j]} : j \in 1..k}
           In(b) == IF InBlock(p, i, k, b)
                    THEN Rest(p, b) \in DOMAIN subs[Turn(p, b) - i + 1]
                    ELSE Shift(p, i, -k, b) \in DOMAIN d
<1>1. InsertItems(d, p, i, subs) =
        [b \in old \cup new |->
          IF b = p THEN Resized(d[p], k)
          ELSE IF InBlock(p, i, k, b)
          THEN subs[Turn(p, b) - i + 1][Rest(p, b)]
          ELSE d[Shift(p, i, -k, b)]]
  BY DEF InsertItems
<1>2. ASSUME NEW b \in old
      PROVE  b \in Address /\ In(b)
  <2>1. PICK a \in DOMAIN d : b = Shift(p, i, k, a)
    OBVIOUS
  <2>2. a \in Address
    BY DEF Labelled
  <2> QED
    BY <2>1, <2>2, ShiftUp
<1>3. ASSUME NEW b \in new
      PROVE  b \in Address /\ In(b)
  <2>1. PICK j \in 1..k : b \in {Below(p, i + j - 1, s) : s \in DOMAIN subs[j]}
    OBVIOUS
  <2>2. PICK s \in DOMAIN subs[j] : b = Below(p, i + j - 1, s)
    BY <2>1
  <2>3. s \in Address /\ i + j - 1 \in i..(i + k - 1) /\ (i + j - 1) - i + 1 = j
    BY DEF Labelled, Position
  <2>4. /\ b \in Address /\ InBlock(p, i, k, b) /\ Turn(p, b) = i + j - 1
        /\ Rest(p, b) = s
    <3>1. PICK m \in i..(i + k - 1) : m = i + j - 1
      BY <2>3
    <3>2. b = Below(p, m, s)
      BY <2>2, <3>1
    <3>3. m \in Position /\ i <= m /\ m < i + k
      BY DEF Position
    <3>4. b \in Address /\ InBlock(p, i, k, b) /\ Turn(p, b) = m /\ Rest(p, b) = s
      BY <2>3, <3>2, <3>3, BlockAddress
    <3> QED
      BY <3>1, <3>4
  <2> QED
    BY <2>3, <2>4
<1>4. ASSUME NEW b \in Address, In(b)
      PROVE  b \in old \cup new
  <2>1. CASE InBlock(p, i, k, b)
    <3> DEFINE m == Turn(p, b)
               s == Rest(p, b)
    <3>1. m \in i..(i + k - 1) /\ Below(p, m, s) = b
      BY <2>1, BlockAddress
    <3>2. m - i + 1 \in 1..k /\ i + (m - i + 1) - 1 = m
      BY <3>1 DEF Position
    <3>3. s \in DOMAIN subs[m - i + 1]
      BY <1>4, <2>1
    <3> HIDE DEF m, s
    <3>4. b \in {Below(p, i + (m - i + 1) - 1, z) : z \in DOMAIN subs[m - i + 1]}
      BY <3>1, <3>2, <3>3
    <3> QED
      BY <3>2, <3>4
  <2>2. CASE ~InBlock(p, i, k, b)
    <3>1. Shift(p, i, -k, b) \in DOMAIN d
      BY <1>4, <2>2
    <3>2. Shift(p, i, k, Shift(p, i, -k, b)) = b
      BY <2>2, ShiftDown
    <3> QED
      BY <3>1, <3>2
  <2> QED
    BY <2>1, <2>2
<1>5. DOMAIN InsertItems(d, p, i, subs) = old \cup new
  BY <1>1
<1>6. \A b \in old \cup new : InsertItems(d, p, i, subs)[b] =
        IF b = p THEN Resized(d[p], k)
        ELSE IF InBlock(p, i, k, b)
        THEN subs[Turn(p, b) - i + 1][Rest(p, b)]
        ELSE d[Shift(p, i, -k, b)]
  BY <1>1
<1> HIDE DEF old, new
<1>7. \A b : b \in DOMAIN InsertItems(d, p, i, subs) <=> b \in Address /\ In(b)
  BY <1>2, <1>3, <1>4, <1>5
<1> QED
  BY <1>5, <1>6, <1>7

LEMMA ConcatAppend ==
  ASSUME NEW q \in Address, NEW s \in Address, NEW j \in Position
  PROVE  Append(q \o s, j) = q \o Append(s, j)
BY DEF Address

\* The address of a child, seen from the document it comes from: a child of
\* an inserted node, of an old node, and of the container itself.
LEMMA BlockAppend ==
  ASSUME NEW p \in Address, NEW i \in Position, NEW k \in Nat,
         NEW b \in Address, NEW j \in Position, InBlock(p, i, k, b)
  PROVE  /\ InBlock(p, i, k, Append(b, j))
         /\ Turn(p, Append(b, j)) = Turn(p, b)
         /\ Rest(p, Append(b, j)) = Append(Rest(p, b), j)
<1> DEFINE m == Turn(p, b)
           s == Rest(p, b)
           q == Append(p, m)
           z == Append(s, j)
<1>1. m \in i..(i + k - 1) /\ s \in Address /\ q \o s = b
  BY BlockAddress DEF Below
<1>2. m \in Position
  BY <1>1 DEF Position
<1>3. q \in Address /\ z \in Address
  BY <1>1, <1>2, AppendParent
<1>4. Append(q \o s, j) = q \o z
  <2> HIDE DEF q, s
  <2> QED
    BY <1>1, <1>3, ConcatAppend
<1>5. /\ InBlock(p, i, k, q \o z) /\ Turn(p, q \o z) = m
      /\ Rest(p, q \o z) = z
  <2> HIDE DEF z, m
  <2>1. PICK y \in Address : y = z
    BY <1>3
  <2>2. m \in Position /\ i <= m /\ m < i + k
    BY <1>1 DEF Position
  <2>3. /\ InBlock(p, i, k, Below(p, m, y)) /\ Turn(p, Below(p, m, y)) = m
        /\ Rest(p, Below(p, m, y)) = y
    BY <2>2, BlockAddress
  <2> QED
    BY <2>1, <2>3 DEF Below
<1> QED
  BY <1>1, <1>4, <1>5

LEMMA OutsideAppend ==
  ASSUME NEW p \in Address, NEW i \in Position, NEW k \in Nat,
         NEW b \in Address, NEW j \in Position, ~InBlock(p, i, k, b), b # p
  PROVE  /\ ~InBlock(p, i, k, Append(b, j))
         /\ Shift(p, i, -k, Append(b, j)) = Append(Shift(p, i, -k, b), j)
<1>1. PICK c \in Address : c = Shift(p, i, -k, b) /\ Shift(p, i, k, c) = b
  BY ShiftDown
<1>2. c # p
  BY <1>1, ShiftAppend
<1>3. /\ Append(c, j) \in Address
      /\ c # p => Shift(p, i, k, Append(c, j)) = Append(Shift(p, i, k, c), j)
  BY ShiftAppend
<1>4. /\ ~InBlock(p, i, k, Shift(p, i, k, Append(c, j)))
      /\ Shift(p, i, -k, Shift(p, i, k, Append(c, j))) = Append(c, j)
  BY <1>3, ShiftUp
<1> QED
  BY <1>1, <1>2, <1>3, <1>4

LEMMA ItselfOutside ==
  ASSUME NEW p \in Address, NEW i \in Position, NEW k \in Nat
  PROVE  Shift(p, i, -k, p) = p /\ ~InBlock(p, i, k, p)
<1>1. Len(p) \in Nat /\ ~FromChild(p, i, p)
  BY LenProperties DEF FromChild, Address
<1> QED
  BY <1>1 DEF Shift, InBlock

LEMMA ChildAppend ==
  ASSUME NEW p \in Address, NEW i \in Position, NEW k \in Nat, NEW j \in Position
  PROVE  /\ j \in i..(i + k - 1) =>
              /\ InBlock(p, i, k, Append(p, j))
              /\ Turn(p, Append(p, j)) = j
              /\ Rest(p, Append(p, j)) = Root
         /\ j \notin i..(i + k - 1) =>
              /\ ~InBlock(p, i, k, Append(p, j))
              /\ Shift(p, i, -k, Append(p, j)) = Append(p, IF j < i THEN j ELSE j - k)
<1>1. ASSUME j \in i..(i + k - 1)
      PROVE  /\ InBlock(p, i, k, Append(p, j))
             /\ Turn(p, Append(p, j)) = j
             /\ Rest(p, Append(p, j)) = Root
  <2>1. Root \in Address
    BY DEF Root, Address
  <2>2. PICK c : c = Append(p, j) /\ c = Below(p, j, Root)
    BY AppendParent, ConcatEmptySeq DEF Root, Address, Below
  <2>3. InBlock(p, i, k, c) /\ Turn(p, c) = j /\ Rest(p, c) = Root
    BY <1>1, <2>1, <2>2, BlockAddress
  <2> QED
    BY <2>2, <2>3
<1>2. ASSUME j \notin i..(i + k - 1)
      PROVE  /\ ~InBlock(p, i, k, Append(p, j))
             /\ Shift(p, i, -k, Append(p, j)) = Append(p, IF j < i THEN j ELSE j - k)
  <2> DEFINE m == IF j < i THEN j ELSE j - k
  <2>1. m \in Position /\ (IF m >= i THEN m + k ELSE m) = j
    BY <1>2 DEF Position
  <2> HIDE DEF m
  <2>2. /\ Append(p, m) \in Address
        /\ Shift(p, i, k, Append(p, m)) = Append(p, IF m >= i THEN m + k ELSE m)
    BY <2>1, ShiftAppend
  <2>3. PICK c \in Address : c = Append(p, m)
    BY <2>2
  <2>4. Shift(p, i, k, c) = Append(p, j)
    BY <2>1, <2>2, <2>3
  <2>5. /\ ~InBlock(p, i, k, Shift(p, i, k, c))
        /\ Shift(p, i, -k, Shift(p, i, k, c)) = c
    BY ShiftUp
  <2>6. ~InBlock(p, i, k, Append(p, j)) /\ Shift(p, i, -k, Append(p, j)) = Append(p, m)
    BY <2>3, <2>4, <2>5
  <2> QED
    BY <2>6 DEF m
<1> QED
  BY <1>1, <1>2

\* Putting documents into a container leaves a well-formed document, provided
\* their roots are named as the members or elements of that container are
\* (cJSON_InsertItemInArray, insert_item_in_array, cJSON_AddItemToArray).
THEOREM InsertWellFormed ==
  ASSUME NEW d, WellFormed(d), NEW p \in DOMAIN d, d[p].t \in Container,
         NEW i \in Position, i <= d[p].n + 1,
         NEW subs, NEW k \in Nat, k = Len(subs),
         \A j \in 1..k :
           /\ Branch(subs[j])
           /\ IF d[p].t = "object"
              THEN subs[j][Root].name \in Name
              ELSE subs[j][Root].name \in {NoName, ValueName}
  PROVE  WellFormed(InsertItems(d, p, i, subs))
<1> DEFINE e    == InsertItems(d, p, i, subs)
           U(b) == Shift(p, i, -k, b)
           N(b) == InBlock(p, i, k, b)
           V(b) == Rest(p, b)
           W(b) == subs[Turn(p, b) - i + 1]
<1>0. /\ Labelled(d) /\ Rooted(d) /\ CountsAreNatural(d) /\ Tree(d) /\ TitledBelow(d)
      /\ p \in Address /\ d[p].n \in Nat /\ d[p] \in Label /\ k \in Int
  BY WellFormedIsTree DEF WellFormed, Labelled, CountsAreNatural
<1>1. /\ \A b : b \in DOMAIN e <=>
           b \in Address /\ IF N(b) THEN V(b) \in DOMAIN W(b) ELSE U(b) \in DOMAIN d
      /\ \A b \in DOMAIN e :
           e[b] = IF b = p THEN Resized(d[p], k)
                  ELSE IF N(b) THEN W(b)[V(b)] ELSE d[U(b)]
  BY <1>0, InsertDomain DEF Branch
<1>2. \A b \in Address : N(b) =>
        Turn(p, b) \in i..(i + k - 1) /\ V(b) \in Address /\ Branch(W(b))
  <2> SUFFICES ASSUME NEW b \in Address, N(b)
               PROVE  Turn(p, b) \in i..(i + k - 1) /\ V(b) \in Address /\ Branch(W(b))
    OBVIOUS
  <2>1. Turn(p, b) \in i..(i + k - 1) /\ V(b) \in Address
    BY <1>0, BlockAddress
  <2>2. Turn(p, b) - i + 1 \in 1..k
    BY <2>1 DEF Position
  <2> QED
    BY <2>1, <2>2
<1>3. \A b \in Address : ~N(b) => U(b) \in Address
  BY <1>0, ShiftDown
<1>4. /\ Resized(d[p], k) \in Label
      /\ Resized(d[p], k).t = d[p].t
      /\ Resized(d[p], k).n = d[p].n + k
      /\ Resized(d[p], k).name = d[p].name
  BY <1>0, ResizedLabel
<1>5. ~N(p) /\ U(p) = p
  BY <1>0, ItselfOutside
<1>6. \A b \in Address, j \in Position :
        /\ Append(b, j) \in Address
        /\ N(b) => /\ N(Append(b, j)) /\ W(Append(b, j)) = W(b)
                   /\ V(Append(b, j)) = Append(V(b), j)
        /\ ~N(b) /\ b # p => ~N(Append(b, j)) /\ U(Append(b, j)) = Append(U(b), j)
  <2> SUFFICES ASSUME NEW b \in Address, NEW j \in Position
               PROVE  /\ Append(b, j) \in Address
                      /\ N(b) => /\ N(Append(b, j)) /\ W(Append(b, j)) = W(b)
                                 /\ V(Append(b, j)) = Append(V(b), j)
                      /\ ~N(b) /\ b # p =>
                           ~N(Append(b, j)) /\ U(Append(b, j)) = Append(U(b), j)
    OBVIOUS
  <2>1. p \in Address /\ Append(b, j) \in Address
    BY <1>0, AppendParent
  <2>2. ASSUME N(b)
        PROVE  /\ N(Append(b, j)) /\ W(Append(b, j)) = W(b)
               /\ V(Append(b, j)) = Append(V(b), j)
    <3>1. /\ InBlock(p, i, k, Append(b, j))
          /\ Turn(p, Append(b, j)) = Turn(p, b)
          /\ Rest(p, Append(b, j)) = Append(Rest(p, b), j)
      BY <2>1, <2>2, BlockAppend DEF Position
    <3> QED
      BY <3>1
  <2>3. ASSUME ~N(b), b # p
        PROVE  ~N(Append(b, j)) /\ U(Append(b, j)) = Append(U(b), j)
    BY <2>1, <2>3, OutsideAppend
  <2> QED
    BY <2>1, <2>2, <2>3
<1>7. \A j \in Position :
        /\ j \in i..(i + k - 1) =>
             /\ N(Append(p, j)) /\ W(Append(p, j)) = subs[j - i + 1]
             /\ V(Append(p, j)) = Root
        /\ j \notin i..(i + k - 1) =>
             /\ ~N(Append(p, j))
             /\ U(Append(p, j)) = Append(p, IF j < i THEN j ELSE j - k)
  <2> SUFFICES ASSUME NEW j \in Position
               PROVE  /\ j \in i..(i + k - 1) =>
                           /\ N(Append(p, j)) /\ W(Append(p, j)) = subs[j - i + 1]
                           /\ V(Append(p, j)) = Root
                      /\ j \notin i..(i + k - 1) =>
                           /\ ~N(Append(p, j))
                           /\ U(Append(p, j)) = Append(p, IF j < i THEN j ELSE j - k)
    OBVIOUS
  <2>2. /\ j \in i..(i + k - 1) =>
             /\ InBlock(p, i, k, Append(p, j))
             /\ Turn(p, Append(p, j)) = j
             /\ Rest(p, Append(p, j)) = Root
        /\ j \notin i..(i + k - 1) =>
             /\ ~InBlock(p, i, k, Append(p, j))
             /\ Shift(p, i, -k, Append(p, j)) = Append(p, IF j < i THEN j ELSE j - k)
    BY <1>0, ChildAppend
  <2>3. ASSUME j \in i..(i + k - 1)
        PROVE  /\ N(Append(p, j)) /\ W(Append(p, j)) = subs[j - i + 1]
               /\ V(Append(p, j)) = Root
    BY ONLY <2>2, <2>3
  <2>4. ASSUME j \notin i..(i + k - 1)
        PROVE  ~N(Append(p, j)) /\ U(Append(p, j)) = Append(p, IF j < i THEN j ELSE j - k)
    BY ONLY <2>2, <2>4
  <2> QED
    BY <2>3, <2>4
<1>8. Root \in Address /\ U(Root) = Root /\ ~N(Root)
  <2>1. Len(Root) = 0 /\ Root \in Address /\ Len(p) \in Nat
    BY <1>0, LenProperties DEF Root, Address
  <2>2. ~FromChild(p, i, Root)
    BY <2>1 DEF FromChild
  <2> QED
    BY <2>1, <2>2 DEF Shift, InBlock
<1> HIDE DEF e, U, N, V, W
<1>9. \A b \in DOMAIN e :
        /\ b \in Address /\ e[b] \in Label
        /\ b = p => e[b].t = d[p].t /\ e[b].n = d[p].n + k /\ e[b].name = d[p].name
        /\ N(b) => V(b) \in DOMAIN W(b) /\ e[b] = W(b)[V(b)]
        /\ ~N(b) /\ b # p => U(b) \in DOMAIN d /\ e[b] = d[U(b)]
  <2> SUFFICES ASSUME NEW b \in DOMAIN e
               PROVE  /\ b \in Address /\ e[b] \in Label
                      /\ b = p => e[b].t = d[p].t /\ e[b].n = d[p].n + k /\ e[b].name = d[p].name
                      /\ N(b) => V(b) \in DOMAIN W(b) /\ e[b] = W(b)[V(b)]
                      /\ ~N(b) /\ b # p => U(b) \in DOMAIN d /\ e[b] = d[U(b)]
    OBVIOUS
  <2>1. CASE b = p
    BY <1>1, <1>4, <1>5, <2>1
  <2>2. CASE N(b)
    <3>1. b # p /\ V(b) \in DOMAIN W(b) /\ e[b] = W(b)[V(b)] /\ b \in Address
      BY <1>1, <1>5, <2>2
    <3>2. Labelled(W(b))
      BY <1>2, <2>2, <3>1 DEF Branch
    <3> QED
      BY <2>2, <3>1, <3>2 DEF Labelled
  <2>3. CASE ~N(b) /\ b # p
    BY <1>0, <1>1, <2>3 DEF Labelled
  <2> QED
    BY <2>1, <2>2, <2>3
<1>10. Labelled(e)
  BY <1>9 DEF Labelled
<1>11. Rooted(e)
  <2>1. Root \in DOMAIN d /\ d[Root].name = NoName
    BY <1>0 DEF Rooted
  <2>2. Root \in DOMAIN e
    BY <1>1, <1>8, <2>1
  <2> QED
    BY <1>8, <1>9, <2>1, <2>2 DEF Rooted
<1>12. CountsAreNatural(e)
  <2> SUFFICES ASSUME NEW b \in DOMAIN e, e[b].t \in Container
               PROVE  e[b].n \in Nat
    BY DEF CountsAreNatural
  <2>1. CASE b = p
    BY <1>0, <1>9, <2>1
  <2>2. CASE N(b)
    <3>1. Branch(W(b)) /\ V(b) \in DOMAIN W(b) /\ e[b] = W(b)[V(b)]
      BY <1>2, <1>9, <2>2
    <3> QED
      BY <3>1 DEF Branch, CountsAreNatural
  <2>3. CASE ~N(b) /\ b # p
    BY <1>0, <1>9, <2>3 DEF CountsAreNatural
  <2> QED
    BY <2>1, <2>2, <2>3
<1>13. ASSUME NEW b \in Address, NEW j \in Position
       PROVE  Append(b, j) \in DOMAIN e <=>
                b \in DOMAIN e /\ e[b].t \in Container /\ e[b].n \in Nat /\ j <= e[b].n
  <2> DEFINE c == Append(b, j)
  <2>0. /\ N(c) => (c \in DOMAIN e <=> V(c) \in DOMAIN W(c))
        /\ ~N(c) => (c \in DOMAIN e <=> U(c) \in DOMAIN d)
    <3>1. c \in Address
      BY <1>6
    <3> HIDE DEF c
    <3> QED
      BY <1>1, <3>1
  <2>1. CASE b = p
    <3>1. b \in DOMAIN e /\ e[b].t \in Container /\ e[b].n = d[p].n + k /\ e[b].n \in Nat
      BY <1>0, <1>1, <1>5, <1>9, <2>1
    <3>2. CASE j \in i..(i + k - 1)
      <4>1. N(Append(b, j)) /\ W(Append(b, j)) = subs[j - i + 1] /\ V(Append(b, j)) = Root
        BY <1>7, <2>1, <3>2
      <4>2. j - i + 1 \in 1..k
        BY <3>2 DEF Position
      <4>3. Root \in DOMAIN subs[j - i + 1]
        BY <4>2 DEF Branch
      <4>4. Append(b, j) \in DOMAIN e
        BY <2>0, <4>1, <4>3
      <4> QED
        BY <1>0, <3>1, <3>2, <4>4 DEF Position
    <3>3. CASE j \notin i..(i + k - 1)
      <4> DEFINE m == IF j < i THEN j ELSE j - k
      <4>1. m \in Position /\ (m <= d[p].n <=> j <= d[p].n + k)
        BY <1>0, <3>3 DEF Position
      <4>2. ~N(Append(b, j)) /\ U(Append(b, j)) = Append(p, m)
        BY <1>7, <2>1, <3>3
      <4> HIDE DEF m
      <4>3. Append(p, m) \in DOMAIN d <=> m <= d[p].n
        BY <1>0, <4>1 DEF Tree
      <4>4. Append(b, j) \in DOMAIN e <=> Append(p, m) \in DOMAIN d
        BY <2>0, <4>2
      <4> QED
        BY <3>1, <4>1, <4>3, <4>4
    <3> QED
      BY <3>2, <3>3
  <2>2. CASE N(b)
    <3>1. /\ Branch(W(b)) /\ V(b) \in Address /\ b # p
          /\ N(Append(b, j)) /\ W(Append(b, j)) = W(b) /\ V(Append(b, j)) = Append(V(b), j)
      BY <1>2, <1>5, <1>6, <2>2
    <3>2. Append(b, j) \in DOMAIN e <=> Append(V(b), j) \in DOMAIN W(b)
      BY <2>0, <3>1
    <3>3. Append(V(b), j) \in DOMAIN W(b) <=>
            /\ V(b) \in DOMAIN W(b) /\ W(b)[V(b)].t \in Container
            /\ W(b)[V(b)].n \in Nat /\ j <= W(b)[V(b)].n
      BY <3>1 DEF Branch, Tree
    <3>4. b \in DOMAIN e <=> V(b) \in DOMAIN W(b)
      BY <1>1, <2>2
    <3> QED
      BY <1>9, <2>2, <3>2, <3>3, <3>4
  <2>3. CASE ~N(b) /\ b # p
    <3>1. U(b) \in Address /\ ~N(Append(b, j)) /\ U(Append(b, j)) = Append(U(b), j)
      BY <1>3, <1>6, <2>3
    <3>2. Append(b, j) \in DOMAIN e <=> Append(U(b), j) \in DOMAIN d
      BY <2>0, <3>1
    <3>3. Append(U(b), j) \in DOMAIN d <=>
            U(b) \in DOMAIN d /\ d[U(b)].t \in Container /\ d[U(b)].n \in Nat /\ j <= d[U(b)].n
      BY <1>0, <3>1 DEF Tree
    <3>4. b \in DOMAIN e <=> U(b) \in DOMAIN d
      BY <1>1, <2>3
    <3> QED
      BY <1>9, <2>3, <3>2, <3>3, <3>4
  <2> QED
    BY <2>1, <2>2, <2>3
<1>14. ASSUME NEW b \in Address, NEW j \in Position, Append(b, j) \in DOMAIN e
       PROVE  IF e[b].t = "object"
              THEN e[Append(b, j)].name \in Name
              ELSE e[Append(b, j)].name \in {NoName, ValueName}
  <2>0. b \in DOMAIN e
    BY <1>13, <1>14
  <2>01. Append(b, j) # p \/ b # p
    <3>1. ASSUME b = p, Append(b, j) = p PROVE FALSE
      <4>1. Len(Append(p, j)) = Len(p) + 1 /\ Len(p) \in Nat
        BY <1>0, AppendProperties, LenProperties DEF Address
      <4> QED
        BY <3>1, <4>1
    <3> QED
      BY <3>1
  <2>1. CASE b = p
    <3>0. e[b].t = d[p].t /\ Append(b, j) # p
      BY <1>9, <2>0, <2>01, <2>1
    <3>1. CASE j \in i..(i + k - 1)
      <4>1. N(Append(b, j)) /\ W(Append(b, j)) = subs[j - i + 1] /\ V(Append(b, j)) = Root
        BY <1>7, <2>1, <3>1
      <4>2. j - i + 1 \in 1..k
        BY <3>1 DEF Position
      <4>3. e[Append(b, j)] = subs[j - i + 1][Root]
        BY <1>9, <1>14, <4>1
      <4> QED
        BY <3>0, <4>2, <4>3
    <3>2. CASE j \notin i..(i + k - 1)
      <4> DEFINE m == IF j < i THEN j ELSE j - k
      <4>1. m \in Position
        BY <3>2 DEF Position
      <4>2. ~N(Append(b, j)) /\ U(Append(b, j)) = Append(p, m)
        BY <1>7, <2>1, <3>2
      <4> HIDE DEF m
      <4>3. Append(p, m) \in DOMAIN d /\ e[Append(b, j)] = d[Append(p, m)]
        BY <1>9, <1>14, <3>0, <4>2
      <4> QED
        BY <1>0, <3>0, <4>1, <4>3 DEF TitledBelow
    <3> QED
      BY <3>1, <3>2
  <2>2. CASE N(b)
    <3>1. /\ Branch(W(b)) /\ V(b) \in Address
          /\ N(Append(b, j)) /\ W(Append(b, j)) = W(b) /\ V(Append(b, j)) = Append(V(b), j)
      BY <1>2, <1>6, <2>2
    <3>2. e[b] = W(b)[V(b)]
      BY <1>9, <2>0, <2>2
    <3>3. e[Append(b, j)] = W(b)[Append(V(b), j)] /\ Append(V(b), j) \in DOMAIN W(b)
      BY <1>9, <1>14, <3>1
    <3> QED
      BY <3>1, <3>2, <3>3 DEF Branch, TitledBelow
  <2>3. CASE ~N(b) /\ b # p
    <3>1. U(b) \in Address /\ ~N(Append(b, j)) /\ U(Append(b, j)) = Append(U(b), j)
      BY <1>3, <1>6, <2>3
    <3>2. e[b] = d[U(b)]
      BY <1>9, <2>0, <2>3
    <3>3. /\ Append(U(b), j) \in DOMAIN d /\ d[Append(U(b), j)].name = e[Append(b, j)].name
      <4>1. Append(U(b), j) \in DOMAIN d
        BY <1>1, <1>14, <3>1
      <4>2. CASE Append(b, j) = p
        BY <1>5, <1>9, <1>14, <3>1, <4>2
      <4>3. CASE Append(b, j) # p
        BY <1>9, <1>14, <3>1, <4>3
      <4> QED
        BY <4>1, <4>2, <4>3
    <3> QED
      BY <1>0, <3>1, <3>2, <3>3 DEF TitledBelow
  <2> QED
    BY <2>1, <2>2, <2>3
<1>15. Tree(e) /\ TitledBelow(e)
  BY <1>13, <1>14 DEF Tree, TitledBelow
<1> QED
  BY <1>10, <1>11, <1>12, <1>15, WellFormedIsTree DEF e

(***************************************************************************)
(* Children.                                                               *)
(***************************************************************************)
\* An address below p, taken apart.
LEMMA UnderIs ==
  ASSUME NEW a \in Address, NEW b \in Address, Under(a, b)
  PROVE  Suffix(b, Len(a)) \in Address /\ a \o Suffix(b, Len(a)) = b
<1> DEFINE n == Len(a)
           m == Len(b)
           s == Suffix(b, n)
<1>1. n \in Nat /\ m \in Nat /\ n <= m /\ m - n \in Nat /\ \A j \in 1..n : b[j] = a[j]
  BY LenProperties DEF Under, Address
<1>2. \A j \in 1..m : b[j] \in Position
  BY ElementOfSeq DEF Address
<1>3. s = [j \in 1..(m - n) |-> b[j + n]]
  BY DEF Suffix
<1> HIDE DEF n, m, s
<1>4. \A j \in 1..(m - n) : s[j] = b[j + n] /\ s[j] \in Position
  BY <1>1, <1>2, <1>3
<1>5. s = [j \in 1..(m - n) |-> s[j]]
  BY <1>3
<1>6. s \in Address /\ Len(s) = m - n
  BY <1>1, <1>4, <1>5, AddressOf
<1>7. /\ a \o s \in Address /\ Len(a \o s) = n + Len(s)
      /\ \A l \in 1..(n + Len(s)) : (a \o s)[l] = IF l <= n THEN a[l] ELSE s[l - n]
  BY <1>6, ConcatAddress DEF n
<1> DEFINE c == a \o s
<1> HIDE DEF c
<1>8. c \in Address /\ Len(c) = m /\ \A l \in 1..m : c[l] = IF l <= n THEN a[l] ELSE s[l - n]
  BY <1>1, <1>6, <1>7 DEF c
<1>9. ASSUME NEW l \in 1..m PROVE c[l] = b[l]
  <2>1. CASE l <= n
    BY <1>1, <1>8, <2>1
  <2>2. CASE l > n
    <3>1. l - n \in 1..(m - n) /\ (l - n) + n = l /\ ~(l <= n)
      BY <1>1, <2>2
    <3>2. s[l - n] = b[(l - n) + n]
      BY <1>4, <3>1
    <3> QED BY <1>8, <3>1, <3>2
  <2> QED BY <1>1, <2>1, <2>2
<1>10. c = b
  BY <1>8, <1>9, AddressEqual DEF m
<1> QED BY <1>6, <1>10 DEF c, s, n

\* and put together.
LEMMA BelowIs ==
  ASSUME NEW a \in Address, NEW s \in Address
  PROVE  a \o s \in Address /\ Under(a, a \o s) /\ Suffix(a \o s, Len(a)) = s
<1> DEFINE n == Len(a)
           m == Len(s)
           b == a \o s
           t == Suffix(b, n)
<1>1. /\ b \in Address /\ Len(b) = n + m /\ n \in Nat /\ m \in Nat
      /\ \A l \in 1..(n + m) : b[l] = IF l <= n THEN a[l] ELSE s[l - n]
  BY ConcatAddress, LenProperties DEF Address
<1> HIDE DEF b, n, m
<1>2. Under(a, b)
  BY <1>1 DEF Under, n
<1>3. t \in Address /\ a \o t = b
  BY <1>1, <1>2, UnderIs DEF n
<1>4. Len(t) = m /\ \A l \in 1..m : t[l] = b[l + n]
  <2>1. t = [j \in 1..m |-> b[j + n]]
    BY <1>1 DEF Suffix, t
  <2> HIDE DEF t
  <2>2. t = [j \in 1..m |-> t[j]]
    BY <2>1
  <2> QED BY <1>1, <2>1, <2>2
<1> HIDE DEF t
<1>5. \A l \in 1..m : t[l] = s[l]
  BY <1>1, <1>4
<1>6. t = s
  BY <1>3, <1>4, <1>5, AddressEqual DEF m
<1> QED BY <1>1, <1>2, <1>6 DEF b, t, n

\* The nodes of a subtree, each with the node it is.
LEMMA SubtreeIs ==
  ASSUME NEW d, Labelled(d), NEW a \in DOMAIN d
  PROVE  /\ Subtree(d, a) = [s \in DOMAIN Subtree(d, a) |-> Subtree(d, a)[s]]
         /\ \A s : s \in DOMAIN Subtree(d, a) <=> s \in Address /\ a \o s \in DOMAIN d
         /\ \A s \in DOMAIN Subtree(d, a) :
              Subtree(d, a)[s] = IF s = Root THEN [d[a] EXCEPT !.name = NoName] ELSE d[a \o s]
<1> DEFINE below == {b \in DOMAIN d : Under(a, b)}
           dom   == {Suffix(b, Len(a)) : b \in below}
<1>1. Subtree(d, a) = [s \in dom |-> IF s = Root THEN [d[a] EXCEPT !.name = NoName] ELSE d[a \o s]]
  BY DEF Subtree
<1>2. a \in Address
  BY DEF Labelled
<1>3. ASSUME NEW s \in dom
      PROVE  s \in Address /\ a \o s \in DOMAIN d
  <2>1. PICK b \in below : s = Suffix(b, Len(a))
    OBVIOUS
  <2>2. b \in Address /\ Under(a, b) /\ b \in DOMAIN d
    BY DEF Labelled
  <2> QED BY <1>2, <2>1, <2>2, UnderIs
<1>4. ASSUME NEW s \in Address, a \o s \in DOMAIN d
      PROVE  s \in dom
  <2>1. Under(a, a \o s) /\ Suffix(a \o s, Len(a)) = s
    BY <1>2, BelowIs
  <2>2. a \o s \in below
    BY <1>4, <2>1
  <2> QED BY <2>1, <2>2
<1> HIDE DEF dom
<1> QED BY <1>1, <1>3, <1>4

\* Two nodes that are the same but for their names, with the same below them.
LEMMA SubtreesEqual ==
  ASSUME NEW d, Labelled(d), NEW e, Labelled(e), NEW a \in DOMAIN d, NEW b \in DOMAIN e,
         d[a].t = e[b].t, d[a].n = e[b].n,
         \A s \in Address \ {Root} :
           /\ a \o s \in DOMAIN d <=> b \o s \in DOMAIN e
           /\ a \o s \in DOMAIN d => d[a \o s] = e[b \o s]
  PROVE  Subtree(d, a) = Subtree(e, b)
<1> DEFINE x == Subtree(d, a)
           y == Subtree(e, b)
<1>1. a \in Address /\ b \in Address /\ Root \in Address
  BY DEF Labelled, Root, Address
<1>2. a \o Root = a /\ b \o Root = b
  BY <1>1, ConcatEmptySeq DEF Address, Root
<1>3. \A s \in Address : a \o s \in DOMAIN d <=> b \o s \in DOMAIN e
  BY <1>1, <1>2
<1>4. [d[a] EXCEPT !.name = NoName] = [e[b] EXCEPT !.name = NoName]
  BY DEF Labelled, Label
<1>5. /\ x = [s \in DOMAIN x |-> x[s]] /\ y = [s \in DOMAIN y |-> y[s]]
      /\ \A s : s \in DOMAIN x <=> s \in Address /\ a \o s \in DOMAIN d
      /\ \A s : s \in DOMAIN y <=> s \in Address /\ b \o s \in DOMAIN e
      /\ \A s \in DOMAIN x : x[s] = IF s = Root THEN [d[a] EXCEPT !.name = NoName] ELSE d[a \o s]
      /\ \A s \in DOMAIN y : y[s] = IF s = Root THEN [e[b] EXCEPT !.name = NoName] ELSE e[b \o s]
  BY SubtreeIs
<1> HIDE DEF x, y
<1>6. DOMAIN x = DOMAIN y
  BY <1>3, <1>5
<1>7. \A s \in DOMAIN x : x[s] = y[s]
  BY <1>4, <1>5, <1>6
<1>8. x = y
  BY <1>5, <1>6, <1>7
<1> QED BY <1>8 DEF x, y

\* What is, or is below, the child of p at position m.
LEMMA BelowChild ==
  ASSUME NEW p \in Address, NEW m \in Position, NEW s \in Address
  PROVE  /\ Append(p, m) \in Address /\ Append(p, m) \o s \in Address /\ Append(p, m) \o s # p
         /\ Append(p, m) \o Root = Append(p, m)
         /\ \A i \in Position : FromChild(p, i, Append(p, m) \o s) <=> m >= i
         /\ \A i \in Position : \A k \in Int : \A j \in Position :
              j = (IF m >= i THEN m + k ELSE m) =>
                Shift(p, i, k, Append(p, m) \o s) = Append(p, j) \o s
<1> DEFINE n == Len(p)
           l == Len(s)
           q(j) == Append(p, j)
           b(j) == Append(p, j) \o s
<1>1. n \in Nat /\ l \in Nat /\ \A h \in 1..n : p[h] \in Position
  BY LenProperties, ElementOfSeq DEF Address
<1>2. ASSUME NEW j \in Position
      PROVE  /\ q(j) \in Address /\ Len(q(j)) = n + 1 /\ q(j)[n + 1] = j
             /\ \A h \in 1..n : q(j)[h] = p[h]
  BY AppendProperties DEF Address
<1>3. ASSUME NEW j \in Position
      PROVE  /\ b(j) \in Address /\ Len(b(j)) = n + 1 + l
             /\ b(j)[n + 1] = j
             /\ \A h \in 1..n : b(j)[h] = p[h]
             /\ \A h \in 1..l : b(j)[n + 1 + h] = s[h]
  <2> HIDE DEF q
  <2>1. PICK x \in Address : x = q(j)
    BY <1>2
  <2>2. /\ x \o s \in Address /\ Len(x \o s) = Len(x) + Len(s)
        /\ \A h \in 1..(Len(x) + Len(s)) : (x \o s)[h] = IF h <= Len(x) THEN x[h] ELSE s[h - Len(x)]
    BY ConcatAddress
  <2>3. Len(x) = n + 1 /\ x[n + 1] = j /\ \A h \in 1..n : x[h] = p[h]
    BY <1>2, <2>1
  <2> DEFINE y == x \o s
  <2>4. y = b(j)
    BY <2>1 DEF q
  <2> HIDE DEF y, b, n
  <2>5. /\ y \in Address /\ Len(y) = n + 1 + l
        /\ \A h \in 1..(n + 1 + l) : y[h] = IF h <= n + 1 THEN x[h] ELSE s[h - (n + 1)]
    BY <2>2, <2>3 DEF y
  <2> HIDE DEF l
  <2>6. y[n + 1] = j /\ \A h \in 1..n : y[h] = p[h]
    BY <1>1, <2>3, <2>5
  <2>7. ASSUME NEW h \in 1..l PROVE y[n + 1 + h] = s[h]
    <3>1. n + 1 + h \in 1..(n + 1 + l) /\ ~(n + 1 + h <= n + 1) /\ (n + 1 + h) - (n + 1) = h
      BY <1>1
    <3> QED BY <2>5, <3>1
  <2> QED BY <2>4, <2>5, <2>6, <2>7
<1>4. q(m) \o Root = q(m)
  BY <1>2, ConcatEmptySeq DEF Address, Root
<1> HIDE DEF b, n, l
<1>5. b(m) # p
  BY <1>1, <1>3 DEF n
<1>6. ASSUME NEW i \in Position
      PROVE  FromChild(p, i, b(m)) <=> m >= i
  BY <1>1, <1>3 DEF FromChild, Under, n
<1>7. ASSUME NEW i \in Position, NEW k \in Int, NEW j \in Position,
             j = (IF m >= i THEN m + k ELSE m)
      PROVE  Shift(p, i, k, b(m)) = b(j)
  <2> DEFINE x == Shift(p, i, k, b(m))
  <2>2. FromChild(p, i, b(m)) => b(m)[Len(p) + 1] + k \in Position
    BY <1>3, <1>6, <1>7 DEF n, Position
  <2>3. /\ x \in Address /\ Len(x) = Len(b(m))
        /\ \A h \in 1..Len(b(m)) :
             x[h] = IF h = Len(p) + 1 /\ FromChild(p, i, b(m)) THEN b(m)[h] + k ELSE b(m)[h]
    BY <1>3, <2>2, ShiftType
  <2> HIDE DEF x
  <2>4. /\ x \in Address /\ Len(x) = n + 1 + l
        /\ \A h \in 1..(n + 1 + l) :
             x[h] = IF h = n + 1 /\ m >= i THEN b(m)[h] + k ELSE b(m)[h]
    BY <1>3, <1>6, <2>3 DEF n
  <2>5. x[n + 1] = j
    BY <1>1, <1>3, <1>7, <2>4
  <2>6. ASSUME NEW h \in 1..(n + 1 + l) PROVE x[h] = b(j)[h]
    <3>1. CASE h <= n
      <4>1. h \in 1..n /\ h # n + 1
        BY <1>1, <3>1
      <4> QED BY <1>3, <2>4, <4>1
    <3>2. CASE h = n + 1
      BY <1>3, <2>5, <3>2
    <3>3. CASE h > n + 1
      <4>1. PICK g \in 1..l : h = n + 1 + g
        <5>1. h - (n + 1) \in 1..l /\ h = n + 1 + (h - (n + 1))
          BY <1>1, <3>3
        <5> QED BY <5>1
      <4>2. h # n + 1
        BY <1>1, <3>3
      <4>3. x[h] = b(m)[h]
        BY <2>4, <4>2
      <4> QED BY <1>3, <4>1, <4>3
    <3> QED BY <1>1, <3>1, <3>2, <3>3
  <2>7. b(j) \in Address /\ Len(b(j)) = n + 1 + l
    BY <1>3
  <2>8. x = b(j)
    BY <2>4, <2>6, <2>7, AddressEqual
  <2> QED BY <2>8 DEF x
<1> QED BY <1>2, <1>3, <1>4, <1>5, <1>6, <1>7 DEF b, n

\* The child of p at position j: its name and its value.
Child(d, p, j) == [name |-> d[Append(p, j)].name, value |-> Subtree(d, Append(p, j))]

\* Nodes that are the same, with the same below them.
LEMMA SameBelow ==
  ASSUME NEW d, Labelled(d), NEW e, Labelled(e), NEW a \in DOMAIN d, NEW b \in Address,
         \A s \in Address :
           /\ a \o s \in DOMAIN d <=> b \o s \in DOMAIN e
           /\ a \o s \in DOMAIN d => d[a \o s] = e[b \o s]
  PROVE  b \in DOMAIN e /\ e[b] = d[a] /\ Subtree(e, b) = Subtree(d, a)
<1>1. a \in Address /\ Root \in Address
  BY DEF Labelled, Root, Address
<1>2. a \o Root = a /\ b \o Root = b
  BY <1>1, ConcatEmptySeq DEF Address, Root
<1>3. b \in DOMAIN e /\ e[b] = d[a]
  BY <1>1, <1>2
<1>4. Subtree(d, a) = Subtree(e, b)
  BY <1>3, SubtreesEqual
<1> QED BY <1>3, <1>4

\* What is left of a child list after children are taken out.
LEMMA DetachChild ==
  ASSUME NEW d, WellFormed(d), NEW p \in DOMAIN d, d[p].t \in Container,
         NEW i \in Position, NEW k \in Nat, i + k - 1 <= d[p].n,
         Labelled(DetachItems(d, p, i, k)),
         NEW j \in 1..(d[p].n - k)
  PROVE  /\ Append(p, j) \in DOMAIN DetachItems(d, p, i, k)
         /\ Child(DetachItems(d, p, i, k), p, j) = Child(d, p, IF j >= i THEN j + k ELSE j)
<1> DEFINE e == DetachItems(d, p, i, k)
           h == IF j >= i THEN j + k ELSE j
           n == d[p].n
<1>1. Labelled(d) /\ p \in Address /\ n \in Nat /\ k \in Int
  BY DEF WellFormed, Labelled, Counted
<1>2. j \in Position /\ h \in 1..n /\ h \in Position /\ h = (IF j >= i THEN j + k ELSE j)
  BY <1>1 DEF Position
<1>3. Append(p, h) \in DOMAIN d
  BY <1>2 DEF WellFormed, Counted
<1>4. /\ \A b : b \in DOMAIN e <=> b \in Address /\ Shift(p, i, k, b) \in DOMAIN d
      /\ \A b \in DOMAIN e : e[b] = IF b = p THEN Resized(d[p], -k) ELSE d[Shift(p, i, k, b)]
  BY <1>1, DetachDomain
<1>5. Labelled(e)
  OBVIOUS
<1> HIDE DEF e, n, h
<1>6. ASSUME NEW s \in Address
      PROVE  /\ Append(p, h) \o s \in DOMAIN d <=> Append(p, j) \o s \in DOMAIN e
             /\ Append(p, h) \o s \in DOMAIN d => d[Append(p, h) \o s] = e[Append(p, j) \o s]
  <2>1. /\ Append(p, j) \o s \in Address /\ Append(p, j) \o s # p
        /\ Shift(p, i, k, Append(p, j) \o s) = Append(p, h) \o s
    <3>1. Append(p, j) \o s \in Address /\ Append(p, j) \o s # p
      BY <1>1, <1>2, BelowChild
    <3>2. \A x \in Position : \A y \in Int : \A z \in Position :
              z = (IF j >= x THEN j + y ELSE j) =>
                Shift(p, x, y, Append(p, j) \o s) = Append(p, z) \o s
      BY <1>1, <1>2, BelowChild
    <3>3. Shift(p, i, k, Append(p, j) \o s) = Append(p, h) \o s
      BY <1>1, <1>2, <3>2
    <3> QED BY <3>1, <3>3
  <2> QED BY <1>4, <2>1
<1>7. Append(p, j) \in Address
  BY <1>1, <1>2, BelowChild
<1>8. /\ Append(p, j) \in DOMAIN e /\ e[Append(p, j)] = d[Append(p, h)]
      /\ Subtree(e, Append(p, j)) = Subtree(d, Append(p, h))
  BY <1>1, <1>3, <1>5, <1>6, <1>7, SameBelow
<1> QED BY <1>8 DEF Child, e, h

\* A child list after documents were put into it: an old child,
LEMMA InsertOldChild ==
  ASSUME NEW d, WellFormed(d), NEW p \in DOMAIN d, d[p].t \in Container,
         NEW i \in Position, i <= d[p].n + 1,
         NEW subs, NEW k \in Nat, k = Len(subs), \A l \in 1..k : Labelled(subs[l]),
         Labelled(InsertItems(d, p, i, subs)),
         NEW h \in 1..d[p].n
  PROVE  LET j == IF h >= i THEN h + k ELSE h
         IN /\ Append(p, j) \in DOMAIN InsertItems(d, p, i, subs)
            /\ Child(InsertItems(d, p, i, subs), p, j) = Child(d, p, h)
<1> DEFINE e == InsertItems(d, p, i, subs)
           j == IF h >= i THEN h + k ELSE h
           n == d[p].n
<1>1. Labelled(d) /\ p \in Address /\ n \in Nat /\ -k \in Int /\ k \in Int
  BY DEF WellFormed, Labelled, Counted
<1>2. h \in Position /\ j \in Position /\ j = (IF h >= i THEN h + k ELSE h)
  BY <1>1 DEF Position
<1>3. Append(p, h) \in DOMAIN d
  BY <1>2 DEF WellFormed, Counted
<1>4. /\ \A b : b \in DOMAIN e <=>
           /\ b \in Address
           /\ IF InBlock(p, i, k, b) THEN Rest(p, b) \in DOMAIN subs[Turn(p, b) - i + 1]
              ELSE Shift(p, i, -k, b) \in DOMAIN d
      /\ \A b \in DOMAIN e : e[b] = IF b = p THEN Resized(d[p], k)
                                    ELSE IF InBlock(p, i, k, b)
                                    THEN subs[Turn(p, b) - i + 1][Rest(p, b)]
                                    ELSE d[Shift(p, i, -k, b)]
  <2>1. /\ Labelled(d) /\ p \in Address /\ i \in Position
        /\ k \in Nat /\ k = Len(subs) /\ \A l \in 1..k : Labelled(subs[l])
    BY <1>1
  <2> QED BY ONLY <2>1, InsertDomain, SMTT(30)
<1>5. Labelled(e)
  OBVIOUS
<1> HIDE DEF e, n, j
<1>6. ASSUME NEW s \in Address
      PROVE  /\ Append(p, h) \o s \in DOMAIN d <=> Append(p, j) \o s \in DOMAIN e
             /\ Append(p, h) \o s \in DOMAIN d => d[Append(p, h) \o s] = e[Append(p, j) \o s]
  <2>1. /\ Append(p, j) \o s \in Address /\ Append(p, j) \o s # p
        /\ Append(p, h) \o s \in Address
    BY <1>1, <1>2, BelowChild
  <2>2. Shift(p, i, k, Append(p, h) \o s) = Append(p, j) \o s
    <3>1. \A x \in Position : \A y \in Int : \A z \in Position :
              z = (IF h >= x THEN h + y ELSE h) =>
                Shift(p, x, y, Append(p, h) \o s) = Append(p, z) \o s
      BY <1>1, <1>2, BelowChild
    <3> QED BY <1>1, <1>2, <3>1
  <2>3. /\ ~InBlock(p, i, k, Shift(p, i, k, Append(p, h) \o s))
        /\ Shift(p, i, -k, Shift(p, i, k, Append(p, h) \o s)) = Append(p, h) \o s
    BY <1>1, <2>1, ShiftUp
  <2>4. /\ ~InBlock(p, i, k, Append(p, j) \o s)
        /\ Shift(p, i, -k, Append(p, j) \o s) = Append(p, h) \o s
    BY <2>2, <2>3
  <2> QED BY <1>4, <2>1, <2>4
<1>7. Append(p, j) \in Address
  BY <1>1, <1>2, BelowChild
<1>8. /\ Append(p, j) \in DOMAIN e /\ e[Append(p, j)] = d[Append(p, h)]
      /\ Subtree(e, Append(p, j)) = Subtree(d, Append(p, h))
  BY <1>1, <1>3, <1>5, <1>6, <1>7, SameBelow
<1> QED BY <1>8 DEF Child, e, j

\* and a new one.
LEMMA InsertNewChild ==
  ASSUME NEW d, WellFormed(d), NEW p \in DOMAIN d,
         NEW i \in Position,
         NEW subs, NEW k \in Nat, k = Len(subs), \A l \in 1..k : Labelled(subs[l]),
         Labelled(InsertItems(d, p, i, subs)),
         NEW l \in 1..k, Root \in DOMAIN subs[l],
         subs[l] = [s \in DOMAIN subs[l] |-> subs[l][s]]
  PROVE  /\ Append(p, i + l - 1) \in DOMAIN InsertItems(d, p, i, subs)
         /\ Child(InsertItems(d, p, i, subs), p, i + l - 1) =
              [name |-> subs[l][Root].name, value |-> Named(subs[l], NoName)]
<1> DEFINE e == InsertItems(d, p, i, subs)
           x == subs[l]
           j == i + l - 1
           a == Append(p, j)
<1>1. Labelled(d) /\ p \in Address /\ Labelled(x) /\ Root \in Address
  BY DEF WellFormed, Labelled, Root, Address
<1>2. j \in Position /\ i <= j /\ j < i + k /\ j - i + 1 = l
  BY DEF Position
<1>3. /\ \A b : b \in DOMAIN e <=>
           /\ b \in Address
           /\ IF InBlock(p, i, k, b) THEN Rest(p, b) \in DOMAIN subs[Turn(p, b) - i + 1]
              ELSE Shift(p, i, -k, b) \in DOMAIN d
      /\ \A b \in DOMAIN e : e[b] = IF b = p THEN Resized(d[p], k)
                                    ELSE IF InBlock(p, i, k, b)
                                    THEN subs[Turn(p, b) - i + 1][Rest(p, b)]
                                    ELSE d[Shift(p, i, -k, b)]
  <2>1. /\ Labelled(d) /\ p \in Address /\ i \in Position
        /\ k \in Nat /\ k = Len(subs) /\ \A m \in 1..k : Labelled(subs[m])
    BY <1>1
  <2> QED BY ONLY <2>1, InsertDomain, SMTT(30)
<1>4. Labelled(e) /\ x = [s \in DOMAIN x |-> x[s]] /\ Root \in DOMAIN x
  OBVIOUS
<1> HIDE DEF e, j
<1>5. ASSUME NEW s \in Address
      PROVE  /\ a \o s \in DOMAIN e <=> s \in DOMAIN x
             /\ s \in DOMAIN x => e[a \o s] = x[s]
  <2>1. a \o s \in Address /\ a \o s # p
    BY <1>1, <1>2, BelowChild
  <2>2. PICK b \in Address : b = Below(p, j, s)
    BY <2>1 DEF Below
  <2>3. InBlock(p, i, k, b) /\ Turn(p, b) = j /\ Rest(p, b) = s
    BY <1>1, <1>2, <2>2, BlockAddress
  <2>4. b = a \o s /\ b # p
    BY <2>1, <2>2 DEF Below
  <2> HIDE DEF a
  <2> QED BY <1>2, <1>3, <2>3, <2>4
<1>6. a \in Address /\ a \o Root = a
  BY <1>1, <1>2, BelowChild
<1> HIDE DEF a, x
<1>7. a \in DOMAIN e /\ e[a] = x[Root]
  BY <1>1, <1>4, <1>5, <1>6
<1> DEFINE y == Subtree(e, a)
           z == Named(x, NoName)
<1>8. /\ y = [s \in DOMAIN y |-> y[s]]
      /\ \A s : s \in DOMAIN y <=> s \in Address /\ a \o s \in DOMAIN e
      /\ \A s \in DOMAIN y : y[s] = IF s = Root THEN [e[a] EXCEPT !.name = NoName] ELSE e[a \o s]
  BY <1>4, <1>7, SubtreeIs
<1>9. /\ DOMAIN z = DOMAIN x /\ z = [s \in DOMAIN z |-> z[s]]
      /\ \A s \in DOMAIN x : z[s] = IF s = Root THEN [x[Root] EXCEPT !.name = NoName] ELSE x[s]
  BY <1>4 DEF Named
<1> HIDE DEF y, z
<1>10. DOMAIN y = DOMAIN x
  BY <1>1, <1>5, <1>8 DEF Labelled
<1>11. \A s \in DOMAIN y : y[s] = z[s]
  BY <1>1, <1>5, <1>7, <1>8, <1>9, <1>10 DEF Labelled
<1>12. y = z
  BY <1>8, <1>9, <1>10, <1>11
<1> QED BY <1>7, <1>12 DEF Child, y, z, a, x, j, e

\* Nothing changes outside a container whose children are taken out,
LEMMA DetachOutside ==
  ASSUME NEW d, Labelled(d), NEW p \in Address, NEW i \in Position, NEW k \in Nat,
         NEW b, ~Under(p, b)
  PROVE  /\ b \in DOMAIN DetachItems(d, p, i, k) <=> b \in DOMAIN d
         /\ b \in DOMAIN d => DetachItems(d, p, i, k)[b] = d[b]
<1> DEFINE e == DetachItems(d, p, i, k)
<1>1. /\ \A c : c \in DOMAIN e <=> c \in Address /\ Shift(p, i, k, c) \in DOMAIN d
      /\ \A c \in DOMAIN e : e[c] = IF c = p THEN Resized(d[p], -k) ELSE d[Shift(p, i, k, c)]
  BY DetachDomain
<1>2. Under(p, p)
  BY LenProperties DEF Under, Address
<1>3. b # p /\ Shift(p, i, k, b) = b
  BY <1>2 DEF Shift, FromChild
<1> HIDE DEF e
<1>4. b \in DOMAIN d => b \in Address
  BY DEF Labelled
<1> QED BY <1>1, <1>3, <1>4 DEF e

\* or documents put in.
LEMMA InsertOutside ==
  ASSUME NEW d, Labelled(d), NEW p \in Address, NEW i \in Position,
         NEW subs, NEW k \in Nat, k = Len(subs), \A l \in 1..k : Labelled(subs[l]),
         NEW b, ~Under(p, b)
  PROVE  /\ b \in DOMAIN InsertItems(d, p, i, subs) <=> b \in DOMAIN d
         /\ b \in DOMAIN d => InsertItems(d, p, i, subs)[b] = d[b]
<1> DEFINE e == InsertItems(d, p, i, subs)
<1>1. /\ \A c : c \in DOMAIN e <=>
           /\ c \in Address
           /\ IF InBlock(p, i, k, c) THEN Rest(p, c) \in DOMAIN subs[Turn(p, c) - i + 1]
              ELSE Shift(p, i, -k, c) \in DOMAIN d
      /\ \A c \in DOMAIN e : e[c] = IF c = p THEN Resized(d[p], k)
                                    ELSE IF InBlock(p, i, k, c)
                                    THEN subs[Turn(p, c) - i + 1][Rest(p, c)]
                                    ELSE d[Shift(p, i, -k, c)]
  BY InsertDomain
<1>2. Under(p, p)
  BY LenProperties DEF Under, Address
<1>3. b # p /\ Shift(p, i, -k, b) = b /\ ~InBlock(p, i, k, b)
  BY <1>2 DEF Shift, InBlock, FromChild
<1> HIDE DEF e
<1>4. b \in DOMAIN d => b \in Address
  BY DEF Labelled
<1> QED BY <1>1, <1>3, <1>4 DEF e

(***************************************************************************)
(* Lists, written as functions.                                            *)
(***************************************************************************)
\* A function on 1..n is a sequence.
LEMMA ListIs ==
  ASSUME NEW n \in Nat, NEW s, s = [i \in 1..n |-> s[i]]
  PROVE  s \in Seq({s[i] : i \in 1..n}) /\ Len(s) = n
<1> DEFINE S == {s[i] : i \in 1..n}
<1>1. \A i \in 1..n : s[i] \in S
  OBVIOUS
<1> HIDE DEF S
<1>2. s \in [1..n -> S]
  BY <1>1
<1>3. s \in Seq(S) /\ Len(s) = n
  BY <1>2
<1> QED BY <1>3 DEF S

\* Two of them, one after the other.
LEMMA JoinIs ==
  ASSUME NEW m \in Nat, NEW n \in Nat, NEW s, s = [i \in 1..m |-> s[i]],
         NEW t, t = [i \in 1..n |-> t[i]]
  PROVE  /\ s \o t = [i \in 1..(m + n) |-> (s \o t)[i]]
         /\ Len(s \o t) = m + n
         /\ \A i \in 1..(m + n) : (s \o t)[i] = IF i <= m THEN s[i] ELSE t[i - m]
<1> DEFINE S == {s[i] : i \in 1..m} \cup {t[i] : i \in 1..n}
<1>1. s \in Seq({s[i] : i \in 1..m}) /\ Len(s) = m /\ t \in Seq({t[i] : i \in 1..n}) /\ Len(t) = n
  BY ListIs
<1>2. (\A i \in 1..m : s[i] \in S) /\ \A i \in 1..n : t[i] \in S
  OBVIOUS
<1> HIDE DEF S
<1>3. s \in Seq(S) /\ t \in Seq(S)
  BY <1>2
<1>4. /\ s \o t \in Seq(S) /\ Len(s \o t) = m + n
      /\ \A i \in 1..(m + n) : (s \o t)[i] = IF i <= m THEN s[i] ELSE t[i - m]
  BY <1>1, <1>3, ConcatProperties
<1> DEFINE u == s \o t
<1> HIDE DEF u
<1>5. u \in Seq(S) /\ Len(u) = m + n
  BY <1>4 DEF u
<1>6. u = [i \in 1..(m + n) |-> u[i]]
  BY <1>5
<1> QED BY <1>4, <1>6 DEF u

\* A part of one.
LEMMA CutIs ==
  ASSUME NEW s, NEW m \in Int, NEW n \in Int, NEW k \in Nat, k = n - m + 1
  PROVE  /\ SubSeq(s, m, n) = [i \in 1..k |-> SubSeq(s, m, n)[i]]
         /\ Len(SubSeq(s, m, n)) = k
         /\ \A i \in 1..k : SubSeq(s, m, n)[i] = s[m + i - 1]
<1> DEFINE S == {s[i] : i \in m..n}
           u == SubSeq(s, m, n)
<1>1. \A i \in m..n : s[i] \in S
  OBVIOUS
<1> HIDE DEF S
<1>2. /\ u \in Seq(S) /\ Len(u) = IF m <= n THEN n - m + 1 ELSE 0
      /\ \A i \in 1..(n - m + 1) : u[i] = s[m + i - 1]
  BY <1>1, SubSeqProperties
<1> HIDE DEF u
<1>3. Len(u) = k
  BY <1>2
<1>4. u = [i \in 1..k |-> u[i]]
  BY <1>2, <1>3
<1> QED BY <1>2, <1>3, <1>4 DEF u

\* Two with the same elements.
LEMMA ListsEqual ==
  ASSUME NEW n \in Nat, NEW s, s = [i \in 1..n |-> s[i]], NEW t, t = [i \in 1..n |-> t[i]],
         \A i \in 1..n : s[i] = t[i]
  PROVE  s = t
<1>1. [i \in 1..n |-> s[i]] = [i \in 1..n |-> t[i]]
  OBVIOUS
<1> QED BY <1>1

(***************************************************************************)
(* Documents whose objects have distinct member names stay so.             *)
(***************************************************************************)

\* A node with the names of a node of a plain document.
LEMMA SameNames ==
  ASSUME NEW M, NEW d, Plain(M, d), NEW a \in DOMAIN d, NEW e, NEW b,
         d[a].t = "object", e[b].n = d[a].n,
         \A j \in 1..d[a].n : e[Append(b, j)].name = d[Append(a, j)].name
  PROVE  Distinct(M, e[b].n, MemberNames(e, b))
<1>1. MemberNames(e, b) = MemberNames(d, a)
  BY DEF MemberNames
<1> QED BY <1>1 DEF Plain

\* Taking children out keeps a document plain.
LEMMA DetachPlain ==
  ASSUME NEW M, NEW d, WellFormed(d), Plain(M, d), NEW p \in DOMAIN d, d[p].t \in Container,
         NEW i \in Position, NEW k \in Nat, i + k - 1 <= d[p].n, k <= d[p].n
  PROVE  Plain(M, DetachItems(d, p, i, k))
<1> DEFINE e == DetachItems(d, p, i, k)
<1>1. Labelled(d) /\ p \in Address /\ d[p].n \in Nat /\ d[p] \in Label /\ k \in Int
  BY DEF WellFormed, Labelled, Counted
<1>2. WellFormed(e)
  BY DetachWellFormed
<1>3. /\ \A b : b \in DOMAIN e <=> b \in Address /\ Shift(p, i, k, b) \in DOMAIN d
      /\ \A b \in DOMAIN e : e[b] = IF b = p THEN Resized(d[p], -k) ELSE d[Shift(p, i, k, b)]
  BY <1>1, DetachDomain
<1>4. /\ Resized(d[p], -k).name = d[p].name /\ Resized(d[p], -k).t = d[p].t
      /\ Resized(d[p], -k).n = d[p].n - k
  BY <1>1, ResizedLabel, Zenon
<1>5. \A j \in 1..(d[p].n - k) :
        e[Append(p, j)].name = d[Append(p, IF j >= i THEN j + k ELSE j)].name
  <2>1. TAKE j \in 1..(d[p].n - k)
  <2>2. Child(e, p, j) = Child(d, p, IF j >= i THEN j + k ELSE j)
    BY <1>2, DetachChild DEF WellFormed
  <2> QED BY <2>2 DEF Child
<1>6. Labelled(e)
  BY <1>2 DEF WellFormed
<1>7. \A b \in DOMAIN e : e[b].t = "object" =>
        e[b].n \in Nat /\ \A j \in 1..e[b].n : Append(b, j) \in DOMAIN e /\ b \in Address
  BY <1>2 DEF WellFormed, Labelled, Counted, Container
<1>8. Shift(p, i, k, p) = p
  BY <1>1, ShiftAppend DEF Position
<1> HIDE DEF e
<1>9. ASSUME NEW b \in DOMAIN e, e[b].t = "object"
      PROVE  Distinct(M, e[b].n, MemberNames(e, b))
  <2>1. CASE b = p
    <3> DEFINE m    == d[p].n - k
               h(j) == IF j >= i THEN j + k ELSE j
    <3>1. e[b].n = m /\ d[p].t = "object" /\ m \in Nat
      BY <1>1, <1>3, <1>4, <1>9, <2>1
    <3>2. Distinct(M, d[p].n, MemberNames(d, p))
      BY <3>1 DEF Plain
    <3>3. \A j \in 1..m : h(j) \in 1..d[p].n /\ MemberNames(e, p)[j] = MemberNames(d, p)[h(j)]
      <4>1. TAKE j \in 1..m
      <4>2. h(j) \in 1..d[p].n
        BY <1>1, <4>1 DEF Position
      <4> QED BY <1>5, <2>1, <3>1, <4>1, <4>2 DEF MemberNames
    <3>4. \A j, l \in 1..m : h(j) = h(l) => j = l
      BY <1>1 DEF Position
    <3> HIDE DEF h, m
    <3> QED BY <2>1, <3>1, <3>2, <3>3, <3>4 DEF Distinct
  <2>2. CASE b # p
    <3> DEFINE a == Shift(p, i, k, b)
    <3>1. a \in DOMAIN d /\ e[b] = d[a] /\ b \in Address
      BY <1>3, <2>2
    <3> HIDE DEF a
    <3>2. ASSUME NEW j \in 1..e[b].n
          PROVE  e[Append(b, j)].name = d[Append(a, j)].name
      <4>1. j \in Position /\ Append(b, j) \in DOMAIN e
        BY <1>7, <1>9 DEF Position
      <4>2. Shift(p, i, k, Append(b, j)) = Append(a, j)
        BY <1>1, <2>2, <3>1, <4>1, ShiftAppend DEF a
      <4>3. CASE Append(b, j) = p
        BY <1>3, <1>4, <1>8, <4>1, <4>2, <4>3
      <4>4. CASE Append(b, j) # p
        BY <1>3, <4>1, <4>2, <4>4
      <4> QED BY <4>3, <4>4
    <3> QED BY <1>9, <3>1, <3>2, SameNames
  <2> QED BY <2>1, <2>2
<1>10. e = [b \in DOMAIN e |-> e[b]]
  BY DEF e, DetachItems
<1> QED BY <1>9, <1>10 DEF Plain, e

\* So does putting plain documents in, if the names at p still differ.
LEMMA InsertPlain ==
  ASSUME NEW M, NEW d, WellFormed(d), Plain(M, d), NEW p \in DOMAIN d, NEW i \in Position,
         NEW subs, NEW k \in Nat, k = Len(subs),
         \A l \in 1..k : Labelled(subs[l]) /\ Plain(M, subs[l]),
         WellFormed(InsertItems(d, p, i, subs)),
         LET e == InsertItems(d, p, i, subs)
         IN d[p].t = "object" => Distinct(M, e[p].n, MemberNames(e, p))
  PROVE  Plain(M, InsertItems(d, p, i, subs))
<1> DEFINE e == InsertItems(d, p, i, subs)
<1>1. Labelled(d) /\ p \in Address /\ d[p] \in Label /\ k \in Int
  BY DEF WellFormed, Labelled
<1>2. /\ \A b : b \in DOMAIN e <=>
           /\ b \in Address
           /\ IF InBlock(p, i, k, b) THEN Rest(p, b) \in DOMAIN subs[Turn(p, b) - i + 1]
              ELSE Shift(p, i, -k, b) \in DOMAIN d
      /\ \A b \in DOMAIN e : e[b] = IF b = p THEN Resized(d[p], k)
                                    ELSE IF InBlock(p, i, k, b)
                                    THEN subs[Turn(p, b) - i + 1][Rest(p, b)]
                                    ELSE d[Shift(p, i, -k, b)]
  <2>1. /\ Labelled(d) /\ p \in Address /\ i \in Position
        /\ k \in Nat /\ k = Len(subs) /\ \A m \in 1..k : Labelled(subs[m])
    BY <1>1
  <2> QED BY ONLY <2>1, InsertDomain, SMTT(30)
<1>3. Resized(d[p], k).name = d[p].name /\ Resized(d[p], k).t = d[p].t
  BY <1>1, ResizedLabel, Zenon
<1>4. Shift(p, i, -k, p) = p /\ ~InBlock(p, i, k, p)
  BY <1>1, ItselfOutside
<1>5. \A b \in DOMAIN e : e[b].t = "object" =>
        e[b].n \in Nat /\ \A j \in 1..e[b].n : Append(b, j) \in DOMAIN e /\ b \in Address
  BY DEF WellFormed, Labelled, Counted, Container
<1>6. d[p].t = "object" => Distinct(M, e[p].n, MemberNames(e, p))
  OBVIOUS
<1> HIDE DEF e
<1>7. ASSUME NEW b \in DOMAIN e, e[b].t = "object"
      PROVE  Distinct(M, e[b].n, MemberNames(e, b))
  <2>1. CASE b = p
    BY <1>2, <1>3, <1>6, <1>7, <2>1
  <2>2. CASE b # p /\ InBlock(p, i, k, b)
    <3> DEFINE m == Turn(p, b) - i + 1
               a == Rest(p, b)
    <3>1. a \in DOMAIN subs[m] /\ e[b] = subs[m][a] /\ b \in Address
      BY <1>2, <2>2
    <3>2. m \in 1..k
      <4>1. Turn(p, b) \in i..(i + k - 1)
        BY <1>1, <2>2, <3>1, BlockAddress
      <4> QED BY <4>1 DEF Position
    <3>3. Plain(M, subs[m])
      BY <3>2
    <3>4. ASSUME NEW j \in 1..e[b].n
          PROVE  e[Append(b, j)].name = subs[m][Append(a, j)].name
      <4>1. j \in Position /\ Append(b, j) \in DOMAIN e
        BY <1>5, <1>7 DEF Position
      <4>2. /\ InBlock(p, i, k, Append(b, j)) /\ Turn(p, Append(b, j)) = Turn(p, b)
            /\ Rest(p, Append(b, j)) = Append(a, j)
        BY <1>1, <2>2, <3>1, <4>1, BlockAppend
      <4>3. Append(b, j) # p
        BY <1>4, <4>2
      <4> QED BY <1>2, <4>1, <4>2, <4>3
    <3> HIDE DEF a, m
    <3> QED BY <1>7, <3>1, <3>3, <3>4, SameNames
  <2>3. CASE b # p /\ ~InBlock(p, i, k, b)
    <3> DEFINE a == Shift(p, i, -k, b)
    <3>1. a \in DOMAIN d /\ e[b] = d[a] /\ b \in Address
      BY <1>2, <2>3
    <3>2. ASSUME NEW j \in 1..e[b].n
          PROVE  e[Append(b, j)].name = d[Append(a, j)].name
      <4>1. j \in Position /\ Append(b, j) \in DOMAIN e
        BY <1>5, <1>7 DEF Position
      <4>2. ~InBlock(p, i, k, Append(b, j)) /\ Shift(p, i, -k, Append(b, j)) = Append(a, j)
        BY <1>1, <2>3, <3>1, <4>1, OutsideAppend
      <4> HIDE DEF a
      <4>3. CASE Append(b, j) = p
        BY <1>2, <1>3, <1>4, <4>1, <4>2, <4>3
      <4>4. CASE Append(b, j) # p
        BY <1>2, <4>1, <4>2, <4>4
      <4> QED BY <4>3, <4>4
    <3> HIDE DEF a
    <3> QED BY <1>7, <3>1, <3>2, SameNames
  <2> QED BY <2>1, <2>2, <2>3
<1>8. e = [b \in DOMAIN e |-> e[b]]
  BY DEF e, InsertItems
<1> QED BY <1>7, <1>8 DEF Plain, e

\* A document with a name for its root has the same names.
LEMMA NamedPlain ==
  ASSUME NEW M, NEW d, WellFormed(d), Plain(M, d), NEW name \in Name \cup {NoName}
  PROVE  Plain(M, Named(d, name))
<1> DEFINE e == Named(d, name)
<1>1. /\ DOMAIN e = DOMAIN d
      /\ \A a \in DOMAIN d : e[a].t = d[a].t /\ e[a].n = d[a].n /\ (a # Root => e[a] = d[a])
  BY DEF Named, WellFormed, Labelled, Label
<1> HIDE DEF e
<1>2. ASSUME NEW a \in DOMAIN e, e[a].t = "object"
      PROVE  Distinct(M, e[a].n, MemberNames(e, a))
  <2>1. \A j \in 1..d[a].n : Append(a, j) \in DOMAIN d /\ Append(a, j) # Root
    <3>1. TAKE j \in 1..d[a].n
    <3>2. a \in Address /\ j \in Position /\ Append(a, j) \in DOMAIN d
      BY <1>1, <1>2, <3>1 DEF WellFormed, Labelled, Counted, Container, Position
    <3> QED BY <3>2, AppendParent
  <2>2. \A j \in 1..d[a].n : e[Append(a, j)].name = d[Append(a, j)].name
    BY <1>1, <2>1
  <2> QED BY <1>1, <1>2, <2>2, SameNames
<1>3. e = [b \in DOMAIN e |-> e[b]]
  BY DEF Plain, Named, e
<1> QED BY <1>2, <1>3 DEF Plain, e

(***************************************************************************)
(* What lies below a copied node.                                          *)
(***************************************************************************)

\* A copy of the node at a has the labels and the names that lie below a.
LEMMA SubtreeLabels ==
  ASSUME NEW d, WellFormed(d), NEW a \in DOMAIN d, NEW r \in Address, a \o r \in DOMAIN d
  PROVE  LET s == Subtree(d, a)
         IN /\ a \in Address /\ a \o r \in Address /\ r \in DOMAIN s
            /\ s[r].t = d[a \o r].t /\ s[r].n = d[a \o r].n
            /\ r # Root => s[r] = d[a \o r]
            /\ Labelled(s)
<1> DEFINE s == Subtree(d, a)
<1>1. Labelled(d) /\ a \in Address /\ a \o r \in Address
  BY DEF WellFormed, Labelled
<1>2. /\ \A b : b \in DOMAIN s <=> b \in Address /\ a \o b \in DOMAIN d
      /\ \A b \in DOMAIN s : s[b] = IF b = Root THEN [d[a] EXCEPT !.name = NoName] ELSE d[a \o b]
  BY <1>1, SubtreeIs
<1> HIDE DEF s
<1>3. a \o Root = a
  BY <1>1 DEF Address, Root
<1>4. d[a] \in Label /\ [d[a] EXCEPT !.name = NoName] \in Label
  BY <1>1 DEF Labelled, Label
<1>5. /\ [d[a] EXCEPT !.name = NoName].t = d[a].t
      /\ [d[a] EXCEPT !.name = NoName].n = d[a].n
  BY <1>4 DEF Label
<1>6. r \in DOMAIN s
  BY <1>2
<1>7. Labelled(s)
  BY <1>1, <1>2, <1>4 DEF Labelled
<1> QED BY <1>1, <1>2, <1>3, <1>5, <1>6, <1>7 DEF s

\* The copy of a copy.
LEMMA SubtreeTwice ==
  ASSUME NEW d, WellFormed(d), NEW a \in DOMAIN d, NEW r \in Address, a \o r \in DOMAIN d
  PROVE  Subtree(Subtree(d, a), r) = Subtree(d, a \o r)
<1> DEFINE s == Subtree(d, a)
           b == a \o r
<1>1. /\ Labelled(d) /\ Labelled(s) /\ r \in DOMAIN s /\ b \in DOMAIN d /\ a \in Address
      /\ s[r].t = d[b].t /\ s[r].n = d[b].n
  BY SubtreeLabels DEF WellFormed
<1>2. ASSUME NEW x \in Address \ {Root}
      PROVE  /\ r \o x \in DOMAIN s <=> b \o x \in DOMAIN d
             /\ r \o x \in DOMAIN s => s[r \o x] = d[b \o x]
  <2>1. r \o x \in Address /\ r \o x # Root /\ a \o (r \o x) = b \o x
    <3>1. Len(x) \in Nat \ {0} /\ Len(r) \in Nat
      BY EmptySeq, LenProperties DEF Address, Root
    <3>2. r \o x \in Address /\ Len(r \o x) = Len(r) + Len(x)
      BY ConcatAddress
    <3>3. Len(r \o x) # 0
      BY <3>1, <3>2
    <3>4. a \o (r \o x) = (a \o r) \o x
      BY <1>1 DEF Address
    <3> QED BY <3>2, <3>3, <3>4, EmptySeq DEF Address, Root
  <2>2. r \o x \in DOMAIN s <=> a \o (r \o x) \in DOMAIN d
    BY <1>1, <2>1, SubtreeIs
  <2>3. a \o (r \o x) \in DOMAIN d => s[r \o x] = d[a \o (r \o x)]
    <3> DEFINE y == r \o x
    <3>1. ASSUME a \o y \in DOMAIN d PROVE s[y] = d[a \o y]
      <4>1. y \in Address /\ y # Root
        BY <2>1
      <4> HIDE DEF y
      <4> QED BY <3>1, <4>1, SubtreeLabels
    <3> QED BY <3>1
  <2> QED BY <2>1, <2>2, <2>3
<1> HIDE DEF s, b
<1>3. Subtree(s, r) = Subtree(d, b)
  BY <1>1, <1>2, SubtreesEqual
<1> QED BY <1>3 DEF s, b

(***************************************************************************)
(* What FlattenSeq puts together.                                          *)
(***************************************************************************)
\* f is the recursive function of FlattenSeq.
Flattens(f, n, seqs) ==
  f = [i \in 1..n |-> IF i = 1 THEN seqs[i] ELSE f[i - 1] \o seqs[i]]

\* What the sequences up to the i-th join to.
LEMMA FlattenStep ==
  ASSUME NEW n \in Nat, NEW seqs, NEW f, Flattens(f, n, seqs), NEW i \in 1..n
  PROVE  f[i] = IF i = 1 THEN seqs[i] ELSE f[i - 1] \o seqs[i]
<1> DEFINE body(j) == IF j = 1 THEN seqs[j] ELSE f[j - 1] \o seqs[j]
<1>1. f = [j \in 1..n |-> body(j)]
  BY DEF Flattens
<1>2. f[i] = body(i)
  <2> HIDE DEF body
  <2> QED BY <1>1
<1> QED BY <1>2

\* There is such a function, for every list of sequences.
LEMMA FlattenExists ==
  ASSUME NEW S, NEW n \in Nat, NEW seqs, \A i \in 1..n : seqs[i] \in Seq(S)
  PROVE  \E f : Flattens(f, n, seqs)
<1> DEFINE Good == {m \in Nat : \E f : Flattens(f, m, seqs)}
<1>1. 0 \in Good
  <2>1. Flattens(<<>>, 0, seqs)
    BY DEF Flattens
  <2> QED BY <2>1
<1>2. ASSUME NEW m \in Nat, m \in Good PROVE m + 1 \in Good
  <2>1. PICK f : Flattens(f, m, seqs)
    BY <1>2
  <2> DEFINE g == [i \in 1..(m + 1) |-> IF i <= m THEN f[i] ELSE
                     IF i = 1 THEN seqs[i] ELSE f[i - 1] \o seqs[i]]
             h == [i \in 1..(m + 1) |-> IF i = 1 THEN seqs[i] ELSE g[i - 1] \o seqs[i]]
  <2>2. ASSUME NEW i \in 1..(m + 1) PROVE g[i] = h[i]
    <3>1. CASE i <= m
      <4>1. f[i] = IF i = 1 THEN seqs[i] ELSE f[i - 1] \o seqs[i]
        BY <2>1, <3>1, FlattenStep
      <4>2. i # 1 => g[i - 1] = f[i - 1]
        BY <3>1
      <4> QED BY <3>1, <4>1, <4>2
    <3>2. CASE i = m + 1
      <4>1. i # 1 => g[i - 1] = f[i - 1]
        BY <3>2
      <4> QED BY <3>2, <4>1
    <3> QED BY <3>1, <3>2
  <2>3. g = h
    BY <2>2
  <2>4. Flattens(g, m + 1, seqs)
    BY <2>3 DEF Flattens
  <2> HIDE DEF g
  <2> QED BY <2>4
<1>3. n \in Good
  <2> HIDE DEF Good
  <2> QED BY <1>1, <1>2, Induction
<1> QED BY <1>3

\* f has what the first sequences of the n in seqs join to.
Joins(f, n, S, seqs) ==
  /\ f \in [0..n -> Seq(S)] /\ f[0] = <<>> /\ f[n] = FlattenSeq(seqs)
  /\ \A i \in 1..n : f[i] = f[i - 1] \o seqs[i]

\* FlattenSeq joins one sequence after the other.
LEMMA JoinedUpTo ==
  ASSUME NEW S, NEW n \in Nat, NEW seqs \in [1..n -> Seq(S)]
  PROVE  \E f : Joins(f, n, S, seqs)
<1> USE DEF Joins
<1>0. Len(seqs) = n /\ seqs \in Seq(Seq(S)) /\ <<>> \in Seq(S)
  BY EmptySeq, SeqDef
<1>1. CASE n = 0
  <2> DEFINE g == [i \in 0..0 |-> <<>>]
  <2>1. seqs = <<>> /\ FlattenSeq(seqs) = <<>>
    BY <1>0, <1>1 DEF FlattenSeq
  <2>2. g \in [0..n -> Seq(S)] /\ g[0] = <<>>
    BY <1>0, <1>1
  <2> HIDE DEF g
  <2> QED BY <1>1, <2>1, <2>2
<1>2. CASE n # 0
  <2> DEFINE flat == CHOOSE f : Flattens(f, n, seqs)
             g == [i \in 0..n |-> IF i = 0 THEN <<>> ELSE flat[i]]
  <2>1. FlattenSeq(seqs) = flat[n]
    BY <1>0, <1>2 DEF FlattenSeq, Flattens
  <2>2. Flattens(flat, n, seqs)
    <3>1. \E f : Flattens(f, n, seqs)
      BY FlattenExists
    <3> QED BY <3>1
  <2> HIDE DEF flat
  <2>3. ASSUME NEW i \in 1..n
        PROVE  flat[i] = IF i = 1 THEN seqs[i] ELSE flat[i - 1] \o seqs[i]
    BY <2>2, FlattenStep
  <2>4. g[0] = <<>> /\ g[n] = FlattenSeq(seqs)
    BY <1>2, <2>1
  <2>5. ASSUME NEW i \in 1..n PROVE g[i] = g[i - 1] \o seqs[i]
    <3>1. seqs[i] \in Seq(S)
      OBVIOUS
    <3>2. CASE i = 1
      <4>1. g[i] = seqs[i] /\ g[i - 1] = <<>>
        BY <2>3, <3>2
      <4>2. <<>> \o seqs[i] = seqs[i]
        BY <3>1, ConcatEmptySeq
      <4> QED BY <4>1, <4>2
    <3>3. CASE i # 1
      <4>1. i - 1 \in 0..n /\ i - 1 # 0 /\ i \in 0..n /\ i # 0
        BY <3>3
      <4>2. g[i] = flat[i] /\ g[i - 1] = flat[i - 1]
        BY <4>1
      <4> HIDE DEF g
      <4> QED BY <2>3, <3>3, <4>2
    <3> QED BY <3>2, <3>3
  <2> DEFINE Good == {k \in Nat : k <= n => g[k] \in Seq(S)}
  <2>6. 0 \in Good
    BY <1>0, <2>4
  <2>7. ASSUME NEW k \in Nat, k \in Good PROVE k + 1 \in Good
    <3> SUFFICES ASSUME k + 1 <= n PROVE g[k + 1] \in Seq(S)
      OBVIOUS
    <3>1. k + 1 \in 1..n /\ (k + 1) - 1 = k /\ g[k] \in Seq(S)
      BY <2>7
    <3> HIDE DEF g
    <3>2. g[k + 1] = g[k] \o seqs[k + 1] /\ seqs[k + 1] \in Seq(S)
      BY <2>5, <3>1
    <3> QED BY <3>1, <3>2, ConcatProperties
  <2>8. Nat \subseteq Good
    <3> HIDE DEF Good
    <3> QED BY <2>6, <2>7, Induction
  <2>9. g \in [0..n -> Seq(S)]
    <3>1. ASSUME NEW k \in 0..n PROVE g[k] \in Seq(S)
      <4>1. k \in Nat /\ k <= n
        OBVIOUS
      <4>2. k \in Good
        <5> HIDE DEF Good
        <5> QED BY <2>8, <4>1
      <4> HIDE DEF g
      <4> QED BY <4>1, <4>2
    <3>2. g = [k \in 0..n |-> g[k]]
      OBVIOUS
    <3> HIDE DEF g
    <3> QED BY <3>1, <3>2
  <2> HIDE DEF g
  <2> QED BY <2>4, <2>5, <2>9
<1> QED BY <1>1, <1>2

\* f is defined by recursion on the numbers up to n.
Folds(f, n, S, base, F) ==
  f \in [0..n -> S] /\ f[0] = base /\ \A k \in 1..n : f[k] = F[k][f[k - 1]]

\* There is such a function.
LEMMA FoldExists ==
  ASSUME NEW S, NEW n \in Nat, NEW base \in S, NEW F \in [1..n -> [S -> S]]
  PROVE  \E f : Folds(f, n, S, base, F)
<1> USE DEF Folds
<1> DEFINE Does(f, m) == Folds(f, m, S, base, F)
           Good == {m \in Nat : m <= n => \E f : Does(f, m)}
<1>1. 0 \in Good
  <2>1. Does([k \in 0..0 |-> base], 0)
    OBVIOUS
  <2> QED BY <2>1
<1>2. ASSUME NEW m \in Nat, m \in Good PROVE m + 1 \in Good
  <2> SUFFICES ASSUME m + 1 <= n PROVE \E f : Does(f, m + 1)
    OBVIOUS
  <2>1. PICK f : Does(f, m)
    BY <1>2
  <2> DEFINE g == [k \in 0..(m + 1) |-> IF k <= m THEN f[k] ELSE F[k][f[k - 1]]]
  <2>2. \A k \in 0..m : g[k] = f[k] /\ f[k] \in S
    BY <2>1
  <2>3. g[m + 1] = F[m + 1][f[m]]
    OBVIOUS
  <2>4. F[m + 1][f[m]] \in S
    <3>1. m + 1 \in 1..n /\ f[m] \in S
      BY <2>1
    <3> QED BY <3>1
  <2>5. \A k \in 0..(m + 1) : g[k] \in S
    <3>1. \A k \in 0..(m + 1) : k \in 0..m \/ k = m + 1
      OBVIOUS
    <3> HIDE DEF g
    <3> QED BY <2>2, <2>3, <2>4, <3>1
  <2>6. g \in [0..(m + 1) -> S]
    <3>1. g = [k \in 0..(m + 1) |-> g[k]]
      OBVIOUS
    <3> HIDE DEF g
    <3> QED BY <2>5, <3>1
  <2> HIDE DEF g
  <2>7. g[0] = base
    BY <2>1, <2>2
  <2>8. ASSUME NEW k \in 1..(m + 1) PROVE g[k] = F[k][g[k - 1]]
    <3>1. CASE k \in 1..m
      <4>1. k \in 0..m /\ k - 1 \in 0..m
        BY <3>1
      <4> QED BY <2>1, <2>2, <3>1, <4>1
    <3>2. CASE k = m + 1
      <4>1. k - 1 = m /\ m \in 0..m
        BY <3>2
      <4> QED BY <2>2, <2>3, <3>2, <4>1
    <3> QED BY <3>1, <3>2
  <2> QED BY <2>6, <2>7, <2>8
<1>3. PICK f : Does(f, n)
  <2>1. n \in Good
    <3> HIDE DEF Good
    <3> QED BY <1>1, <1>2, Induction
  <2> QED BY <2>1
<1> QED BY <1>3
=============================================================================
