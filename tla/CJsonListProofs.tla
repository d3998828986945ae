--------------------------- MODULE CJsonListProofs ---------------------------
(***************************************************************************)
(* What holds of a child list for every set of items and every index.      *)
(* The argument: there always is a sequence of distinct items that the     *)
(* links represent, and each call turns it into the sequence it promises.  *)
(***************************************************************************)
EXTENDS CJsonList, FiniteSetTheorems, SequenceTheorems, WellFoundedInduction, TLAPS

\* The links represent the sequence s, and what is allocated is in s.
Linked(s) ==
  /\ child = IF s = <<>> THEN NULL ELSE s[1]
  /\ \A i \in 1..Len(s) :
       /\ next[s[i]] = IF i = Len(s) THEN NULL ELSE s[i + 1]
       /\ prev[s[i]] = IF i = 1 THEN s[Len(s)] ELSE s[i - 1]
  /\ live = {s[i] : i \in 1..Len(s)}

Distinct(s) == \A i, j \in 1..Len(s) : s[i] = s[j] => i = j

Links ==
  /\ next \in [Item -> Item \cup {NULL}]
  /\ prev \in [Item -> Item \cup {NULL}]

\* The inductive invariant.
IInv == Links /\ \E s \in Seq(Item) : Distinct(s) /\ Linked(s)

\* s with x as its element k + 1, and s without its element k + 1.
With(s, k, x) ==
  [i \in 1..(Len(s) + 1) |-> IF i <= k THEN s[i] ELSE IF i = k + 1 THEN x ELSE s[i - 1]]

Without(s, k) == [i \in 1..(Len(s) - 1) |-> s[IF i <= k THEN i ELSE i + 1]]

(***************************************************************************)
(* Sequences.                                                              *)
(***************************************************************************)
LEMMA WithDistinct ==
  ASSUME NEW s \in Seq(Item), Distinct(s), NEW k \in 0..Len(s), NEW x \in Item,
         x \notin {s[i] : i \in 1..Len(s)}
  PROVE  /\ With(s, k, x) \in Seq(Item) /\ Len(With(s, k, x)) = Len(s) + 1
         /\ Distinct(With(s, k, x))
         /\ {With(s, k, x)[i] : i \in 1..(Len(s) + 1)} = {s[i] : i \in 1..Len(s)} \cup {x}
<1> DEFINE t == With(s, k, x)
<1>1. /\ t \in [1..(Len(s) + 1) -> Item]
      /\ \A i \in 1..(Len(s) + 1) :
           t[i] = IF i <= k THEN s[i] ELSE IF i = k + 1 THEN x ELSE s[i - 1]
  BY DEF With
<1> HIDE DEF t
<1>2. t \in Seq(Item) /\ Len(t) = Len(s) + 1
  BY <1>1
<1>3. Distinct(t)
  <2> SUFFICES ASSUME NEW i \in 1..(Len(s) + 1), NEW j \in 1..(Len(s) + 1), t[i] = t[j]
               PROVE  i = j
    BY <1>2 DEF Distinct
  <2> DEFINE Old(n) == IF n <= k THEN n ELSE n - 1
  <2>1. \A n \in 1..(Len(s) + 1) : n # k + 1 => Old(n) \in 1..Len(s) /\ t[n] = s[Old(n)]
    BY <1>1
  <2>2. CASE i # k + 1 /\ j # k + 1
    <3>1. Old(i) = Old(j)
      <4> HIDE DEF Old
      <4> QED
        BY <2>1, <2>2 DEF Distinct
    <3> QED
      BY <2>2, <3>1
  <2>3. ASSUME NEW n \in 1..(Len(s) + 1), n # k + 1 PROVE t[n] # t[k + 1]
    <3>1. t[k + 1] = x
      BY <1>1
    <3> HIDE DEF Old
    <3> QED
      BY <2>1, <2>3, <3>1
  <2> QED
    BY <2>2, <2>3
<1>4. ASSUME NEW y PROVE y \in {t[i] : i \in 1..(Len(s) + 1)} <=> y \in {s[i] : i \in 1..Len(s)} \cup {x}
  <2>1. ASSUME NEW i \in 1..(Len(s) + 1) PROVE t[i] \in {s[j] : j \in 1..Len(s)} \cup {x}
    BY <1>1
  <2>2. x = t[k + 1] /\ k + 1 \in 1..(Len(s) + 1)
    BY <1>1
  <2>3. ASSUME NEW j \in 1..Len(s) PROVE s[j] \in {t[i] : i \in 1..(Len(s) + 1)}
    <3>1. CASE j <= k
      BY <3>1, <1>1
    <3>2. CASE ~(j <= k)
      <4>1. j + 1 \in 1..(Len(s) + 1) /\ t[j + 1] = s[j]
        BY <3>2, <1>1
      <4> QED
        BY <4>1
    <3> QED
      BY <3>1, <3>2
  <2> QED
    BY <2>1, <2>2, <2>3
<1> QED
  BY <1>2, <1>3, <1>4 DEF t

LEMMA WithoutDistinct ==
  ASSUME NEW s \in Seq(Item), Distinct(s), NEW k \in 0..(Len(s) - 1)
  PROVE  /\ Without(s, k) \in Seq(Item) /\ Len(Without(s, k)) = Len(s) - 1
         /\ Distinct(Without(s, k))
         /\ {Without(s, k)[i] : i \in 1..(Len(s) - 1)} = {s[i] : i \in 1..Len(s)} \ {s[k + 1]}
<1> DEFINE t == Without(s, k)
<1>1. /\ t \in [1..(Len(s) - 1) -> Item]
      /\ \A i \in 1..(Len(s) - 1) : t[i] = s[IF i <= k THEN i ELSE i + 1]
  BY DEF Without
<1> HIDE DEF t
<1>2. t \in Seq(Item) /\ Len(t) = Len(s) - 1
  BY <1>1
<1>3. Distinct(t)
  BY <1>1, <1>2 DEF Distinct
<1>4. ASSUME NEW y PROVE y \in {t[i] : i \in 1..(Len(s) - 1)} <=> y \in {s[i] : i \in 1..Len(s)} \ {s[k + 1]}
  <2>1. ASSUME NEW i \in 1..(Len(s) - 1)
        PROVE  t[i] \in {s[j] : j \in 1..Len(s)} \ {s[k + 1]}
    BY <1>1 DEF Distinct
  <2>2. ASSUME NEW j \in 1..Len(s), s[j] # s[k + 1]
        PROVE  s[j] \in {t[i] : i \in 1..(Len(s) - 1)}
    <3>1. CASE j <= k
      BY <3>1, <1>1
    <3>2. CASE ~(j <= k)
      <4>1. j # k + 1
        BY <2>2
      <4>2. j - 1 \in 1..(Len(s) - 1) /\ t[j - 1] = s[j]
        BY <3>2, <4>1, <1>1
      <4> QED
        BY <4>2
    <3> QED
      BY <3>1, <3>2
  <2> QED
    BY <2>1, <2>2
<1> QED
  BY <1>2, <1>3, <1>4 DEF t

(***************************************************************************)
(* Reading the list.                                                       *)
(***************************************************************************)
LEMMA WalkIsPrefix ==
  ASSUME NEW s \in Seq(Item), Linked(s), NEW n \in Nat \ {0}, NEW p \in Walks(n)
  PROVE  n <= Len(s) /\ \A i \in 1..n : p[i] = s[i]
<1> DEFINE Bad == {i \in 1..n : ~(i <= Len(s) /\ p[i] = s[i])}
<1>1. /\ p \in [1..n -> Item] /\ p[1] = child
      /\ \A i \in 1..(n - 1) : p[i + 1] = next[p[i]]
  BY DEF Walks
<1>2. NULL \notin Item
  BY ItemAssumption
<1>3. 1 \notin Bad
  <2>1. p[1] \in Item
    BY <1>1
  <2>2. s # <<>> /\ p[1] = s[1]
    BY <1>1, <1>2, <2>1 DEF Linked
  <2> QED
    BY <2>2
<1>4. ASSUME Bad # {} PROVE FALSE
  <2>1. PICK m \in Bad : \A l \in Bad : ~(<<l, m>> \in OpToRel(<, Nat))
    <3>1. Bad \subseteq Nat
      OBVIOUS
    <3> HIDE DEF Bad
    <3> QED
      BY <1>4, <3>1, NatLessThanWellFounded, WFMin
  <2>2. m \in 1..n /\ m # 1
    BY <1>3
  <2>3. m - 1 \in 1..(n - 1) /\ m - 1 \notin Bad
    <3>1. m - 1 \in 1..(n - 1) /\ m - 1 \in Nat /\ m \in Nat
      BY <2>2
    <3>2. <<m - 1, m>> \in OpToRel(<, Nat)
      BY <3>1 DEF OpToRel
    <3>3. m - 1 \notin Bad
      <4> HIDE DEF Bad
      <4> QED
        BY <2>1, <3>2
    <3> QED
      BY <3>1, <3>3
  <2>4. m - 1 \in 1..Len(s) /\ p[m - 1] = s[m - 1]
    BY <2>3
  <2>5. p[m] = next[s[m - 1]] /\ p[m] \in Item
    <3>1. p[(m - 1) + 1] = next[p[m - 1]]
      BY <1>1, <2>3
    <3> QED
      BY <1>1, <2>2, <2>4, <3>1
  <2>6. m - 1 # Len(s) /\ p[m] = s[m]
    BY <1>2, <2>2, <2>4, <2>5 DEF Linked
  <2>7. m \notin Bad
    BY <2>2, <2>4, <2>6
  <2> QED
    BY <2>7
<1>5. \A i \in 1..n : i <= Len(s) /\ p[i] = s[i]
  BY <1>4
<1> QED
  BY <1>5

LEMMA PrefixIsWalk ==
  ASSUME NEW s \in Seq(Item), Linked(s), NEW n \in 1..Len(s)
  PROVE  [i \in 1..n |-> s[i]] \in Walks(n)
<1> DEFINE p == [i \in 1..n |-> s[i]]
<1>1. p \in [1..n -> Item] /\ \A i \in 1..n : p[i] = s[i]
  OBVIOUS
<1>2. p[1] = child
  BY <1>1 DEF Linked
<1>3. ASSUME NEW i \in 1..(n - 1) PROVE p[i + 1] = next[p[i]]
  <2>1. i \in 1..Len(s) /\ i # Len(s)
    OBVIOUS
  <2>2. next[s[i]] = s[i + 1]
    BY <2>1 DEF Linked
  <2> QED
    BY <1>1, <2>2
<1> HIDE DEF p
<1>4. p \in Walks(n)
  BY <1>1, <1>2, <1>3 DEF Walks
<1> QED
  BY <1>4 DEF p

\* get_array_item finds the element of the sequence.
LEMMA ItemAtIs ==
  ASSUME NEW s \in Seq(Item), Linked(s), NEW w \in Nat
  PROVE  ItemAt(w) = IF w < Len(s) THEN s[w + 1] ELSE NULL
<1>1. CASE w < Len(s)
  <2>1. Walks(w + 1) # {}
    <3>1. w + 1 \in 1..Len(s)
      BY <1>1
    <3> QED
      BY <3>1, PrefixIsWalk
  <2>2. \A p \in Walks(w + 1) : p[w + 1] = s[w + 1]
    BY WalkIsPrefix
  <2> QED
    BY <1>1, <2>1, <2>2 DEF ItemAt
<1>2. CASE ~(w < Len(s))
  <2>1. Walks(w + 1) = {}
    BY <1>2, WalkIsPrefix
  <2> QED
    BY <1>2, <2>1 DEF ItemAt
<1> QED
  BY <1>1, <1>2

LEMMA ShortEnough ==
  ASSUME NEW s \in Seq(Item), Distinct(s)
  PROVE  Len(s) <= Cardinality(Item) /\ Cardinality(Item) \in Nat
<1>1. s \in Injection(1..Len(s), Item)
  BY DEF Distinct, Injection, IsInjective
<1>2. Cardinality(1..Len(s)) <= Cardinality(Item) /\ Cardinality(1..Len(s)) = Len(s)
  BY <1>1, ItemAssumption, FS_Injection, FS_Interval
<1> QED
  BY <1>2, ItemAssumption, FS_CardinalityType

\* Listed is the sequence that the links represent.
ListedIsLinked == \A s \in Seq(Item) : Distinct(s) /\ Linked(s) => Listed = s

LEMMA ListedIs == ListedIsLinked
<1> SUFFICES ASSUME NEW s \in Seq(Item), Distinct(s), Linked(s) PROVE Listed = s
  BY DEF ListedIsLinked
<1>1. CASE s = <<>>
  BY <1>1 DEF Linked, Listed
<1>2. CASE s # <<>>
  <2> DEFINE All == UNION {Walks(n) : n \in 1..Cardinality(Item)}
  <2>1. child # NULL
    BY <1>2, ItemAssumption DEF Linked
  <2>2. s \in All /\ next[s[Len(s)]] = NULL
    <3>1. Len(s) \in 1..Len(s)
      BY <1>2
    <3>2. [i \in 1..Len(s) |-> s[i]] \in Walks(Len(s)) /\ s = [i \in 1..Len(s) |-> s[i]]
      BY <3>1, PrefixIsWalk
    <3>3. Len(s) \in 1..Cardinality(Item)
      BY <3>1, ShortEnough
    <3> QED
      BY <3>1, <3>2, <3>3 DEF Linked
  <2>3. ASSUME NEW p \in All, next[p[Len(p)]] = NULL PROVE p = s
    <3>1. PICK n \in 1..Cardinality(Item) : p \in Walks(n)
      OBVIOUS
    <3>2. Cardinality(Item) \in Nat
      BY ShortEnough
    <3>3. n <= Len(s) /\ \A i \in 1..n : p[i] = s[i]
      BY <3>1, <3>2, WalkIsPrefix
    <3>4. p \in [1..n -> Item] /\ Len(p) = n
      <4>1. p \in [1..n -> Item]
        BY <3>1 DEF Walks
      <4> QED
        BY <3>1, <3>2, <4>1
    <3>5. next[s[n]] = NULL /\ n \in 1..Len(s)
      BY <2>3, <3>2, <3>3, <3>4
    <3>6. n = Len(s)
      <4>1. n # Len(s) => next[s[n]] \in Item
        BY <3>5 DEF Linked
      <4> QED
        BY <3>5, <4>1, ItemAssumption
    <3> QED
      BY <3>3, <3>4, <3>6
  <2> HIDE DEF All
  <2>4. (CHOOSE p \in All : next[p[Len(p)]] = NULL) = s
    BY <2>2, <2>3
  <2> QED
    BY <2>1, <2>4 DEF Listed, All
<1> QED
  BY <1>1, <1>2

(***************************************************************************)
(* Changing the list.                                                      *)
(***************************************************************************)
\* An item that is not in the list is put in: after k others.
LEMMA LinkedWith ==
  ASSUME Links, NEW s \in Seq(Item), Distinct(s), Linked(s), NEW x \in Item \ live,
         NEW k \in 0..Len(s),
         live' = live \cup {x},
         \/ k = 0 /\ s = <<>> /\ LinkFirst(x)
         \/ k = Len(s) /\ s # <<>> /\ LinkLast(x)
         \/ k < Len(s) /\ LinkBefore(x, s[k + 1])
  PROVE  Links' /\ Linked(With(s, k, x))'
<1> DEFINE t == With(s, k, x)
<1>1. /\ t \in Seq(Item) /\ Len(t) = Len(s) + 1
      /\ \A i \in 1..(Len(s) + 1) :
           t[i] = IF i <= k THEN s[i] ELSE IF i = k + 1 THEN x ELSE s[i - 1]
      /\ {t[i] : i \in 1..(Len(s) + 1)} = {s[i] : i \in 1..Len(s)} \cup {x}
  <2>1. x \notin {s[i] : i \in 1..Len(s)}
    BY DEF Linked
  <2>2. \A i \in 1..(Len(s) + 1) :
          t[i] = IF i <= k THEN s[i] ELSE IF i = k + 1 THEN x ELSE s[i - 1]
    BY DEF With
  <2>3. /\ t \in Seq(Item) /\ Len(t) = Len(s) + 1
        /\ {t[i] : i \in 1..(Len(s) + 1)} = {s[i] : i \in 1..Len(s)} \cup {x}
    BY <2>1, WithDistinct
  <2> HIDE DEF t
  <2> QED
    BY <2>2, <2>3
<1>2. /\ \A i \in 1..Len(s) : s[i] \in Item /\ s[i] # x /\ s[i] # NULL
      /\ x # NULL
  BY ItemAssumption DEF Linked
<1>3. live' = {t[i] : i \in 1..Len(t)}
  BY <1>1 DEF Linked
<1> HIDE DEF t
<1>4. SUFFICES /\ Links' /\ child' = t[1]
               /\ \A i \in 1..(Len(s) + 1) :
                    /\ next'[t[i]] = IF i = Len(s) + 1 THEN NULL ELSE t[i + 1]
                    /\ prev'[t[i]] = IF i = 1 THEN t[Len(s) + 1] ELSE t[i - 1]
  <2>1. t # <<>>
    BY <1>1
  <2> QED
    BY <1>1, <1>3, <2>1 DEF Linked, t
<1> DEFINE n == Len(s)
<1>5. CASE k = 0 /\ s = <<>> /\ LinkFirst(x)
  <2>1. n = 0 /\ t[1] = x
    BY <1>1, <1>5
  <2>2. child' = x /\ next' = [next EXCEPT ![x] = NULL] /\ prev' = [prev EXCEPT ![x] = x]
    BY <1>5 DEF LinkFirst, Zeroed, Links
  <2>3. Links' /\ next'[x] = NULL /\ prev'[x] = x
    BY <2>2 DEF Links
  <2> QED
    BY <2>1, <2>2, <2>3
<1>6. CASE k = Len(s) /\ s # <<>> /\ LinkLast(x)
  <2>1. n \in 1..n /\ prev[child] = s[n] /\ child = s[1] /\ s[n] \in Item /\ s[1] \in Item
    BY <1>2, <1>6 DEF Linked
  <2>2. /\ child' = s[1]
        /\ next' = [next EXCEPT ![x] = NULL, ![s[n]] = x]
        /\ prev' = [prev EXCEPT ![x] = s[n], ![s[1]] = x]
    BY <1>2, <1>6, <2>1 DEF LinkLast, LeaveOut, Zeroed, Links
  <2>3. /\ Links'
        /\ \A y \in Item : next'[y] = IF y = s[n] THEN x ELSE IF y = x THEN NULL ELSE next[y]
        /\ \A y \in Item : prev'[y] = IF y = s[1] THEN x ELSE IF y = x THEN s[n] ELSE prev[y]
    BY <2>1, <2>2 DEF Links
  <2>4. \A i \in 1..n : t[i] = s[i]
    BY <1>1, <1>6
  <2>5. t[n + 1] = x
    BY <1>1, <1>6
  <2>6. ASSUME NEW i \in 1..n
        PROVE  /\ next'[t[i]] = t[i + 1]
               /\ prev'[t[i]] = IF i = 1 THEN t[n + 1] ELSE t[i - 1]
    <3>1. s[i] \in Item /\ s[i] # x /\ t[i] = s[i]
      BY <1>2, <2>4
    <3>2. next'[s[i]] = t[i + 1]
      <4>1. CASE i = n
        BY <2>3, <2>5, <3>1, <4>1
      <4>2. CASE i # n
        <5>1. s[i] # s[n] /\ i + 1 \in 1..n
          BY <4>2, <2>1 DEF Distinct
        <5> QED
          BY <2>3, <2>4, <3>1, <4>2, <5>1 DEF Linked
      <4> QED
        BY <4>1, <4>2
    <3>3. prev'[s[i]] = IF i = 1 THEN t[n + 1] ELSE t[i - 1]
      <4>1. CASE i = 1
        BY <2>3, <2>5, <3>1, <4>1
      <4>2. CASE i # 1
        <5>1. s[i] # s[1] /\ i - 1 \in 1..n
          BY <4>2, <2>1 DEF Distinct
        <5> QED
          BY <2>3, <2>4, <3>1, <4>2, <5>1 DEF Linked
      <4> QED
        BY <4>1, <4>2
    <3> QED
      BY <3>1, <3>2, <3>3
  <2>7. next'[t[n + 1]] = NULL /\ prev'[t[n + 1]] = t[n]
    BY <1>2, <2>1, <2>3, <2>4, <2>5
  <2>8. child' = t[1]
    BY <2>1, <2>2, <2>4
  <2>9. \A i \in 1..(n + 1) : i \in 1..n \/ (i = n + 1 /\ i - 1 = n /\ i # 1)
    BY <2>1
  <2> QED
    BY <2>1, <2>3, <2>6, <2>7, <2>8, <2>9
<1>7. CASE k < Len(s) /\ LinkBefore(x, s[k + 1])
  <2>1. /\ k + 1 \in 1..n /\ n \in 1..n /\ 1 \in 1..n /\ s[k + 1] \in Item
        /\ prev[s[k + 1]] = IF k = 0 THEN s[n] ELSE s[k]
        /\ s[k + 1] = child <=> k = 0
    <3>1. k + 1 \in 1..n /\ 1 \in 1..n /\ n \in 1..n /\ child = s[1]
      BY <1>7 DEF Linked
    <3> QED
      BY <1>2, <3>1 DEF Linked, Distinct
  <2>2. /\ Links'
        /\ \A z \in Item : next'[z] = IF z = x THEN s[k + 1]
                                      ELSE IF k # 0 /\ z = s[k] THEN x ELSE next[z]
        /\ \A z \in Item : prev'[z] = IF z = s[k + 1] THEN x
                                      ELSE IF z = x THEN prev[s[k + 1]] ELSE prev[z]
        /\ child' = IF k = 0 THEN x ELSE child
    BY <1>7, <2>1 DEF LinkBefore, Links
  <2>3. \A i \in 1..n :
          /\ next'[s[i]] = IF i = k THEN x ELSE next[s[i]]
          /\ prev'[s[i]] = IF i = k + 1 THEN x ELSE prev[s[i]]
    <3> SUFFICES ASSUME NEW i \in 1..n
                 PROVE  /\ next'[s[i]] = IF i = k THEN x ELSE next[s[i]]
                        /\ prev'[s[i]] = IF i = k + 1 THEN x ELSE prev[s[i]]
      OBVIOUS
    <3>1. k # 0 => (s[i] = s[k] <=> i = k)
      BY DEF Distinct
    <3>2. s[i] = s[k + 1] <=> i = k + 1
      BY <2>1 DEF Distinct
    <3> QED
      BY <1>2, <2>2, <3>1, <3>2
  <2>4. next'[x] = s[k + 1] /\ prev'[x] = IF k = 0 THEN s[n] ELSE s[k]
    BY <1>2, <2>1, <2>2
  <2>5. t[n + 1] = s[n]
    BY <1>1, <1>7
  <2>6. ASSUME NEW i \in 1..(n + 1)
        PROVE  /\ next'[t[i]] = IF i = n + 1 THEN NULL ELSE t[i + 1]
               /\ prev'[t[i]] = IF i = 1 THEN t[n + 1] ELSE t[i - 1]
    <3>1. CASE i <= k
      <4>1. i \in 1..n /\ i # n /\ i # n + 1 /\ t[i] = s[i] /\ i # k + 1
        BY <1>1, <1>7, <3>1
      <4>2. next'[s[i]] = IF i = k THEN x ELSE s[i + 1]
        BY <2>3, <4>1 DEF Linked
      <4>3. t[i + 1] = IF i = k THEN x ELSE s[i + 1]
        BY <1>1, <3>1, <4>1
      <4>4. prev'[s[i]] = IF i = 1 THEN s[n] ELSE s[i - 1]
        BY <2>3, <4>1 DEF Linked
      <4>5. i # 1 => t[i - 1] = s[i - 1]
        BY <1>1, <3>1
      <4> QED
        BY <2>5, <4>1, <4>2, <4>3, <4>4, <4>5
    <3>2. CASE i = k + 1
      <4>1. t[i] = x /\ i # n + 1 /\ t[i + 1] = s[k + 1]
        BY <1>1, <1>7, <3>2
      <4>2. i # 1 => k # 0 /\ t[i - 1] = s[k]
        BY <1>1, <3>2
      <4>3. i = 1 <=> k = 0
        BY <3>2
      <4> QED
        BY <2>4, <2>5, <4>1, <4>2, <4>3
    <3>3. CASE i > k + 1
      <4>1. /\ i - 1 \in 1..n /\ t[i] = s[i - 1] /\ i # 1 /\ i - 1 # k
            /\ i # n + 1 => t[i + 1] = s[i]
        <5>1. i - 1 \in 1..n /\ i # 1 /\ i - 1 # k
          BY <1>1, <3>3
        <5>2. t[i] = s[i - 1]
          BY <1>1, <3>3
        <5>3. ASSUME i # n + 1 PROVE t[i + 1] = s[i]
          <6>1. /\ i + 1 \in 1..(Len(s) + 1) /\ (i + 1) - 1 = i
                /\ ~(i + 1 <= k) /\ i + 1 # k + 1
            BY <3>3, <5>3
          <6>2. t[i + 1] = s[(i + 1) - 1]
            BY <1>1, <6>1
          <6> QED
            BY <6>1, <6>2
        <5> QED
          BY <5>1, <5>2, <5>3
      <4>2. next'[s[i - 1]] = IF i = n + 1 THEN NULL ELSE s[i]
        <5>1. next[s[i - 1]] = IF i - 1 = n THEN NULL ELSE s[(i - 1) + 1]
          BY <4>1 DEF Linked
        <5>2. next'[s[i - 1]] = next[s[i - 1]]
          BY <2>3, <4>1
        <5> QED
          BY <3>3, <5>1, <5>2
      <4>3. prev'[s[i - 1]] = IF i - 1 = k + 1 THEN x ELSE s[i - 2]
        BY <2>3, <3>3, <4>1 DEF Linked
      <4>4. t[i - 1] = IF i - 1 = k + 1 THEN x ELSE s[i - 2]
        BY <1>1, <3>3
      <4>5. next'[t[i]] = IF i = n + 1 THEN NULL ELSE t[i + 1]
        BY <4>1, <4>2
      <4>6. prev'[t[i]] = t[i - 1]
        BY <4>1, <4>3, <4>4
      <4> QED
        BY <4>1, <4>5, <4>6
    <3> QED
      BY <3>1, <3>2, <3>3
  <2>7. child' = t[1]
    <3>1. child = s[1]
      BY <2>1 DEF Linked
    <3>2. 1 \in 1..(n + 1) /\ t[1] = IF k = 0 THEN x ELSE s[1]
      BY <1>1, <2>1
    <3> QED
      BY <2>2, <3>1, <3>2
  <2> QED
    BY <2>2, <2>6, <2>7
<1> QED
  BY <1>5, <1>6, <1>7

\* The item at k is taken out and deleted.
LEMMA LinkedWithout ==
  ASSUME Links, NEW s \in Seq(Item), Distinct(s), Linked(s), NEW k \in 0..(Len(s) - 1),
         Unlink(s[k + 1]), live' = live \ {s[k + 1]}
  PROVE  Links' /\ Linked(Without(s, k))'
<1> DEFINE t == Without(s, k)
           n == Len(s)
           x == s[k + 1]
<1>1. /\ t \in Seq(Item) /\ Len(t) = n - 1
      /\ \A i \in 1..(n - 1) : t[i] = s[IF i <= k THEN i ELSE i + 1]
      /\ {t[i] : i \in 1..(n - 1)} = {s[i] : i \in 1..n} \ {x}
  BY WithoutDistinct DEF Without
<1>2. /\ \A i \in 1..n : s[i] \in Item /\ s[i] # NULL
      /\ k + 1 \in 1..n /\ n \in 1..n /\ 1 \in 1..n /\ x \in Item /\ child = s[1]
  BY ItemAssumption DEF Linked
<1>3. live' = {t[i] : i \in 1..Len(t)}
  BY <1>1 DEF Linked
<1>4. /\ next[x] = IF k + 1 = n THEN NULL ELSE s[k + 2]
      /\ prev[x] = IF k = 0 THEN s[n] ELSE s[k]
      /\ x = child <=> k = 0
  BY <1>2 DEF Linked, Distinct
<1>5. /\ Links'
      /\ \A z \in Item : next'[z] = IF z = x THEN NULL
                                    ELSE IF k # 0 /\ z = s[k] THEN next[x] ELSE next[z]
      /\ \A z \in Item : prev'[z] = IF z = x THEN NULL
                                    ELSE IF z = next[x] \/ (k + 1 = n /\ z = s[1]) THEN prev[x]
                                    ELSE prev[z]
      /\ child' = IF k = 0 THEN next[x] ELSE child
  <2>3. Unlink(x)
    OBVIOUS
  <2> HIDE DEF x, n
  <2>1. x # child <=> k # 0
    BY <1>4
  <2>2. next[x] = NULL <=> k + 1 = n
    <3>1. k + 1 # n => k + 2 \in 1..n
      BY <1>2 DEF n
    <3> QED
      BY <1>2, <1>4, <3>1
  <2>4. /\ next' = [i \in Item |->
                     IF i = x THEN NULL
                     ELSE IF x # child /\ i = prev[x] THEN next[x] ELSE next[i]]
        /\ prev' = [i \in Item |->
                     IF i = x THEN NULL
                     ELSE IF i = next[x] \/ (next[x] = NULL /\ i = child) THEN prev[x]
                     ELSE prev[i]]
        /\ child' = IF x = child THEN next[x] ELSE child
    BY <2>3 DEF Unlink
  <2>5. Links'
    BY <1>2, <2>4 DEF Links
  <2>6. k # 0 => prev[x] = s[k]
    BY <1>4
  <2> QED
    BY <1>2, <2>1, <2>2, <2>4, <2>5, <2>6
<1>6. \A i \in 1..n : i # k + 1 =>
        /\ next'[s[i]] = IF i = k THEN next[x] ELSE next[s[i]]
        /\ prev'[s[i]] = IF i = k + 2 \/ (k + 1 = n /\ i = 1) THEN prev[x] ELSE prev[s[i]]
  <2> SUFFICES ASSUME NEW i \in 1..n, i # k + 1
               PROVE  /\ next'[s[i]] = IF i = k THEN next[x] ELSE next[s[i]]
                      /\ prev'[s[i]] = IF i = k + 2 \/ (k + 1 = n /\ i = 1) THEN prev[x]
                                       ELSE prev[s[i]]
    OBVIOUS
  <2>1. s[i] # x /\ (s[i] = s[1] <=> i = 1)
    BY <1>2 DEF Distinct
  <2>2. k # 0 => (s[i] = s[k] <=> i = k)
    BY DEF Distinct
  <2>3. s[i] = next[x] <=> i = k + 2
    <3>1. CASE k + 1 = n
      BY <1>2, <1>4, <3>1
    <3>2. CASE k + 1 # n
      <4>1. k + 2 \in 1..n
        BY <1>2, <3>2
      <4> QED
        BY <1>4, <3>2, <4>1 DEF Distinct
    <3> QED
      BY <3>1, <3>2
  <2> HIDE DEF x, n
  <2> QED
    BY <1>2, <1>5, <2>1, <2>2, <2>3
<1> HIDE DEF t, x
<1>7. SUFFICES /\ child' = IF n = 1 THEN NULL ELSE t[1]
               /\ \A i \in 1..(n - 1) :
                    /\ next'[t[i]] = IF i = n - 1 THEN NULL ELSE t[i + 1]
                    /\ prev'[t[i]] = IF i = 1 THEN t[n - 1] ELSE t[i - 1]
  <2>1. t = <<>> <=> n = 1
    BY <1>1, <1>2
  <2> QED
    <3>1. Linked(t)'
      BY <1>1, <1>3, <2>1 DEF Linked
    <3> QED
      BY <1>5, <3>1 DEF t
<1>8. child' = IF n = 1 THEN NULL ELSE t[1]
  <2>1. CASE k = 0
    <3>1. n # 1 => t[1] = s[2] /\ next[x] = s[2]
      BY <1>1, <1>2, <1>4, <2>1
    <3> QED
      BY <1>4, <1>5, <2>1, <3>1
  <2>2. CASE k # 0
    BY <1>1, <1>2, <1>5, <2>2
  <2> QED
    BY <2>1, <2>2
<1>9. ASSUME NEW i \in 1..(n - 1)
      PROVE  /\ next'[t[i]] = IF i = n - 1 THEN NULL ELSE t[i + 1]
             /\ prev'[t[i]] = IF i = 1 THEN t[n - 1] ELSE t[i - 1]
  <2>1. CASE i <= k
    <3>1. t[i] = s[i] /\ i \in 1..n /\ i # k + 1 /\ i # n /\ i # k + 2 /\ k # 0
      BY <1>1, <2>1
    <3>2. next'[s[i]] = IF i = k THEN next[x] ELSE s[i + 1]
      BY <1>6, <3>1 DEF Linked
    <3>3. next'[s[i]] = IF i = n - 1 THEN NULL ELSE t[i + 1]
      <4>1. CASE i = k /\ k + 1 # n
        <5>1. t[k + 1] = s[k + 2] /\ i # n - 1
          BY <1>1, <1>2, <4>1
        <5> QED
          BY <1>4, <3>2, <4>1, <5>1
      <4>2. CASE i = k /\ k + 1 = n
        BY <1>4, <3>2, <4>2
      <4>3. CASE i # k
        <5>1. i # n - 1 /\ t[i + 1] = s[i + 1]
          BY <1>1, <1>2, <2>1, <4>3
        <5> QED
          BY <3>2, <4>3, <5>1
      <4> QED
        BY <4>1, <4>2, <4>3
    <3>4. prev'[s[i]] = IF i = 1 THEN (IF k + 1 = n THEN s[k] ELSE s[n]) ELSE s[i - 1]
      BY <1>4, <1>6, <3>1 DEF Linked
    <3>5. t[n - 1] = IF k + 1 = n THEN s[k] ELSE s[n]
      <4>1. n - 1 \in 1..(n - 1) /\ (n - 1 <= k <=> k + 1 = n) /\ (k + 1 = n => n - 1 = k)
        BY <1>2, <2>1
      <4> QED
        BY <1>1, <4>1
    <3>6. i # 1 => t[i - 1] = s[i - 1]
      BY <1>1, <2>1
    <3> QED
      BY <3>1, <3>3, <3>4, <3>5, <3>6
  <2>2. CASE ~(i <= k)
    <3>1. /\ t[i] = s[i + 1] /\ i + 1 \in 1..n /\ i + 1 # k + 1 /\ i + 1 # 1 /\ i + 1 # k
          /\ k + 1 # n
      BY <1>1, <2>2
    <3>2. next'[s[i + 1]] = IF i + 1 = n THEN NULL ELSE s[i + 2]
      BY <1>6, <3>1 DEF Linked
    <3>3. i # n - 1 => t[i + 1] = s[i + 2]
      BY <1>1, <2>2
    <3>4. prev'[s[i + 1]] = IF i = k + 1 THEN (IF k = 0 THEN s[n] ELSE s[k]) ELSE s[i]
      BY <1>4, <1>6, <3>1 DEF Linked
    <3>5. CASE i = k + 1 /\ k = 0
      <4>1. n - 1 \in 1..(n - 1) /\ ~(n - 1 <= k)
        BY <1>2, <3>1, <3>5
      <4>2. t[n - 1] = s[n] /\ i = 1
        BY <1>1, <3>5, <4>1
      <4> QED
        BY <3>1, <3>2, <3>3, <3>4, <3>5, <4>2
    <3>6. CASE i = k + 1 /\ k # 0
      <4>1. t[k] = s[k] /\ i # 1 /\ i - 1 = k
        BY <1>1, <1>2, <3>6
      <4> QED
        BY <3>1, <3>2, <3>3, <3>4, <3>6, <4>1
    <3>7. CASE i # k + 1
      <4>1. t[i - 1] = s[i] /\ i # 1
        BY <1>1, <2>2, <3>7
      <4> QED
        BY <3>1, <3>2, <3>3, <3>4, <3>7, <4>1
    <3> QED
      BY <3>5, <3>6, <3>7
  <2> QED
    BY <2>1, <2>2
<1> QED
  BY <1>8, <1>9

\* What cJSON_Delete frees: one item when it leads nowhere, the whole list
\* from its first item.
LastLeadsNowhere == \A x \in Item : next[x] = NULL => From(x) = {x}

LEMMA FromLast == LastLeadsNowhere
<1> SUFFICES ASSUME NEW x \in Item, next[x] = NULL PROVE From(x) = {x}
  BY DEF LastLeadsNowhere
<1>1. {x} \in SUBSET Item /\ x \in {x} /\ Closed({x})
  BY DEF Closed
<1>2. \A y \in From(x) : y \in {x}
  BY <1>1 DEF From
<1>3. x \in From(x)
  BY DEF From
<1> QED
  BY <1>2, <1>3

LEMMA FromFirst ==
  ASSUME NEW s \in Seq(Item), Linked(s), s # <<>>
  PROVE  live \subseteq From(child)
<1> SUFFICES ASSUME NEW S \in SUBSET Item, s[1] \in S, Closed(S), NEW i \in 1..Len(s)
             PROVE  s[i] \in S
  <2>1. child = s[1] /\ live = {s[i] : i \in 1..Len(s)}
    BY DEF Linked
  <2>2. \A i \in 1..Len(s) : s[i] \in Item
    OBVIOUS
  <2>3. \A i \in 1..Len(s) : s[i] \in From(s[1])
    BY <2>2 DEF From
  <2> QED
    BY <2>1, <2>3
<1> DEFINE Bad == {j \in 1..Len(s) : s[j] \notin S}
<1>1. ASSUME Bad # {} PROVE FALSE
  <2>1. PICK m \in Bad : \A l \in Bad : ~(<<l, m>> \in OpToRel(<, Nat))
    <3>1. Bad \subseteq Nat
      OBVIOUS
    <3> HIDE DEF Bad
    <3> QED
      BY <1>1, <3>1, NatLessThanWellFounded, WFMin
  <2>2. m \in 2..Len(s) /\ m - 1 \in 1..Len(s) /\ m - 1 # Len(s)
    OBVIOUS
  <2>3. m - 1 \notin Bad
    <3>1. <<m - 1, m>> \in OpToRel(<, Nat)
      BY <2>2 DEF OpToRel
    <3> HIDE DEF Bad
    <3> QED
      BY <2>1, <3>1
  <2>4. s[m - 1] \in S /\ next[s[m - 1]] = s[m] /\ s[m] # NULL
    <3>1. next[s[m - 1]] = s[(m - 1) + 1]
      BY <2>2 DEF Linked
    <3> QED
      BY <2>2, <2>3, <3>1, ItemAssumption
  <2>5. m \notin Bad
    BY <2>4 DEF Closed
  <2> QED
    BY <2>5
<1> QED
  BY <1>1

LEMMA BuildLinked ==
  ASSUME Links, NEW s \in Orders, Build(s)
  PROVE  s \in Seq(Item) /\ Distinct(s) /\ Links' /\ Linked(s)'
<1> DEFINE Place(x) == CHOOSE i \in DOMAIN s : s[i] = x
           made     == {s[i] : i \in DOMAIN s}
<1>1. PICK m \in 1..Cardinality(Item) : s \in [1..m -> Item]
  BY DEF Orders
<1>2. /\ s \in Seq(Item) /\ Len(s) = m /\ m \in Nat \ {0} /\ DOMAIN s = 1..Len(s)
      /\ Distinct(s) /\ s # <<>>
  <2>1. Cardinality(Item) \in Nat
    BY ItemAssumption, FS_CardinalityType
  <2> QED
    BY <1>1, <2>1 DEF Orders, Distinct
<1>3. \A i \in 1..Len(s) : s[i] \in Item /\ s[i] \in made /\ Place(s[i]) = i
  BY <1>1, <1>2 DEF Distinct
<1>4. /\ live' = made /\ child' = s[1]
      /\ next' = [x \in Item |->
                   IF x \notin made THEN next[x]
                   ELSE IF Place(x) = Len(s) THEN NULL ELSE s[Place(x) + 1]]
      /\ prev' = [x \in Item |->
                   IF x \notin made THEN prev[x]
                   ELSE IF Place(x) = 1 THEN s[Len(s)] ELSE s[Place(x) - 1]]
  BY DEF Build
<1>5. \A x \in made : x \in Item /\ Place(x) \in 1..Len(s)
  BY <1>2, <1>3
<1>6. made = {s[i] : i \in 1..Len(s)}
  BY <1>2
<1> HIDE DEF Place, made
<1>7. Links'
  <2>1. \A x \in Item : next'[x] \in Item \cup {NULL}
    BY <1>2, <1>4, <1>5 DEF Links
  <2>2. \A x \in Item : prev'[x] \in Item \cup {NULL}
    BY <1>2, <1>4, <1>5 DEF Links
  <2> QED
    BY <1>4, <2>1, <2>2 DEF Links
<1>8. \A i \in 1..Len(s) :
        /\ next'[s[i]] = IF i = Len(s) THEN NULL ELSE s[i + 1]
        /\ prev'[s[i]] = IF i = 1 THEN s[Len(s)] ELSE s[i - 1]
  BY <1>3, <1>4
<1>9. Linked(s)'
  BY <1>2, <1>4, <1>6, <1>8 DEF Linked
<1> QED
  BY <1>2, <1>7, <1>9

(***************************************************************************)
(* Steps.                                                                  *)
(***************************************************************************)
\* What a call may do to the sequence.
Edits(s, t) ==
  \/ t = s
  \/ \E x \in Item \ {s[i] : i \in 1..Len(s)}, k \in 0..Len(s) : t = With(s, k, x)
  \/ \E k \in 0..(Len(s) - 1) : t = Without(s, k)
  \/ s = <<>>
  \/ t = <<>>

Simulates(s) ==
  \E t \in Seq(Item) : Distinct(t) /\ Linked(t)' /\ Edits(s, t)

LEMMA PutInSimulates ==
  ASSUME Links, NEW s \in Seq(Item), Distinct(s), Linked(s), NEW x \in Item, Alloc(x),
         NEW k \in 0..Len(s),
         \/ k = 0 /\ s = <<>> /\ LinkFirst(x)
         \/ k = Len(s) /\ s # <<>> /\ LinkLast(x)
         \/ k < Len(s) /\ LinkBefore(x, s[k + 1])
  PROVE  Links' /\ Simulates(s)
<1>1. x \in Item \ live /\ live' = live \cup {x} /\ x \in Item \ {s[i] : i \in 1..Len(s)}
  BY DEF Alloc, Linked
<1>2. Links' /\ Linked(With(s, k, x))'
  BY <1>1, LinkedWith
<1>3. With(s, k, x) \in Seq(Item) /\ Distinct(With(s, k, x))
  BY <1>1, WithDistinct
<1> QED
  BY <1>1, <1>2, <1>3 DEF Simulates, Edits

LEMMA AddSimulates ==
  ASSUME Links, NEW s \in Seq(Item), Distinct(s), Linked(s), NEW x \in Item, Alloc(x),
         AddToList(x)
  PROVE  Links' /\ Simulates(s)
<1>1. s = <<>> <=> child = NULL
  BY ItemAssumption DEF Linked
<1>2. CASE LinkFirst(x)
  <2>1. s = <<>> /\ 0 \in 0..Len(s)
    BY <1>1, <1>2 DEF LinkFirst
  <2> QED
    BY <1>2, <2>1, PutInSimulates
<1>3. CASE LinkLast(x)
  <2>1. s # <<>> /\ Len(s) \in 0..Len(s)
    BY <1>1, <1>3 DEF LinkLast
  <2> QED
    BY <1>3, <2>1, PutInSimulates
<1> QED
  BY <1>2, <1>3 DEF AddToList

LEMMA StepSimulates ==
  ASSUME Links, NEW s \in Seq(Item), Distinct(s), Linked(s), [Next]_vars
  PROVE  Links' /\ Simulates(s)
<1>1. ASSUME NEW x \in Item, Add(x) PROVE Links' /\ Simulates(s)
  BY <1>1, AddSimulates DEF Add
<1>2. ASSUME NEW w \in 0..MaxIndex, NEW x \in Item, PutAt(w, x) PROVE Links' /\ Simulates(s)
  <2>1. w \in Nat
    BY IndexAssumption
  <2>2. ItemAt(w) = IF w < Len(s) THEN s[w + 1] ELSE NULL
    BY <2>1, ItemAtIs
  <2>3. CASE w < Len(s)
    <3>1. w \in 0..Len(s) /\ s[w + 1] # NULL
      BY <2>1, <2>3, ItemAssumption
    <3>2. Alloc(x) /\ LinkBefore(x, s[w + 1])
      BY <1>2, <2>2, <2>3, <3>1 DEF PutAt
    <3> QED
      BY <2>3, <3>1, <3>2, PutInSimulates
  <2>4. CASE ~(w < Len(s))
    <3>1. Alloc(x) /\ AddToList(x)
      BY <1>2, <2>2, <2>4 DEF PutAt
    <3> QED
      BY <3>1, AddSimulates
  <2> QED
    BY <2>3, <2>4
<1>3. ASSUME NEW w \in 0..MaxIndex, NEW x \in Item, Insert(w, x) \/ PatchInsert(w, x)
      PROVE  Links' /\ Simulates(s)
  <2>1. w \in Nat
    BY IndexAssumption
  <2>2. ItemAt(w) = IF w < Len(s) THEN s[w + 1] ELSE NULL
    BY <2>1, ItemAtIs
  <2>3. ItemAt(w) # NULL => prev[ItemAt(w)] # NULL
    <3> SUFFICES ASSUME w < Len(s) PROVE prev[s[w + 1]] # NULL
      BY <2>2
    <3>1. \A i \in 1..Len(s) : s[i] \in Item
      OBVIOUS
    <3>2. prev[s[w + 1]] = IF w + 1 = 1 THEN s[Len(s)] ELSE s[w + 1 - 1]
      BY <2>1 DEF Linked
    <3>3. prev[s[w + 1]] \in Item
      BY <2>1, <3>1, <3>2
    <3> QED
      BY <3>3, ItemAssumption
  <2>4. PutAt(w, x)
    BY <1>3, <2>3 DEF Insert, PatchInsert
  <2> QED
    BY <1>2, <2>4
<1>4. ASSUME NEW w \in 0..MaxIndex, Delete(w) PROVE Links' /\ Simulates(s)
  <2>1. w \in Nat
    BY IndexAssumption
  <2>2. PICK x \in Item : x = ItemAt(w) /\ Unlink(x) /\ live' = live \ From(x)'
    BY <1>4 DEF Delete
  <2>3. w \in 0..(Len(s) - 1) /\ x = s[w + 1]
    BY <2>1, <2>2, ItemAtIs, ItemAssumption
  <2>4. From(x)' = {x}
    <3>1. LastLeadsNowhere'
      BY FromLast, PTL
    <3>2. next'[x] = NULL
      BY <2>2 DEF Unlink
    <3> QED
      BY <3>1, <3>2 DEF LastLeadsNowhere
  <2>5. Links' /\ Linked(Without(s, w))'
    BY <2>2, <2>3, <2>4, LinkedWithout
  <2>6. Without(s, w) \in Seq(Item) /\ Distinct(Without(s, w))
    BY <2>3, WithoutDistinct
  <2> QED
    BY <2>3, <2>5, <2>6 DEF Simulates, Edits
<1>5. ASSUME NEW t \in Orders, Build(t) PROVE Links' /\ Simulates(s)
  <2>1. s = <<>>
    BY <1>5, ItemAssumption DEF Build, Linked
  <2> QED
    BY <1>5, <2>1, BuildLinked DEF Simulates, Edits
<1>6. CASE Clear
  <2>1. s # <<>>
    BY <1>6 DEF Clear, Linked
  <2>2. live' = {} /\ child' = NULL /\ UNCHANGED <<next, prev>>
    BY <1>6, <2>1, FromFirst DEF Clear
  <2>3. Links' /\ Linked(<<>>)'
    BY <2>2 DEF Links, Linked
  <2>4. <<>> \in Seq(Item) /\ Distinct(<<>>)
    BY DEF Distinct
  <2> QED
    BY <2>3, <2>4 DEF Simulates, Edits
<1>7. CASE UNCHANGED vars
  <2>1. Links' /\ Linked(s)'
    BY <1>7 DEF vars, Links, Linked
  <2> QED
    BY <2>1 DEF Simulates, Edits
<1> QED
  BY <1>1, <1>2, <1>3, <1>4, <1>5, <1>6, <1>7 DEF Next

(***************************************************************************)
(* The theorems.                                                           *)
(***************************************************************************)
LEMMA InitIInv == Init => IInv /\ Listed = <<>>
<1> SUFFICES ASSUME Init PROVE IInv /\ Listed = <<>>
  OBVIOUS
<1>1. <<>> \in Seq(Item) /\ Distinct(<<>>) /\ Linked(<<>>)
  BY DEF Init, Distinct, Linked
<1>2. Links
  BY DEF Init, Links
<1> QED
  BY <1>1, <1>2, ListedIs DEF IInv, ListedIsLinked

LEMMA NextIInv == IInv /\ [Next]_vars => IInv'
<1> SUFFICES ASSUME IInv, [Next]_vars PROVE IInv'
  OBVIOUS
<1>1. PICK s \in Seq(Item) : Distinct(s) /\ Linked(s)
  BY DEF IInv
<1>2. Links /\ Links' /\ Simulates(s)
  BY <1>1, StepSimulates DEF IInv
<1>3. PICK t \in Seq(Item) : Distinct(t) /\ Linked(t)'
  BY <1>2 DEF Simulates
<1>4. Distinct(t)'
  BY <1>3 DEF Distinct
<1> QED
  BY <1>2, <1>3, <1>4 DEF IInv

LEMMA Invariant == Spec => []IInv
<1> QED
  BY InitIInv, NextIInv, PTL DEF Spec

LEMMA IInvTypeOK == IInv => TypeOK
<1> SUFFICES ASSUME IInv PROVE TypeOK
  OBVIOUS
<1>1. PICK s \in Seq(Item) : Distinct(s) /\ Linked(s)
  BY DEF IInv
<1>2. live \subseteq Item
  BY <1>1 DEF Linked
<1>3. child \in live \cup {NULL}
  BY <1>1 DEF Linked
<1>4. ASSUME NEW x \in live PROVE next[x] \in live \cup {NULL} /\ prev[x] \in live \cup {NULL}
  <2>1. PICK i \in 1..Len(s) : x = s[i]
    BY <1>1 DEF Linked
  <2> QED
    BY <1>1, <2>1 DEF Linked
<1> QED
  BY <1>2, <1>3, <1>4 DEF IInv, Links, TypeOK

LEMMA IInvWellLinked == IInv => WellLinked
<1> SUFFICES ASSUME IInv PROVE WellLinked
  OBVIOUS
<1>1. PICK s \in Seq(Item) : Distinct(s) /\ Linked(s)
  BY DEF IInv
<1>2. Listed = s /\ DOMAIN s = 1..Len(s)
  BY <1>1, ListedIs DEF ListedIsLinked
<1> QED
  BY <1>1, <1>2 DEF WellLinked, Linked

\* No call leaves the container, or a child, with a link to a freed item.
THEOREM NothingDangles == Spec => []TypeOK
<1> QED
  BY Invariant, IInvTypeOK, PTL

\* Every item that is allocated stays in the list, and the backward links
\* stay a ring: the append of the next element finds the last one.
THEOREM ListStaysLinked == Spec => []WellLinked
<1> QED
  BY Invariant, IInvWellLinked, PTL

LEMMA StepIsListStep == IInv /\ [Next]_vars => [List!Next]_Listed
<1> SUFFICES ASSUME IInv, [Next]_vars PROVE [List!Next]_Listed
  OBVIOUS
<1>1. PICK s \in Seq(Item) : Distinct(s) /\ Linked(s)
  BY DEF IInv
<1>2. PICK t \in Seq(Item) : Distinct(t) /\ Linked(t)' /\ Edits(s, t)
  BY <1>1, StepSimulates DEF IInv, Simulates
<1>3. Listed = s
  BY <1>1, ListedIs DEF ListedIsLinked
<1>4. Listed' = t
  <2>1. ListedIsLinked'
    BY ListedIs, PTL
  <2>2. Distinct(t)'
    BY <1>2 DEF Distinct
  <2> QED
    BY <1>2, <2>1, <2>2 DEF ListedIsLinked
<1>5. List!Unused = Item \ {s[i] : i \in 1..Len(s)}
  BY <1>3 DEF List!Unused
<1>6. ASSUME NEW x \in Item \ {s[i] : i \in 1..Len(s)}, NEW k \in 0..Len(s), t = With(s, k, x)
      PROVE  List!Next
  <2>1. CASE k = Len(s)
    <3>1. t = Append(s, x)
      <4>1. /\ t \in Seq(Item) /\ Append(s, x) \in Seq(Item) /\ Len(t) = Len(s) + 1
            /\ \A i \in 1..(Len(s) + 1) : t[i] = IF i <= Len(s) THEN s[i] ELSE x
        BY <1>6, <2>1 DEF With
      <4>2. /\ Len(Append(s, x)) = Len(s) + 1
            /\ \A i \in 1..Len(s) : Append(s, x)[i] = s[i]
            /\ Append(s, x)[Len(s) + 1] = x
        BY AppendProperties
      <4>3. \A i \in 1..Len(t) : t[i] = Append(s, x)[i]
        BY <4>1, <4>2
      <4> QED
        BY <4>1, <4>2, <4>3, SeqEqual
    <3> QED
      BY <1>3, <1>4, <1>5, <3>1 DEF List!Next, List!Add
  <2>2. CASE k # Len(s)
    <3>1. k \in 0..(Len(s) - 1) /\ k < Len(s)
      BY <2>2
    <3>2. List!Insert(k, x)
      BY <1>3, <1>4, <1>5, <1>6, <3>1 DEF List!Insert, With
    <3> QED
      BY <1>3, <3>1, <3>2 DEF List!Next
  <2> QED
    BY <2>1, <2>2
<1>7. ASSUME NEW k \in 0..(Len(s) - 1), t = Without(s, k) PROVE List!Next
  <2>1. List!Remove(k)
    BY <1>3, <1>4, <1>7 DEF List!Remove, Without
  <2> QED
    BY <1>3, <2>1 DEF List!Next
<1>8. CASE s = <<>>
  <2>1. List!Build
    BY <1>2, <1>3, <1>4, <1>8 DEF List!Build, Distinct
  <2> QED
    BY <2>1 DEF List!Next
<1>9. CASE t = <<>>
  BY <1>4, <1>9 DEF List!Next, List!Clear
<1> QED
  BY <1>2, <1>3, <1>4, <1>6, <1>7, <1>8, <1>9 DEF Edits

\* Whatever calls are made, the links implement the list of items: an append,
\* an insertion or a removal has its promised effect and no other.
THEOREM LinksImplementList == Spec => ImplementsList
<1>1. Init => List!Init
  BY InitIInv DEF List!Init
<1> QED
  BY <1>1, Invariant, StepIsListStep, PTL DEF Spec, ImplementsList, List!Spec
=============================================================================
