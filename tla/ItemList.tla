------------------------------ MODULE ItemList ------------------------------
(***************************************************************************)
(* What the child list of an array or object promises: a sequence of       *)
(* distinct items, with cJSON's indices, which start at 0.                 *)
(***************************************************************************)
EXTENDS Naturals, Sequences

CONSTANT Item

VARIABLE items

Init == items = <<>>

Unused == Item \ {items[i] : i \in DOMAIN items}

Add(x) == x \in Unused /\ items' = Append(items, x)

\* x goes in at index w, and what was there moves up.
Insert(w, x) ==
  /\ x \in Unused /\ w < Len(items)
  /\ items' = [i \in 1..(Len(items) + 1) |->
                 IF i <= w THEN items[i] ELSE IF i = w + 1 THEN x ELSE items[i - 1]]

Remove(w) ==
  /\ w < Len(items)
  /\ items' = [i \in 1..(Len(items) - 1) |-> items[IF i <= w THEN i ELSE i + 1]]

Clear == items' = <<>>

\* A list that is built at once.
Build ==
  /\ items = <<>>
  /\ items' \in Seq(Item)
  /\ \A i, j \in DOMAIN items' : items'[i] = items'[j] => i = j

Next ==
  \/ \E x \in Item : Add(x) \/ \E w \in 0..(Len(items) - 1) : Insert(w, x)
  \/ \E w \in 0..(Len(items) - 1) : Remove(w)
  \/ Build
  \/ Clear

Spec == Init /\ [][Next]_items
=============================================================================
