--------------------------- MODULE JsonPathSelectors ---------------------------
(***************************************************************************)
(* The selectors of a JSONPath query, but for filters.  A list of items is *)
(* a sequence of addresses: the C code keeps an array of references, with  *)
(* repetitions and in the order in which they are found.  Each selector    *)
(* maps the items it is given to the items it selects.                     *)
(***************************************************************************)
EXTENDS JsonDoc, SequencesExt

Fanout(d, a)   == IF d[a].t \in Container THEN d[a].n ELSE 0
Children(d, a) == [i \in 1..Fanout(d, a) |-> Append(a, i)]

\* Apply select to each item in turn and put the results in a row.
ForEach(items, select(_)) == FlattenSeq([j \in DOMAIN items |-> select(items[j])])

(***************************************************************************)
(* get_object_item looks at any children, of an object or not, and stops   *)
(* at the first one without a name.                                        *)
(***************************************************************************)
Member(d, a, name) ==
  LET hit == {i \in 1..Fanout(d, a) :
                /\ d[Append(a, i)].name = name
                /\ \A j \in 1..(i - 1) : d[Append(a, j)].name \notin {name, NoName}}
  IN [j \in 1..Cardinality(hit) |-> Append(a, CHOOSE i \in hit : TRUE)]

Dot(d, items, name) == ForEach(items, LAMBDA a : Member(d, a, name))
Wild(d, items)      == ForEach(items, LAMBDA a : Children(d, a))

(***************************************************************************)
(* One element, by a C index that counts from the end if it is negative.   *)
(***************************************************************************)
\* Mutant of ItemAt: the size is taken for an index.
ItemAtSize(d, a, i) == IF 0 <= i /\ i <= Fanout(d, a) THEN <<Append(a, i + 1)>> ELSE <<>>

ItemAt(d, a, i) == IF 0 <= i /\ i < Fanout(d, a) THEN <<Append(a, i + 1)>> ELSE <<>>
Element(d, a, i) == ItemAt(d, a, IF i < 0 THEN i + Fanout(d, a) ELSE i)

\* entries are what parse_comp_from_str made of the list; one that is not a
\* number spoils the list.
List(d, a, entries) ==
  IF \A j \in DOMAIN entries : entries[j].t = "number"
  THEN ForEach(entries, LAMBDA e : Element(d, a, e.n))
  ELSE <<>>

(***************************************************************************)
(* Slices.  The code walks along the next or prev pointers while it counts *)
(* lower up or upper down; at is where the pointer stands.  A pointer that *)
(* ran off the end of the list stays there; prev goes round.               *)
(***************************************************************************)
SliceBounds(start, end, step, len) ==
  LET Normal(i)   == IF i >= 0 THEN i ELSE len + i
      Within(i, from, to) == Min({Max({Normal(i), from}), to})
  IN IF step >= 0
     THEN [lower |-> Within(start, 0, len), upper |-> Within(end, 0, len)]
     ELSE [lower |-> Within(end, -1, len - 1), upper |-> Within(start, -1, len - 1)]

RECURSIVE Forward(_, _, _, _, _, _)
Forward(d, a, at, lower, upper, step) ==
  IF lower >= upper THEN <<>>
  ELSE ItemAt(d, a, at)
         \o Forward(d, a, at + Min({step, upper}), lower + step, upper, step)

RECURSIVE Backward(_, _, _, _, _, _)

\* Mutant of Backward: the pointer always goes back one element.
BackwardByOne(d, a, at, lower, upper, step) ==
  IF upper <= lower THEN <<>>
  ELSE ItemAt(d, a, at)
         \o Backward(d, a, (at - 1) % Fanout(d, a), lower, upper + step, step)

Backward(d, a, at, lower, upper, step) ==
  IF upper <= lower THEN <<>>
  ELSE ItemAt(d, a, at)
         \o Backward(d, a, (at - Min({-step, upper})) % Fanout(d, a),
                     lower, upper + step, step)

Slice(d, a, start, end, step) ==
  LET b == SliceBounds(start, end, step, Fanout(d, a))
  IN IF step = 0 THEN <<>>
     ELSE IF step > 0 THEN Forward(d, a, b.lower, b.lower, b.upper, step)
     ELSE Backward(d, a, b.upper, b.lower, b.upper, step)

(***************************************************************************)
(* add_all_decendant: the subtrees of the child of p at position i and of  *)
(* the children behind it, each node after what lies below it.  The        *)
(* selector calls it with the item itself, so that the siblings behind an  *)
(* item count as its descendants.                                          *)
(***************************************************************************)
RECURSIVE AddAllDecendant(_, _, _)
AddAllDecendant(d, p, i) ==
  IF i > Fanout(d, p) THEN <<>>
  ELSE AddAllDecendant(d, Append(p, i), 1) \o <<Append(p, i)>>
         \o AddAllDecendant(d, p, i + 1)

DecendantAll(d, items) ==
  ForEach(items, LAMBDA a :
    IF a = Root THEN AddAllDecendant(d, Root, 1) \o <<Root>>
    ELSE AddAllDecendant(d, Parent(a), a[Len(a)]))

(***************************************************************************)
(* The selectors that take any number of items of any type.                *)
(***************************************************************************)
AnyItems == {"ROOT", "DOT", "DOT_WILD", "INDEX_WILD", "DECENDANT"}

SelectAny(d, items, s) ==
  CASE s.type = "ROOT"                         -> items
    [] s.type = "DOT"                          -> Dot(d, items, s.path)
    [] s.type \in {"DOT_WILD", "INDEX_WILD"}   -> Wild(d, items)
    [] s.type = "DECENDANT"                    -> DecendantAll(d, items)

(***************************************************************************)
(* The selectors that take one item, which must be an array.               *)
(***************************************************************************)
OneArray == {"INDEX", "ARRAY_SLICE", "LIST"}

SelectFromArray(d, a, s) ==
  CASE s.type = "INDEX"       -> Element(d, a, s.index)
    [] s.type = "ARRAY_SLICE" -> Slice(d, a, s.slice[1], s.slice[2], s.slice[3])
    [] s.type = "LIST"        -> List(d, a, s.entries)
=============================================================================
