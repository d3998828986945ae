---------------------------- MODULE JsonPathMeaning ----------------------------
(***************************************************************************)
(* What a path means, said node by node and without lists, brackets or     *)
(* pointers: a node is selected if its parent was and the piece picks it   *)
(* among its siblings.  The properties compare the answers of the engine   *)
(* with this.                                                              *)
(*                                                                         *)
(* A filter piece has, next to its text, the formula the text was written  *)
(* from (`means').  A formula is a unit or [op, l, r, bare]; it is bare    *)
(* when it stands in its surroundings without brackets.                    *)
(***************************************************************************)
EXTENDS JsonPath

UnitOf(t) == [op |-> "unit", unit |-> t]
IsFormula(t) == t.op # "unit"
Bracketed(t) == IsFormula(t) /\ ~t.bare

RECURSIVE Written(_)
Written(t) ==
  LET Part(s) == IF Bracketed(s) THEN <<LeftBracket>> \o Written(s) \o <<RightBracket>>
                                 ELSE Written(s)
  IN IF IsFormula(t) THEN Part(t.l) \o <<[k |-> t.op]>> \o Part(t.r) ELSE <<t.unit>>

FilterPiece(t) == [p |-> "filter", means |-> t,
                   text |-> <<LeftBracket>> \o Written(t) \o <<RightBracket>>]

(***************************************************************************)
(* What a filter means for the node at a.                                  *)
(***************************************************************************)
ValuesOf(d, a, s) ==
  LET NamedBelow(M, name) == {b \in DOMAIN d \ {Root} :
                                Parent(b) \in M /\ d[b].name = name}
      step(M, sel) == NamedBelow(M, sel.path)
  IN CASE s.side = "@"     -> {d[b] : b \in NamedBelow({a}, s.name)}
       [] s.side = "const" -> {s.label}
       [] s.side = "$"     -> {x \in {d[b] : b \in FoldLeft(step, {Root}, s.selectors)} :
                                 x.t \notin Container}

Holds(d, a, u) ==
  IF u.k = "exists" THEN ValuesOf(d, a, At(u.name)) # {}
  ELSE \E x \in ValuesOf(d, a, u.left), y \in ValuesOf(d, a, u.right) :
         FilterCompare(x, y, u.cmp)

RECURSIVE Satisfies(_, _, _)
Satisfies(d, a, t) ==
  CASE t.op = "unit" -> Holds(d, a, t.unit)
    [] t.op = "and"  -> Satisfies(d, a, t.l) /\ Satisfies(d, a, t.r)
    [] t.op = "or"   -> Satisfies(d, a, t.l) \/ Satisfies(d, a, t.r)

(***************************************************************************)
(* What a piece picks among the children of p: the child with C index i.   *)
(***************************************************************************)
InSlice(size, start, end, step, i) ==
  LET Normal(x) == IF x >= 0 THEN x ELSE size + x
      first == IF step > 0 THEN Max({Normal(start), 0}) ELSE Min({Normal(start), size - 1})
  IN IF step > 0 THEN first <= i /\ i < Normal(end) /\ (i - first) % step = 0
     ELSE step < 0 /\ Max({Normal(end), -1}) < i /\ i <= first /\ (first - i) % (-step) = 0

Picks(d, b, p, i) ==
  LET node == Append(p, i + 1)
      size == Fanout(d, p)
      IsIndex(x) == d[p].t = "array" /\ i = (IF x < 0 THEN x + size ELSE x)
  IN CASE b.p \in {"name", "quoted"} -> d[p].t = "object" /\ d[node].name = b.name
       [] b.p \in {"wild", "star"}   -> TRUE
       [] b.p = "index"              -> IsIndex(b.index)
       [] b.p = "list"               -> \E j \in DOMAIN b.entries : IsIndex(b.entries[j].n)
       [] b.p = "slice"              -> /\ d[p].t = "array"
                                        /\ InSlice(size, b.parts[1], b.parts[2], b.parts[3], i)
       [] b.p = "filter"             -> Satisfies(d, node, b.means)

Piece(b) == IF b.p = ".." THEN b.next ELSE b

\* The nodes whose children a piece may pick.
Holding(d, b, M) == IF b.p = ".." THEN {a \in DOMAIN d : \E m \in M : Under(m, a)} ELSE M

RECURSIVE Meant(_, _, _)
Meant(d, q, k) ==
  IF k = 1 THEN {Root}
  ELSE LET from == Holding(d, q[k], Meant(d, q, k - 1))
       IN {a \in DOMAIN d \ {Root} : /\ Parent(a) \in from
                                     /\ Picks(d, Piece(q[k]), Parent(a), a[Len(a)] - 1)}

(***************************************************************************)
(* The paths that get what they mean.  Not among them are                  *)
(*   - a `..' that is not at the start: the siblings behind an item count  *)
(*     as below it;                                                        *)
(*   - a comparison of two members of the item: the values are paired by   *)
(*     their places in two lists, also when an item has but one of them;   *)
(*   - an operator in front of a bracket, unless what is left of it ends   *)
(*     in a bracket and the bracket holds no other;                        *)
(*   - a comparison with >= or <=, which does not compile.                 *)
(***************************************************************************)
RECURSIVE Flat(_)
Flat(t) == IsFormula(t) => ~Bracketed(t.l) /\ ~Bracketed(t.r) /\ Flat(t.l) /\ Flat(t.r)

Ends(l) == Bracketed(l) \/ (IsFormula(l) /\ Bracketed(l.r))

RECURSIVE Orderly(_)
Orderly(t) ==
  IF IsFormula(t)
  THEN Orderly(t.l) /\ Flat(t.r) /\ (Bracketed(t.r) => Ends(t.l))
  ELSE t.unit.k = "comp" => /\ t.unit.cmp \notin {">=", "<="}
                            /\ ~(t.unit.left.side = "@" /\ t.unit.right.side = "@")

RegularPiece(b) ==
  /\ b.p = "slice"  => Len(b.parts) = 3 /\ Omitted \notin ToSet(b.parts)
  /\ b.p = "list"   => \A j \in DOMAIN b.entries : b.entries[j].t = "number"
  /\ b.p = "filter" => "means" \in DOMAIN b /\ Orderly(b.means)
  /\ b.p = ".."     => b.next.p \notin {"quoted", "filter"}

Regular(q) ==
  /\ \A k \in DOMAIN q : RegularPiece(q[k]) /\ RegularPiece(Piece(q[k]))
  /\ \A k \in DOMAIN q : /\ q[k].p = ".."  => k = 2
                         /\ Piece(q[k]).p = "list" => k = Len(q)

\* A path is served if each selector that takes one item is given one.
Served(d, q) ==
  \A k \in 2..Len(q) : Piece(q[k]).p \in {"index", "slice", "list", "filter"} =>
    Cardinality(Holding(d, q[k], Meant(d, q, k - 1))) = 1

(***************************************************************************)
(* Properties.                                                             *)
(***************************************************************************)

\* Items are nodes of the document, and what is left of a path is a part of it.
TypeOK ==
  /\ query = <<>> <=> mode = "idle"
  /\ IsSuffix(text, query)
  /\ mode \in {"idle", "compile", "select", "reply", "error"}
  /\ \A j \in DOMAIN items : items[j] \in DOMAIN doc
  /\ \A j \in DOMAIN selectors : selectors[j].type \in AnyItems \cup OneArray \cup {"FILTER"}

\* A path that is regular compiles, and the items of the answer are the nodes
\* it means, or none if it was not served: the compiler's reordering of
\* filters, the reduction of brackets, && before ||, the bounds of slices and
\* the order in which selectors hand on their items lose and invent nothing.
SelectsWhatIsMeant ==
  Regular(query) =>
    /\ mode # "error"
    /\ mode = "reply" =>
         ToSet(items) = IF Served(doc, query) THEN Meant(doc, query, Len(query)) ELSE {}

\* However a filter is bracketed, and also when it gets something else than it
\* means: an item is in the answer once.  Lists repeat what they name twice, and
\* a second `..' finds nodes from several items above them.
EachItemOnce ==
  (/\ mode = "reply"
   /\ \A k \in DOMAIN query : /\ Piece(query[k]).p # "list"
                              /\ query[k].p = ".." => k = 2)
    => IsInjective(items)

Precedes(a, b) ==
  \E k \in 1..Len(b) : /\ k > Len(a) \/ a[k] < b[k]
                       /\ \A j \in 1..Min({k - 1, Len(a)}) : a[j] = b[j]

IsUpward(b) ==
  \/ b.p \in {"$", "name", "quoted", "wild", "star", "index"}
  \/ b.p = "slice" /\ b.parts[3] > 0
  \/ b.p = "filter" /\ Or \notin ToSet(b.text)

\* A slice lists its elements step by step, backwards if the step is negative,
\* however the pointer and the count move on; the other selectors, but .. and
\* filters with ||, keep the items in the order of the document.
KeepsOrder ==
  mode = "reply" =>
    /\ Last(query).p = "slice" => \A j \in 1..(Len(items) - 1) :
         Last(items[j + 1]) = Last(items[j]) + Last(query).parts[3]
    /\ (\A k \in DOMAIN query : IsUpward(query[k])) => \A j \in 1..(Len(items) - 1) :
         Precedes(items[j], items[j + 1])
=============================================================================
