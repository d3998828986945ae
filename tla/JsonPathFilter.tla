---------------------------- MODULE JsonPathFilter ----------------------------
(***************************************************************************)
(* Filters, [?( ... )].  The text of a filter is a sequence of tokens:     *)
(* brackets, && and ||, and units, which are a path that must exist or a   *)
(* comparison.  compile_selector_filter turns it into a list of the same   *)
(* tokens in another order; filter_selector reduces that list, bracket by  *)
(* bracket, to one list of items.                                          *)
(*                                                                         *)
(* A side of a comparison is a member of the item at hand, @.name; a       *)
(* constant; or the first result of a path from the root, $.path, which    *)
(* holds no bracket, since the first ] ends the filter.  One side at least *)
(* is a member of the item.  The n of a string is its place in the order   *)
(* of strcmp.                                                              *)
(***************************************************************************)
EXTENDS JsonPathSelectors

LeftBracket  == [k |-> "("]
RightBracket == [k |-> ")"]
And          == [k |-> "and"]
Or           == [k |-> "or"]
Exists(name) == [k |-> "exists", name |-> name]
Comp(l, c, r) == [k |-> "comp", cmp |-> c, left |-> l, right |-> r]
At(name)     == [side |-> "@", name |-> name]
Const(label) == [side |-> "const", label |-> label]
Path(sels)   == [side |-> "$", selectors |-> sels]
Result(items) == [k |-> "result", items |-> items]
Bad          == [k |-> "bad"]

IsUnit(t) == t.k \in {"exists", "comp"}
IsOp(t)   == t.k \in {"and", "or"}

(***************************************************************************)
(* Compiling.  Of an operator of two characters the code tries the first   *)
(* character alone before it tries both, so that >= and <= are read as >   *)
(* and < with a right side that does not parse.                            *)
(***************************************************************************)
ParseFilter(t) == t.k = "comp" => t.cmp \notin {">=", "<="}

ParseInside(inside) ==
  /\ ~IsOp(Last(inside))
  /\ \A j \in DOMAIN inside : ParseFilter(inside[j])

Failed == [ok |-> FALSE, stack |-> <<>>, list |-> <<>>]

\* At a closing bracket: what was stacked since its opening bracket is
\* appended to the list; an operator in front of that bracket goes before the
\* last filter of the list as it is then.
CloseBracket(c) ==
  LET open   == SelectLastInSeq(c.stack, LAMBDA t : t = LeftBracket)
      before == SubSeq(c.stack, 1, open - 1)
      inside == SubSeq(c.stack, open + 1, Len(c.stack))
      filters == inside \o <<RightBracket>>
  IN IF open = 0 THEN Failed
     ELSE IF inside = <<>>
     THEN [c EXCEPT !.stack = before, !.list = Append(@, RightBracket)]
     ELSE IF ~ParseInside(inside) THEN Failed
     ELSE IF before = <<>> \/ Last(before) = LeftBracket
     THEN [c EXCEPT !.stack = before, !.list = @ \o filters]
     ELSE IF IsOp(Last(before))
     THEN [c EXCEPT !.stack = Front(before),
                    !.list  = InsertAt(@, Len(@), Last(before)) \o filters]
     ELSE Failed

CompileToken(c, t) ==
  CASE ~c.ok            -> c
    [] t = RightBracket -> CloseBracket(c)
    [] t = LeftBracket  -> [c EXCEPT !.stack = Append(@, t), !.list = Append(@, t)]
    [] OTHER            -> [c EXCEPT !.stack = Append(@, t)]

\* The list, and whether the text compiles: a text that opens with a bracket
\* and leaves nothing on the stack.
CompileFilter(text) ==
  LET c == FoldLeft(CompileToken, [ok |-> TRUE, stack |-> <<>>, list |-> <<>>], text)
  IN [ok |-> text # <<>> /\ text[1] = LeftBracket /\ c.ok /\ c.stack = <<>>,
      list |-> c.list]

(***************************************************************************)
(* Comparing.  true and false are two types.                               *)
(***************************************************************************)
CType(x) == <<x.t, IF x.t = "boolean" THEN x.n ELSE 0>>

FilterCompare(x, y, cmp) ==
  /\ CType(x) = CType(y)
  /\ IF x.t \in {"number", "string"}
     THEN CASE cmp = ">"  -> x.n > y.n
            [] cmp = "<"  -> x.n < y.n
            [] cmp = "==" -> x.n = y.n
            [] cmp = "!=" -> x.n # y.n
     ELSE cmp = "=="

(***************************************************************************)
(* A comparison with one member of the items, or of two of them.           *)
(***************************************************************************)
Holders(d, items, name) == SelectSeq(items, LAMBDA a : Member(d, a, name) # <<>>)

\* The first result of a path from the root, unless it is an array or an object.
PathValue(d, sels) ==
  LET select(items, s) == SelectAny(d, items, s)
      found == FoldLeft(select, <<Root>>, sels)
  IN {d[found[j]] : j \in {k \in DOMAIN found \cap {1} : d[found[k]].t \notin Container}}

\* The value of a side for the item a, if it has one.
SideValue(d, a, s) ==
  CASE s.side = "@"     -> {d[b] : b \in ToSet(Member(d, a, s.name))}
    [] s.side = "const" -> {s.label}
    [] s.side = "$"     -> PathValue(d, s.selectors)

\* The items whose values are compared with each other: one item, but when both
\* sides are members, the values are two lists that are compared place by place.
Opponents(d, items, t) ==
  IF t.left.side = "@" /\ t.right.side = "@"
  THEN LET l == Holders(d, items, t.left.name)
           r == Holders(d, items, t.right.name)
       IN [j \in 1..Min({Len(l), Len(r)}) |-> <<l[j], r[j]>>]
  ELSE [j \in DOMAIN items |-> <<items[j], items[j]>>]

\* What is selected is the item of the left value.
Compared(d, items, t) ==
  LET compare(hits, p) ==
        IF \E x \in SideValue(d, p[1], t.left), y \in SideValue(d, p[2], t.right) :
             FilterCompare(x, y, t.cmp)
        THEN Append(hits, p[1]) ELSE hits
  IN FoldLeft(compare, <<>>, Opponents(d, items, t))

\* The items for which a unit holds; a result is what it is.
ExecuteFilter(d, items, t) ==
  CASE t.k = "result" -> t.items
    [] t.k = "exists" -> Holders(d, items, t.name)
    [] t.k = "comp"   -> Compared(d, items, t)

(***************************************************************************)
(* Reducing.                                                               *)
(***************************************************************************)
Both(l, r)   == SelectSeq(l, LAMBDA a : a \in ToSet(r))

\* Mutant of Either: the items on both sides are there twice.
EitherTwice(l, r) == r \o l

Either(l, r) == r \o SelectSeq(l, LAMBDA a : a \notin ToSet(r))

Operand(t) == IsUnit(t) \/ t.k = "result"

\* All operators of one kind, from left to right.
RECURSIVE Reduce(_, _, _, _)
Reduce(d, items, op, s) ==
  LET i == SelectInSeq(s, LAMBDA t : t = op)
      side(j) == ExecuteFilter(d, items, s[j])
  IN IF i = 0 THEN s
     ELSE IF i \in {1, Len(s)} \/ ~Operand(s[i - 1]) \/ ~Operand(s[i + 1]) THEN <<Bad>>
     ELSE Reduce(d, items, op,
                 SubSeq(s, 1, i - 2)
                   \o <<Result(IF op = And THEN Both(side(i - 1), side(i + 1))
                                           ELSE Either(side(i - 1), side(i + 1)))>>
                   \o SubSeq(s, i + 2, Len(s)))

\* Mutant of ReduceAll: || before &&.
ReduceAllOrFirst(d, items, s) ==
  FoldLeft(LAMBDA left, op : Reduce(d, items, op, left), s, <<Or, And>>)

ReduceAll(d, items, s) ==
  FoldLeft(LAMBDA left, op : Reduce(d, items, op, left), s, <<And, Or>>)

\* The filters between two brackets: && before ||, then what is left must be one.
ExecuteFilterUnit(d, items, s) ==
  LET left == ReduceAll(d, items, s)
  IN IF Len(left) = 1 /\ Operand(left[1])
     THEN Result(ExecuteFilter(d, items, left[1]))
     ELSE Bad

\* The children of the item a that pass the filter.
FilterSelector(d, a, list) ==
  LET Step(done, t) ==
        LET open == SelectLastInSeq(done, LAMBDA u : u = LeftBracket)
        IN CASE Bad \in ToSet(done) -> done
             [] t = RightBracket    ->
                  SubSeq(done, 1, open - 1)
                    \o <<ExecuteFilterUnit(d, Children(d, a), SubSeq(done, open + 1, Len(done)))>>
             [] OTHER               -> Append(done, t)
      done == FoldLeft(Step, <<>>, list)
      items(t) == IF t.k = "result" THEN t.items ELSE <<>>
  IN IF Len(done) = 1 THEN items(done[1]) ELSE <<>>
=============================================================================
