------------------------------ MODULE MCJsonPath ------------------------------
EXTENDS JsonPathMeaning

(***************************************************************************)
(* Documents.                                                              *)
(***************************************************************************)
Leaf(t, n)   == <<>> :> [t |-> t, n |-> n, name |-> NoName]
Number(n)    == Leaf("number", n)
\* AddItems, with the values computed here and not at each use.
Built(t, subs) == AddItems(Leaf(t, 0), Root, subs) @@ Leaf(t, 0)
Arr(subs)    == Built("array", subs)
Obj(members) == Built("object", [i \in DOMAIN members |-> Named(members[i][2], members[i][1])])
Sub(n)       == Arr([i \in 1..n |-> Number(i)])

Shelf == Arr(<<Obj(<<<<"a", Number(0)>>, <<"b", Number(1)>>>>),
               Obj(<<<<"a", Number(1)>>>>),
               Obj(<<<<"b", Number(0)>>, <<"a", Leaf("string", 0)>>>>),
               Number(1)>>)

Tables == {Shelf, Obj(<<<<"b", Number(1)>>, <<"a", Shelf>>>>)}
Mixed  == {Number(0),
           Obj(<<<<"a", Shelf>>, <<"b", Number(1)>>>>),
           Obj(<<<<"b", Obj(<<<<"a", Sub(1)>>, <<"b", Number(0)>>>>)>>,
                 <<"a", Obj(<<<<"b", Leaf("boolean", 1)>>>>)>>>>),
           Arr(<<Sub(2), Obj(<<<<"a", Leaf("null", 0)>>>>), Sub(0)>>)}

(***************************************************************************)
(* Paths of any pieces.                                                    *)
(***************************************************************************)
Dollar == [p |-> "$"]
NameIs(n)  == [p |-> "name", name |-> n]
IndexIs(i) == [p |-> "index", index |-> i]
SliceIs(s, e, t) == [p |-> "slice", parts |-> <<s, e, t>>]
LabelOf(t, n) == Leaf(t, n)[Root]

Pieces ==
  {NameIs("a"), NameIs("b"), [p |-> "quoted", name |-> "a"], [p |-> "wild"],
   [p |-> "star"], IndexIs(0), IndexIs(-1), SliceIs(0, 2, 1),
   [p |-> "list", entries |-> <<LabelOf("number", -1), LabelOf("number", 0), LabelOf("number", 4)>>],
   [p |-> "list", entries |-> <<LabelOf("number", 0), LabelOf("string", 0)>>],
   FilterPiece(UnitOf(Exists("a")))}

Short == {[p |-> "slice", parts |-> <<0, 1>>], [p |-> "slice", parts |-> <<0, 2, Omitted>>]}

MixedPaths ==
  LET first == Pieces \cup {[p |-> "..", next |-> b] : b \in Pieces} \cup Short
      then  == Pieces \cup {[p |-> "..", next |-> b] : b \in {NameIs("a"), [p |-> "wild"]}}
  IN {<<Dollar>>} \cup {<<Dollar, b>> : b \in first}
       \cup {<<Dollar, b, c>> : b \in first, c \in then}

SlicePaths == {<<Dollar, SliceIs(s, e, t)>> : s \in -4..3, e \in -4..4, t \in -3..3}

(***************************************************************************)
(* Filters: formulas of up to four units, in every bracketing, and texts   *)
(* that are none.                                                          *)
(***************************************************************************)
One == LabelOf("number", 1)
Units == {Exists("a"), Comp(At("b"), "<", Const(One)),
          Comp(Path(<<[type |-> "DOT", path |-> "b"]>>), "==", At("a"))}
OtherUnits == {Comp(Const(One), ">", At("a")), Comp(At("a"), "!=", Const(One)),
               Comp(At("a"), ">=", Const(One)), Comp(At("a"), "<=", Const(One)),
               Comp(At("b"), "<", At("a")),
               Comp(At("a"), "==", Path(<<[type |-> "DOT", path |-> "a"]>>)),
               Comp(At("a"), "!=", Const(LabelOf("string", 0)))}

Formula(op, l, r, bare) == [op |-> op, l |-> l, r |-> r, bare |-> bare]
Leaves  == {UnitOf(t) : t \in Units}
Pairs   == {Formula(op, l, r, FALSE) : op \in {"and", "or"}, l, r \in Leaves}
BarePairs == {Formula("and", l, r, TRUE) : l, r \in Leaves}
Formulas ==
  {UnitOf(t) : t \in Units \cup OtherUnits}
    \cup {Formula("or", l, r, FALSE) : l, r \in Leaves \cup Pairs \cup BarePairs}
    \cup {Formula("and", l, r, FALSE) : l, r \in Leaves \cup Pairs}

Deep ==
  LET u == CHOOSE t \in Leaves : TRUE
      v == CHOOSE t \in Leaves : t # u
      pair == Formula("and", u, v, FALSE)
  IN {Formula("or", Formula("and", Formula("or", u, v, FALSE), u, FALSE), v, FALSE),
      Formula("or", pair, Formula("and", Formula("or", u, v, FALSE), u, FALSE), FALSE),
      Formula("or", Formula("and", pair, pair, TRUE), v, FALSE)}

Malformed ==
  LET u == Exists("a")
  IN {<<>>, <<LeftBracket, RightBracket>>, <<LeftBracket, u>>, <<u, RightBracket>>,
      <<LeftBracket, u, RightBracket, RightBracket>>, <<LeftBracket, And, u, RightBracket>>,
      <<LeftBracket, u, Or, RightBracket>>,
      <<LeftBracket, LeftBracket, u, RightBracket, RightBracket>>,
      <<LeftBracket, u, RightBracket, And, LeftBracket, u, RightBracket>>,
      <<LeftBracket, u, LeftBracket, u, RightBracket, RightBracket>>}

FilterPaths ==
  LET pieces == {FilterPiece(t) : t \in Formulas \cup Deep}
                  \cup {[p |-> "filter", text |-> t] : t \in Malformed}
  IN {<<Dollar, b>> : b \in pieces} \cup {<<Dollar, NameIs("a"), b>> : b \in pieces}

Asked(docs, paths) == [doc : docs, path : paths]

MCCalls == Asked(Mixed, MixedPaths) \cup Asked({Sub(0), Sub(1), Sub(3)}, SlicePaths)
             \cup Asked(Tables, FilterPaths)
=============================================================================
