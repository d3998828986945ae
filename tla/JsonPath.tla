------------------------------- MODULE JsonPath -------------------------------
(***************************************************************************)
(* JSON.GET with a path that starts with $: cJSONUtils_GetPath compiles    *)
(* the path to a list of selectors, one piece of the text after the other, *)
(* and then hands the items found so far from selector to selector.  The   *)
(* answer is an error if the path does not compile, and otherwise an array *)
(* of copies of the items, empty if a selector found none or was given     *)
(* items it does not take.  Nothing is written.                            *)
(*                                                                         *)
(* A piece of a path is a record [p |-> kind, ...]; `..' comes together    *)
(* with the piece behind it, which it needs.                               *)
(***************************************************************************)
EXTENDS JsonPathFilter

CONSTANTS Calls,    \* a document and a path, a sequence of pieces
          Omitted   \* a part of a slice that is left out, as in [1::2]

ASSUME CallsAssumption ==
  \A c \in Calls : /\ WellFormed(c.doc)
                   /\ c.path # <<>> /\ c.path[1].p = "$"

VARIABLES doc,        \* the document of the key asked
          query,      \* the path asked
          text,       \* the pieces of the path that are not compiled yet
          selectors,  \* compiled and not yet applied
          items,      \* what the selectors found
          mode        \* what GetPath is at
vars == <<doc, query, text, selectors, items, mode>>

(***************************************************************************)
(* Compiling a piece: the selectors it gives, or none if it is wrong.      *)
(***************************************************************************)
Selector(type) == [type |-> type]

\* [0], [*], [0:1:2], [0,1]: slices need their three parts.
CompileIndexSliceList(b) ==
  CASE b.p = "index"  -> <<[type |-> "INDEX", index |-> b.index]>>
    [] b.p = "star"   -> <<Selector("INDEX_WILD")>>
    [] b.p = "slice"  -> IF Len(b.parts) = 3 /\ Omitted \notin ToSet(b.parts)
                         THEN <<[type |-> "ARRAY_SLICE", slice |-> b.parts]>>
                         ELSE <<>>
    [] b.p = "list"   -> <<[type |-> "LIST", entries |-> b.entries]>>
    [] OTHER          -> <<>>

CompileFilterPiece(b) ==
  LET f == CompileFilter(b.text)
  IN IF f.ok THEN <<[type |-> "FILTER", filter |-> f.list]>> ELSE <<>>

Brackets == {"quoted", "index", "star", "slice", "list", "filter"}

CompilePiece(b) ==
  CASE b.p = "$"                    -> <<Selector("ROOT")>>
    [] b.p = "wild"                 -> <<Selector("DOT_WILD")>>
    [] b.p \in {"name", "quoted"}   -> <<[type |-> "DOT", path |-> b.name]>>
    [] b.p = "filter"               -> CompileFilterPiece(b)
    [] OTHER                        -> CompileIndexSliceList(b)

\* Behind `..' every bracket is read as an index, a slice or a list.
CompileDecendant(b) ==
  LET rest == IF b.p \in Brackets THEN CompileIndexSliceList(b) ELSE CompilePiece(b)
  IN IF rest = <<>> THEN <<>> ELSE <<Selector("DECENDANT")>> \o rest

Compiled(b) == IF b.p = ".." THEN CompileDecendant(b.next) ELSE CompilePiece(b)

(***************************************************************************)
(* Steps.                                                                  *)
(***************************************************************************)
Init == /\ mode = "idle" /\ doc = <<>> /\ query = <<>> /\ text = <<>>
        /\ selectors = <<>> /\ items = <<>>

Ask(c) ==
  /\ mode = "idle"
  /\ doc' = c.doc /\ query' = c.path /\ text' = c.path
  /\ mode' = "compile"
  /\ UNCHANGED <<selectors, items>>

CompileNext ==
  /\ mode = "compile" /\ text # <<>> /\ Compiled(Head(text)) # <<>>
  /\ selectors' = selectors \o Compiled(Head(text))
  /\ text' = Tail(text)
  /\ UNCHANGED <<doc, query, items, mode>>

\* A piece that does not compile: the reply is an error.
CompileError ==
  /\ mode = "compile" /\ text # <<>> /\ Compiled(Head(text)) = <<>>
  /\ mode' = "error" /\ selectors' = <<>> /\ text' = <<>>
  /\ UNCHANGED <<doc, query, items>>

SelectRoot ==
  /\ mode = "compile" /\ text = <<>>
  /\ items' = <<Root>> /\ mode' = "select"
  /\ UNCHANGED <<doc, query, text, selectors>>

\* Hand on what a selector found; when it found nothing, the rest is left out.
Found(new) ==
  /\ items' = new
  /\ IF items' = <<>> \/ Len(selectors) = 1
     THEN selectors' = <<>> /\ mode' = "reply"
     ELSE selectors' = Tail(selectors) /\ UNCHANGED mode
  /\ UNCHANGED <<doc, query, text>>

ApplySelector ==
  /\ mode = "select" /\ selectors[1].type \in AnyItems
  /\ Found(SelectAny(doc, items, selectors[1]))

ApplyArraySelector ==
  /\ mode = "select" /\ selectors[1].type \in OneArray
  /\ Found(IF Len(items) = 1 /\ doc[items[1]].t = "array"
           THEN SelectFromArray(doc, items[1], selectors[1])
           ELSE <<>>)

ApplyFilter ==
  /\ mode = "select" /\ selectors[1].type = "FILTER"
  /\ Found(IF Len(items) = 1
           THEN FilterSelector(doc, items[1], selectors[1].filter)
           ELSE <<>>)

\* The items are copied, printed and forgotten.
Reply ==
  /\ mode \in {"reply", "error"}
  /\ mode' = "idle" /\ doc' = <<>> /\ query' = <<>> /\ items' = <<>>
  /\ UNCHANGED <<text, selectors>>

Next ==
  \/ \E c \in Calls : Ask(c)
  \/ CompileNext \/ CompileError
  \/ SelectRoot \/ ApplySelector \/ ApplyArraySelector \/ ApplyFilter
  \/ Reply

Spec == Init /\ [][Next]_vars
=============================================================================
