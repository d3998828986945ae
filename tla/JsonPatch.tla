------------------------------ MODULE JsonPatch ------------------------------
(***************************************************************************)
(* JSON pointers and the two JSON patch operations TairDoc composes        *)
(* (cJSON_Utils.c).  A pointer is its sequence of reference tokens.  The   *)
(* field `lead' says that some text precedes the first '/': the C code     *)
(* then never starts to walk, and finds the root.                          *)
(*                                                                         *)
(* What a token means is given by four functions, because the code reads   *)
(* it in four ways:                                                        *)
(*   Index[tok]    the array index it spells, -1 if it spells none         *)
(*                 (decode_array_index_from_pointer)                       *)
(*   SoughtName    the member name it matches when a pointer is followed,  *)
(*                 NoName for a wrong escape (compare_pointers)            *)
(*   ChildName     the name it is turned into when it is the last token of *)
(*                 a patch path (decode_pointer_inplace)                   *)
(*   Fold[name]    what case-insensitive comparison sees of a name         *)
(***************************************************************************)
EXTENDS JsonDoc

CONSTANTS Tok, Dash, Index, SoughtName, ChildName, Fold

ASSUME TokAssumption ==
  /\ Index \in [Tok -> Nat \cup {-1}]
  /\ Dash \in Tok /\ Index[Dash] = -1
  /\ SoughtName \in [Tok -> Name \cup {NoName}]
  /\ ChildName \in [Tok -> Name]
  /\ DOMAIN Fold = Name

Pointer == [lead : BOOLEAN, toks : Seq(Tok)]

IsRoot(ptr) == ~ptr.lead /\ ptr.toks = <<>>

\* Position i of the child list of a is the one that token tok selects.
Selects(d, a, tok, i) ==
  \/ d[a].t = "array" /\ Index[tok] >= 0 /\ i = Index[tok] + 1 /\ i <= Size(d, a)
  \/ d[a].t = "object" /\ i \in FirstNamed(d, a, {SoughtName[tok]})

\* Following the tokens from the root leads to a.
Resolves(d, toks, a) ==
  /\ Len(a) = Len(toks)
  /\ \A j \in 1..Len(a) : Selects(d, Prefix(a, j - 1), toks[j], a[j])

\* The node a pointer denotes, as a set of at most one address.
GetPointer(d, ptr) ==
  IF ptr.lead THEN {Root} ELSE {a \in DOMAIN d : Resolves(d, ptr.toks, a)}

\* The container a patch works on: the pointer up to its last '/'.
Holder(d, ptr) ==
  IF ptr.toks = <<>>
  THEN {}
  ELSE GetPointer(d, [ptr EXCEPT !.toks = Prefix(@, Len(@) - 1)])

LastTok(ptr) == ptr.toks[Len(ptr.toks)]

\* Names equal up to case.
SameFold(name) == {m \in Name : Fold[m] = Fold[name]}

\* The tokens T spell names of M, the same one in each way the code reads them;
\* two of them spell neither one name nor one index; and no two names of M
\* differ by case only.  Then the lookups of the code agree, in any document
\* that is plain.
ToldApart(M, T) ==
  /\ M \subseteq Name /\ T \subseteq Tok
  /\ \A m, n \in M : Fold[m] = Fold[n] => m = n
  /\ \A t \in T : ChildName[t] = SoughtName[t] /\ SoughtName[t] \in M
  /\ \A s, t \in T : SoughtName[s] = SoughtName[t] => s = t
  /\ \A s, t \in T : Index[s] = Index[t] /\ Index[s] >= 0 => s = t

\* Mutants of Detached: the index of an element is taken for its position; and
\* the result of the name comparison is read the wrong way round.
DetachedOneEarly(d, p, tok) ==
  CASE d[p].t = "array"  -> {Index[tok]} \cap 1..Size(d, p)
    [] d[p].t = "object" -> FirstNamed(d, p, SameFold(ChildName[tok]))
    [] OTHER             -> {}

DetachedOther(d, p, tok) ==
  CASE d[p].t = "array"  -> {Index[tok] + 1} \cap 1..Size(d, p)
    [] d[p].t = "object" -> FirstNamed(d, p, Name \ SameFold(ChildName[tok]))
    [] OTHER             -> {}

\* The position in the list of p that detach_path takes out.
Detached(d, p, tok) ==
  CASE d[p].t = "array"  -> {Index[tok] + 1} \cap 1..Size(d, p)
    [] d[p].t = "object" -> FirstNamed(d, p, SameFold(ChildName[tok]))
    [] OTHER             -> {}

(***************************************************************************)
(* A patch returns the document it leaves and apply_patch's status: 0 for  *)
(* success, 9 no container to add to, 10 index past the end, 11 no index,  *)
(* 13 nothing to remove or replace.                                        *)
(***************************************************************************)
Patched(d, status) == [doc |-> d, status |-> status]

\* detach_path: the container and the position of what it takes out.
DetachPath(d, ptr) ==
  UNION {{<<p, i>> : i \in Detached(d, p, LastTok(ptr))} : p \in Holder(d, ptr)}

Without(d, place) == DetachItems(d, place[1], place[2], 1)

\* Mutant of PutMember: the value is added without its name.
PutMemberNameless(d, p, name, value) ==
  LET old == FirstNamed(d, p, {name})
      rid == IF old = {} THEN d ELSE Without(d, <<p, CHOOSE i \in old : TRUE>>)
  IN AddItems(rid, p, <<value>>)

\* The member `name' of the object at p is deleted if there is one, and the
\* value becomes the last member.
PutMember(d, p, name, value) ==
  LET old == FirstNamed(d, p, {name})
      rid == IF old = {} THEN d ELSE Without(d, <<p, CHOOSE i \in old : TRUE>>)
  IN AddItems(rid, p, <<Named(value, name)>>)

\* Mutant of AddToArray: the value goes behind the element it should go before.
AddToArrayAfter(d, p, tok, value) ==
  LET item == <<Named(value, ValueName)>>
  IN IF tok = Dash \/ Index[tok] = Size(d, p) THEN Patched(AddItems(d, p, item), 0)
     ELSE IF Index[tok] = -1   THEN Patched(d, 11)
     ELSE IF Index[tok] > Size(d, p) THEN Patched(d, 10)
     ELSE Patched(InsertItems(d, p, Index[tok] + 2, item), 0)

\* The value goes before the element its index names.
AddToArray(d, p, tok, value) ==
  LET item == <<Named(value, ValueName)>>
  IN IF tok = Dash             THEN Patched(AddItems(d, p, item), 0)
     ELSE IF Index[tok] = -1   THEN Patched(d, 11)
     ELSE IF Index[tok] > Size(d, p) THEN Patched(d, 10)
     ELSE Patched(InsertItems(d, p, Index[tok] + 1, item), 0)

\* Adding below the node a pointer's last '/' follows.
AddTo(d, ptr, value) ==
  LET p == CHOOSE a \in Holder(d, ptr) : TRUE
  IN IF Holder(d, ptr) = {} THEN Patched(d, 9)
     ELSE CASE d[p].t = "array"  -> AddToArray(d, p, LastTok(ptr), value)
            [] d[p].t = "object" -> Patched(PutMember(d, p, ChildName[LastTok(ptr)], value), 0)
            [] OTHER             -> Patched(d, 9)

\* {"op": "add", "path": ptr, "value": value}
PatchAdd(d, ptr, value) ==
  IF IsRoot(ptr) THEN Patched(value, 0) ELSE AddTo(d, ptr, value)

\* Mutant of PatchReplace: the old item stays when the new one is added.
PatchReplaceKeepsOld(d, ptr, value) ==
  IF IsRoot(ptr)  THEN Patched(value, 0)
  ELSE IF DetachPath(d, ptr) = {} THEN Patched(d, 13)
  ELSE AddTo(d, ptr, value)

\* {"op": "replace", ...}: the old item is gone before the new one is added.
PatchReplace(d, ptr, value) ==
  LET old == DetachPath(d, ptr)
  IN IF IsRoot(ptr)  THEN Patched(value, 0)
     ELSE IF old = {} THEN Patched(d, 13)
     ELSE AddTo(Without(d, CHOOSE pl \in old : TRUE), ptr, value)

\* {"op": "remove", ...}, which TairDoc never applies to the root.
PatchRemove(d, ptr) ==
  LET old == DetachPath(d, ptr)
  IN IF old = {} THEN Patched(d, 13)
     ELSE Patched(Without(d, CHOOSE pl \in old : TRUE), 0)
=============================================================================
