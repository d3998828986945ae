--------------------------- MODULE TairDocCommands ---------------------------
(***************************************************************************)
(* The JSON.* commands of tairdoc.c as functions.  A key holds nothing, a  *)
(* value of another type, or a JSON document.  What a command does to the  *)
(* value of its key is an operator from the call and the value to          *)
(*   val    the value it leaves,                                           *)
(*   reply  what the client is told,                                       *)
(*   sent   whether ReplicateVerbatim was called, so that the call goes to *)
(*          the replicas and the append-only file.                         *)
(* The early returns of a handler are its IF ... ELSE IF chain, in the     *)
(* order of the code.                                                      *)
(***************************************************************************)
EXTENDS JsonPatch, FiniteSets

CONSTANTS Key,
          Calls,     \* the calls clients may issue, see IsCall
          BadJson,   \* a JSON argument the parser rejects
          NotInt,    \* an argument StringToLongLong or StringToDouble rejects
          Huge,      \* a number beyond Huge is infinite
          MaxNodes,  \* bound: nodes in a document
          MaxLen     \* bound: length of a string

Empty   == [kind |-> "empty"]
Foreign == [kind |-> "foreign"]    \* a value of another type
Doc(d)  == [kind |-> "tairdoc", root |-> d]

IsValue(v) ==
  v = Empty \/ v = Foreign \/ (v = Doc(v.root) /\ WellFormed(v.root))

(***************************************************************************)
(* Calls.  A path argument has a style: "slash" is a pointer such as /a/0  *)
(* and what pathToPointer turns into one, such as .a[0]; "dollar" starts   *)
(* with $; "bare" is text with no slash, dot, bracket or $ at its start,   *)
(* taken over verbatim; "broken" is what pathToPointer rejects.  An        *)
(* optional path left out (or a wrong number of arguments, where a handler *)
(* tests argc for one value) is the empty pointer, "slash" with no token.  *)
(***************************************************************************)
Path == [style : {"slash", "dollar", "bare", "broken"}, toks : Seq(Tok)]

\* Calls on one key, and JSON.MGET.
KeyOps == {"set", "get", "del", "type", "strlen", "arrlen", "incrby", "strappend",
           "arrpush", "arrinsert", "arrpop", "arrtrim", "native"}

IsJson(j) == j # BadJson => WellFormed(j) /\ j = [a \in DOMAIN j |-> j[a]]

IsCall(c) ==
  /\ {"op", "path"} \subseteq DOMAIN c
  /\ c.op \in KeyOps \cup {"mget"} /\ c.path \in Path
  /\ c.op = "set" => IsJson(c.json) /\ c.flag \in {"none", "nx", "xx", "junk"}
  /\ c.op = "get" => c.path.style # "dollar"
  /\ c.op = "incrby" => c.by \in Int \cup {NotInt}
  /\ c.op = "strappend" => c.len \in Nat /\ c.seen \in 0..c.len
  /\ c.op \in {"arrpush", "arrinsert"} =>
       /\ "jsons" \in DOMAIN c
       /\ c.jsons = [i \in 1..Len(c.jsons) |-> c.jsons[i]]
       /\ Len(c.jsons) \in Nat \ {0}
       /\ \A i \in 1..Len(c.jsons) : IsJson(c.jsons[i])
  /\ c.op \in {"arrpop", "arrinsert"} => "index" \in DOMAIN c /\ c.index \in Int \cup {NotInt}
  /\ c.op = "arrtrim" => c.start \in Int \cup {NotInt} /\ c.stop \in Int \cup {NotInt}
  /\ c.op = "mget" => c.keys \in Seq(Key)
  /\ c.op = "native" => c.to \in {Empty, Foreign}

ASSUME CallsAssumption == \A c \in Calls : IsCall(c)
ASSUME ArgumentAssumption == NotInt \notin Int /\ Huge \in Nat

\* pathToPointer: "$.a.b" becomes "$/a/b", whose "$" is in front of the
\* first slash; "$" alone is the root.
PathToPointer(path) ==
  [lead |-> path.style = "bare" \/ (path.style = "dollar" /\ path.toks # <<>>),
   toks |-> path.toks]

(***************************************************************************)
(* Replies and effects.                                                    *)
(***************************************************************************)
Ok             == [ok |-> TRUE]
Nil            == [nil |-> TRUE]
Number(n)      == [int |-> n]
Bulk(d)        == [bulk |-> d]
TypeName(t)    == [type |-> t]
Many(s)        == [many |-> s]
Error(what)    == [error |-> what]
WantedType(t)  == [error |-> "not", want |-> t]
PatchError(st) == [error |-> "patch", status |-> st]
Garbage        == [garbage |-> TRUE]    \* computed from freed memory

IsError(r) == "error" \in DOMAIN r

Answer(v, r) == [val |-> v, reply |-> r, sent |-> FALSE]

\* Mutant of Commit: ReplicateVerbatim is not called.
CommitUnsent(v, r) == Answer(v, r)

Commit(v, r) == [val |-> v, reply |-> r, sent |-> TRUE]

\* The handlers' common start: the key is missing, of another type, or a
\* document; then the path is converted.
OnDoc(c, v, missing, then) ==
  IF v = Empty                      THEN Answer(v, missing)
  ELSE IF v = Foreign               THEN Answer(v, Error("wrongtype"))
  ELSE IF c.path.style = "broken"   THEN Answer(v, Error("path"))
  ELSE then

Found(c, v) == GetPointer(v.root, PathToPointer(c.path))
Node(c, v)  == CHOOSE a \in Found(c, v) : TRUE

\* ... and looks for a node of type t.
OnNode(c, v, missing, t, then) ==
  OnDoc(c, v, missing,
        IF Found(c, v) # {} /\ v.root[Node(c, v)].t = t
        THEN then
        ELSE Answer(v, WantedType(t)))

\* Mutant of DropIfChildless: the root's first child is tested for a sibling.
DropIfSingle(d) ==
  IF d[Root].t \in Container /\ d[Root].n <= 1 THEN Empty ELSE Doc(d)

\* A document whose root has no child left is deleted with its key.
DropIfChildless(d) == IF DOMAIN d = {Root} THEN Empty ELSE Doc(d)

(***************************************************************************)
(* The effect of each command.                                             *)
(***************************************************************************)
SetEffect(c, v) ==
  LET ptr   == PathToPointer(c.path)
      found == GetPointer(v.root, ptr) # {}
      patch == IF found THEN PatchReplace(v.root, ptr, c.json)
                        ELSE PatchAdd(v.root, ptr, c.json)
  IN IF c.path.style = "broken"           THEN Answer(v, Error("path"))
     ELSE IF c.flag = "junk"              THEN Answer(v, Error("syntax"))
     ELSE IF v = Empty /\ c.flag = "xx"   THEN Answer(v, Nil)
     ELSE IF v = Foreign                  THEN Answer(v, Error("wrongtype"))
     ELSE IF c.json = BadJson             THEN Answer(v, Error("json"))
     ELSE IF v = Empty /\ IsRoot(ptr)     THEN Commit(Doc(c.json), Ok)
     ELSE IF v = Empty                    THEN Answer(v, Error("new"))
     ELSE IF c.flag = "xx" /\ ~found      THEN Answer(v, Nil)
     ELSE IF c.flag = "nx" /\ found       THEN Answer(v, Nil)
     ELSE IF patch.status # 0 THEN Answer(Doc(patch.doc), PatchError(patch.status))
     ELSE Commit(Doc(patch.doc), Ok)

GetEffect(c, v) ==
  OnDoc(c, v, Nil,
        IF c.path.style = "bare"   THEN Answer(v, Error("illegal"))
        ELSE IF Found(c, v) = {}   THEN Answer(v, Error("pointer"))
        ELSE Answer(v, Bulk(Subtree(v.root, Node(c, v)))))

\* Mutant of DelEffect: the deletion of a root is not propagated.
DelEffectRootUnsent(c, v) ==
  LET ptr   == PathToPointer(c.path)
      patch == PatchRemove(v.root, ptr)
  IN OnDoc(c, v, Number(0),
           IF IsRoot(ptr)             THEN Answer(Empty, Number(1))
           ELSE IF patch.status # 0   THEN Answer(Doc(patch.doc), PatchError(patch.status))
           ELSE Commit(DropIfChildless(patch.doc), Number(1)))

\* The root goes with its key, any other item by a patch.
DelEffect(c, v) ==
  LET ptr   == PathToPointer(c.path)
      patch == PatchRemove(v.root, ptr)
  IN OnDoc(c, v, Number(0),
           IF IsRoot(ptr)             THEN Commit(Empty, Number(1))
           ELSE IF patch.status # 0   THEN Answer(Doc(patch.doc), PatchError(patch.status))
           ELSE Commit(DropIfChildless(patch.doc), Number(1)))

TypeEffect(c, v) ==
  OnDoc(c, v, Nil,
        IF Found(c, v) = {} THEN Answer(v, Nil)
        ELSE Answer(v, TypeName(v.root[Node(c, v)].t)))

StrLenEffect(c, v) ==
  OnNode(c, v, Number(-1), "string", Answer(v, Number(v.root[Node(c, v)].n)))

ArrLenEffect(c, v) ==
  OnNode(c, v, Number(-1), "array", Answer(v, Number(Size(v.root, Node(c, v)))))

WithNumber(d, a, n) == [d EXCEPT ![a].n = n]

\* A sum with an infinite number is infinite, or not a number.
Finite(n) == n \in (-Huge)..Huge

IncrByEffect(c, v) ==
  LET old   == v.root[Node(c, v)].n
      total == old + c.by
      after == WithNumber(v.root, Node(c, v), total)
  IN IF c.by = NotInt THEN Answer(v, Error("range"))
     ELSE OnNode(c, v, Error("no key"), "number",
                 IF ~(Finite(old) /\ Finite(c.by) /\ Finite(total))
                 THEN Answer(v, Error("overflow"))
                 ELSE Commit(Doc(after), Bulk(Subtree(after, Node(c, v)))))

\* len bytes are appended, of which the `seen' before the first NUL count for
\* every later strlen.
StrAppendEffect(c, v) ==
  LET old == v.root[Node(c, v)].n
  IN OnNode(c, v, Number(-1), "string",
            Commit(Doc(WithNumber(v.root, Node(c, v), old + c.seen)),
                   Number(old + c.len)))

\* The JSON arguments before the first that does not parse.
Parsed(jsons) ==
  LET bad == {i \in 1..Len(jsons) : jsons[i] = BadJson}
  IN IF bad = {} THEN jsons
     ELSE Prefix(jsons, (CHOOSE i \in bad : \A j \in bad : i <= j) - 1)

\* The call with only these arguments.
OnlyParsed(c) == [c EXCEPT !.jsons = Parsed(@)]

\* Mutant of ArrPushEffect: the reply is the size found before the additions.
ArrPushEffectOldSize(c, v) ==
  LET a     == Node(c, v)
      after == Doc(AddItems(v.root, a, Parsed(c.jsons)))
  IN OnNode(c, v, Number(-1), "array",
            IF Len(Parsed(c.jsons)) < Len(c.jsons) THEN Answer(after, Error("json"))
            ELSE Commit(after, Number(Size(v.root, a))))

\* Values are parsed and put in the array one by one: an argument that does
\* not parse ends the call, and leaves those before it in the array.
ArrPushEffect(c, v) ==
  LET a     == Node(c, v)
      after == Doc(AddItems(v.root, a, Parsed(c.jsons)))
  IN OnNode(c, v, Number(-1), "array",
            IF Len(Parsed(c.jsons)) < Len(c.jsons) THEN Answer(after, Error("json"))
            ELSE Commit(after, Number(Size(v.root, a) + Len(c.jsons))))

\* An index argument counts from the end when it is negative.
FromEnd(index, len) == IF index < 0 THEN index + len ELSE index

\* Mutant of ArrInsertEffect: the index stays where it is from one argument to
\* the next, which puts them in backwards.
ArrInsertEffectBackwards(c, v) ==
  LET a     == Node(c, v)
      index == FromEnd(c.index, Size(v.root, a))
      good  == Parsed(c.jsons)
      back  == [i \in 1..Len(good) |-> good[Len(good) + 1 - i]]
      after == Doc(InsertItems(v.root, a, index + 1, back))
  IN OnNode(c, v, Number(-1), "array",
            IF c.index = NotInt THEN Answer(v, Error("range"))
            ELSE IF index \notin 0..Size(v.root, a) THEN Answer(v, Error("outflow"))
            ELSE IF Len(good) < Len(c.jsons) THEN Answer(after, Error("json"))
            ELSE Commit(after, Number(Size(v.root, a) + Len(c.jsons))))

\* The size is taken once, and each argument that parses goes in at an index
\* one further on.
ArrInsertEffect(c, v) ==
  LET a     == Node(c, v)
      index == FromEnd(c.index, Size(v.root, a))
      after == Doc(InsertItems(v.root, a, index + 1, Parsed(c.jsons)))
  IN OnNode(c, v, Number(-1), "array",
            IF c.index = NotInt THEN Answer(v, Error("range"))
            ELSE IF index \notin 0..Size(v.root, a) THEN Answer(v, Error("outflow"))
            ELSE IF Len(Parsed(c.jsons)) < Len(c.jsons) THEN Answer(after, Error("json"))
            ELSE Commit(after, Number(Size(v.root, a) + Len(c.jsons))))

ArrPopEffect(c, v) ==
  LET a     == Node(c, v)
      index == FromEnd(c.index, Size(v.root, a))
  IN OnNode(c, v, Error("no key"), "array",
            IF c.index = NotInt THEN Answer(v, Error("range"))
            ELSE IF index \notin 0..(Size(v.root, a) - 1) THEN Answer(v, Error("outflow"))
            ELSE Commit(DropIfChildless(DetachItems(v.root, a, index + 1, 1)),
                        Bulk(Subtree(v.root, Append(a, index + 1)))))

\* The first `start' elements go, then what follows the stop - start + 1 that
\* stay; the size is read after the key may have been deleted.
ArrTrimEffect(c, v) ==
  LET a     == Node(c, v)
      size  == Size(v.root, a)
      kept  == c.stop - c.start + 1
      tail  == DetachItems(v.root, a, 1, c.start)
      after == DropIfChildless(DetachItems(tail, a, kept + 1, size - c.start - kept))
  IN OnNode(c, v, Number(-1), "array",
            IF NotInt \in {c.start, c.stop} THEN Answer(v, Error("range"))
            ELSE IF ~(0 <= c.start /\ c.start <= c.stop /\ c.stop < size)
                 THEN Answer(v, Error("outflow"))
            ELSE Commit(after, IF after = Empty THEN Garbage ELSE Number(Size(after.root, a))))

\* The server's own commands on a key: DEL, expiry, or a SET of another type.
NativeEffect(c, v) == Commit(c.to, Ok)

\* The effect of a call on its one key.
Effect(c, v) ==
  CASE c.op = "set"       -> SetEffect(c, v)
    [] c.op = "get"       -> GetEffect(c, v)
    [] c.op = "del"       -> DelEffect(c, v)
    [] c.op = "type"      -> TypeEffect(c, v)
    [] c.op = "strlen"    -> StrLenEffect(c, v)
    [] c.op = "arrlen"    -> ArrLenEffect(c, v)
    [] c.op = "incrby"    -> IncrByEffect(c, v)
    [] c.op = "strappend" -> StrAppendEffect(c, v)
    [] c.op = "arrpush"   -> ArrPushEffect(c, v)
    [] c.op = "arrinsert" -> ArrInsertEffect(c, v)
    [] c.op = "arrpop"    -> ArrPopEffect(c, v)
    [] c.op = "arrtrim"   -> ArrTrimEffect(c, v)
    [] c.op = "native"    -> NativeEffect(c, v)

\* Bounds of the model: documents stay small.
Fits(v) ==
  v # Empty /\ v # Foreign =>
    /\ Cardinality(DOMAIN v.root) <= MaxNodes
    /\ \A a \in DOMAIN v.root : v.root[a].t = "string" => v.root[a].n <= MaxLen
=============================================================================
