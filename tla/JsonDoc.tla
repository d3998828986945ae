------------------------------- MODULE JsonDoc -------------------------------
(***************************************************************************)
(* The cJSON tree as a value.  A document is a function from the address   *)
(* of each node to the node's label.  The address of a node is the         *)
(* sequence of the positions (1, 2, ...) to follow from the root, <<>>, so *)
(* the child list of the node at p is <<d[p o <<1>>], d[p o <<2>>], ...>>; *)
(* index i of the C code is position i + 1.  The prev/next links that      *)
(* represent a child list in memory are below this module's grain.         *)
(*                                                                         *)
(* The label keeps of struct cJSON what the commands branch on or reply:   *)
(*   t     the type                                                        *)
(*   n     valuedouble of a number, strlen(valuestring) of a string, the   *)
(*         number of children of a container, a code for a literal         *)
(*   name  the `string' field: the member name inside an object.  An array *)
(*         element that a JSON patch put there keeps the name "value" it   *)
(*         had in the patch; any other element has none.                   *)
(***************************************************************************)
EXTENDS Integers, Sequences

CONSTANTS Name,       \* member names
          NoName,     \* the NULL `string' pointer
          ValueName   \* the name "value"

ASSUME NameAssumption == NoName \notin Name /\ ValueName \in Name

Position  == Nat \ {0}
Address   == Seq(Position)
Container == {"array", "object"}
Scalar    == {"string", "number", "boolean", "null"}
Label     == [t : Container \cup Scalar, n : Int, name : Name \cup {NoName}]

Root == <<>>

(***************************************************************************)
(* Addresses.                                                              *)
(***************************************************************************)
Prefix(a, k) == [j \in 1..k |-> a[j]]
Parent(a)    == Prefix(a, Len(a) - 1)
Suffix(a, k) == [j \in 1..(Len(a) - k) |-> a[j + k]]

\* b is p or lies below p
Under(p, b) == Len(p) <= Len(b) /\ \A j \in 1..Len(p) : b[j] = p[j]

\* b is, or lies below, a child of p at a position from i on
FromChild(p, i, b) == Len(p) < Len(b) /\ Under(p, b) /\ b[Len(p) + 1] >= i

\* b is, or lies below, one of the k children of p that start at position i
InBlock(p, i, k, b) == FromChild(p, i, b) /\ b[Len(p) + 1] < i + k

\* the address s, counted from the child of p at position m; and the position
\* that b takes below p, with its address from there
Below(p, m, s) == Append(p, m) \o s
Turn(p, b) == b[Len(p) + 1]
Rest(p, b) == Suffix(b, Len(p) + 1)

\* the address of b once the children of p from position i on moved by k
Shift(p, i, k, b) ==
  IF FromChild(p, i, b) THEN [b EXCEPT ![Len(p) + 1] = @ + k] ELSE b

(***************************************************************************)
(* A document that the parser or a command can build: the positions of     *)
(* siblings have no gap, only containers have children, a member of an     *)
(* object has a name and an array element has none but "value".            *)
(***************************************************************************)
Rooted(d) == Root \in DOMAIN d /\ d[Root].name = NoName

Labelled(d) == \A a \in DOMAIN d : a \in Address /\ d[a] \in Label

Counted(d) ==
  \A a \in DOMAIN d : d[a].t \in Container =>
    d[a].n \in Nat /\ \A i \in 1..d[a].n : Append(a, i) \in DOMAIN d

Attached(d) ==
  \A a \in DOMAIN d : a # Root =>
    /\ Parent(a) \in DOMAIN d
    /\ d[Parent(a)].t \in Container
    /\ a[Len(a)] <= d[Parent(a)].n

Titled(d) ==
  \A a \in DOMAIN d : a # Root =>
    IF d[Parent(a)].t = "object"
    THEN d[a].name \in Name
    ELSE d[a].name \in {NoName, ValueName}

WellFormed(d) ==
  Rooted(d) /\ Labelled(d) /\ Counted(d) /\ Attached(d) /\ Titled(d)

\* A plain document: the members of an object differ in name, and the names
\* are in M.  Nothing in the code sees to that: the parser keeps a second
\* member of a name, and a patch may add a name that it then does not find.
Distinct(M, n, name) ==
  \A i \in 1..n : name[i] \in M /\ \A j \in 1..n : name[i] = name[j] => i = j

MemberNames(d, a) == [i \in 1..d[a].n |-> d[Append(a, i)].name]

Plain(M, d) ==
  /\ d = [a \in DOMAIN d |-> d[a]]
  /\ \A a \in DOMAIN d : d[a].t = "object" => Distinct(M, d[a].n, MemberNames(d, a))

(***************************************************************************)
(* Reading.                                                                *)
(***************************************************************************)
Size(d, p) == d[p].n

\* The node at p as a document of its own: its copy has no `string' that
\* anyone reads.
Subtree(d, p) ==
  LET below == {b \in DOMAIN d : Under(p, b)}
  IN [s \in {Suffix(b, Len(p)) : b \in below} |->
        IF s = Root THEN [d[p] EXCEPT !.name = NoName] ELSE d[p \o s]]

\* d without the names that a patch left on elements of arrays.
Bare(d) ==
  [a \in DOMAIN d |-> IF a # Root /\ d[Parent(a)].t = "array"
                      THEN [d[a] EXCEPT !.name = NoName] ELSE d[a]]

\* The first child of p whose name is in S, as a set of at most one position.
FirstNamed(d, p, S) ==
  {i \in 1..Size(d, p) :
     /\ d[Append(p, i)].name \in S
     /\ \A j \in 1..(i - 1) : d[Append(p, j)].name \notin S}

(***************************************************************************)
(* Changing a child list.                                                  *)
(***************************************************************************)
Named(sub, name) == [sub EXCEPT ![Root].name = name]

\* A container's label when its list has grown by k.
Resized(label, k) == [label EXCEPT !.n = @ + k]

\* Mutant of DetachItems: the list gets shorter, but what follows the gap keeps
\* its place.
DetachItemsUnlinked(d, p, i, k) ==
  [b \in {a \in DOMAIN d : ~InBlock(p, i, k, a)} |->
     IF b = p THEN Resized(d[p], -k) ELSE d[b]]

\* Take the k children that start at position i out of the list of p.
DetachItems(d, p, i, k) ==
  LET kept == {a \in DOMAIN d : ~InBlock(p, i, k, a)}
  IN [b \in {Shift(p, i, -k, a) : a \in kept} |->
        IF b = p THEN Resized(d[p], -k) ELSE d[Shift(p, i, k, b)]]

\* Put the documents of the sequence subs into the list of p, the first one
\* at position i.
InsertItems(d, p, i, subs) ==
  LET k    == Len(subs)
      old  == {Shift(p, i, k, a) : a \in DOMAIN d}
      new  == UNION {{Below(p, i + j - 1, s) : s \in DOMAIN subs[j]} :
                       j \in 1..k}
  IN [b \in old \cup new |->
        IF b = p THEN Resized(d[p], k)
        ELSE IF InBlock(p, i, k, b)
        THEN subs[Turn(p, b) - i + 1][Rest(p, b)]
        ELSE d[Shift(p, i, -k, b)]]

\* Put them at the end of the list of p.
AddItems(d, p, subs) == InsertItems(d, p, Size(d, p) + 1, subs)
=============================================================================
