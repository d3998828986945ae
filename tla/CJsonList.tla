------------------------------ MODULE CJsonList ------------------------------
(***************************************************************************)
(* The child list of one array or object as cJSON keeps it in memory.  The *)
(* children are linked by next, which ends in NULL, and by prev, which     *)
(* does not: the prev of the first child is the last child, so that an     *)
(* append need not walk the list.  Each action is one call on a container, *)
(* with the allocation of the item it puts in or the deletion of the item  *)
(* it takes out.  An allocated item is zeroed, a freed one keeps what was  *)
(* in its memory.                                                          *)
(*                                                                         *)
(* The module is about the links alone: what an item is, and its own       *)
(* children, do not matter to them.                                        *)
(***************************************************************************)
EXTENDS Naturals, Sequences, FiniteSets

CONSTANTS Item,     \* the addresses at which an item may be allocated
          NULL,
          MaxIndex  \* bound: the largest index asked for

ASSUME ItemAssumption == IsFiniteSet(Item) /\ NULL \notin Item
ASSUME IndexAssumption == MaxIndex \in Nat

VARIABLES child,   \* the first child of the container
          next,    \* the links of each item
          prev,
          live     \* the items that are allocated

vars == <<child, next, prev, live>>

(***************************************************************************)
(* Following the list.                                                     *)
(***************************************************************************)
\* The first n items met from the first child on, as a set of at most one
\* sequence: none when the list has fewer.
Walks(n) ==
  {p \in [1..n -> Item] :
     p[1] = child /\ \A i \in 1..(n - 1) : p[i + 1] = next[p[i]]}

\* get_array_item: the item at an index, NULL past the end.
ItemAt(w) ==
  IF Walks(w + 1) = {} THEN NULL ELSE (CHOOSE p \in Walks(w + 1) : TRUE)[w + 1]

\* The items from x to the end of its list: what cJSON_Delete(x) frees.
Closed(S) == \A y \in S : next[y] # NULL => next[y] \in S
From(x)   == {y \in Item : \A S \in SUBSET Item : x \in S /\ Closed(S) => y \in S}

(***************************************************************************)
(* The calls.                                                              *)
(***************************************************************************)
Init ==
  /\ child = NULL
  /\ next = [x \in Item |-> NULL] /\ prev = [x \in Item |-> NULL]
  /\ live = {}

\* cJSON_New_Item clears the memory it got.
Zeroed(link, x) == [link EXCEPT ![x] = NULL]

Alloc(x) ==
  /\ x \in Item \ live
  /\ live' = live \cup {x}

\* x stays alone, and nothing leads to it.
LeaveOut(x) ==
  /\ next' = Zeroed(next, x) /\ prev' = Zeroed(prev, x)
  /\ UNCHANGED child

\* Mutant of LinkLast: the first child keeps its prev.
LinkLastKeepsTail(x) ==
  LET last == prev[child]
  IN /\ child # NULL /\ last # NULL
     /\ next' = [Zeroed(next, x) EXCEPT ![last] = x]
     /\ prev' = [Zeroed(prev, x) EXCEPT ![x] = last]
     /\ UNCHANGED child

\* add_item_to_array, on an empty list and on any other.  A first child
\* without a prev is passed over in silence.
LinkFirst(x) ==
  /\ child = NULL
  /\ child' = x
  /\ next' = [Zeroed(next, x) EXCEPT ![x] = NULL]
  /\ prev' = [Zeroed(prev, x) EXCEPT ![x] = x]

LinkLast(x) ==
  LET last == prev[child]
  IN /\ child # NULL
     /\ IF last = NULL
        THEN LeaveOut(x)
        ELSE /\ next' = [Zeroed(next, x) EXCEPT ![last] = x]
             /\ prev' = [Zeroed(prev, x) EXCEPT ![x] = last, ![child] = x]
             /\ UNCHANGED child

AddToList(x) == LinkFirst(x) \/ LinkLast(x)

\* Mutant of LinkBefore: a new first child does not take over the prev of the
\* old one.
LinkBeforeNoTail(x, y) ==
  LET before == prev[y]
  IN /\ next' = [i \in Item |->
                   IF i = x THEN y
                   ELSE IF y # child /\ i = before THEN x ELSE next[i]]
     /\ prev' = [prev EXCEPT ![x] = IF y = child THEN NULL ELSE before, ![y] = x]
     /\ child' = IF y = child THEN x ELSE child

\* x goes in front of the child y.
LinkBefore(x, y) ==
  LET before == prev[y]
  IN /\ next' = [i \in Item |->
                   IF i = x THEN y
                   ELSE IF y # child /\ i = before THEN x ELSE next[i]]
     /\ prev' = [prev EXCEPT ![x] = before, ![y] = x]
     /\ child' = IF y = child THEN x ELSE child

\* Mutant of Unlink: the item taken out still leads to its old neighbour.
UnlinkKeepsNext(x) ==
  LET before == prev[x]
      after  == next[x]
  IN /\ next' = [i \in Item |-> IF x # child /\ i = before THEN after ELSE next[i]]
     /\ prev' = [i \in Item |->
                   IF i = x THEN NULL
                   ELSE IF i = after \/ (after = NULL /\ i = child) THEN before
                   ELSE prev[i]]
     /\ child' = IF x = child THEN after ELSE child

\* cJSON_DetachItemViaPointer.  The prev of the first child moves on to the
\* second with the first, and to the last but one with the last.
Unlink(x) ==
  LET before == prev[x]
      after  == next[x]
  IN /\ next' = [i \in Item |->
                   IF i = x THEN NULL
                   ELSE IF x # child /\ i = before THEN after ELSE next[i]]
     /\ prev' = [i \in Item |->
                   IF i = x THEN NULL
                   ELSE IF i = after \/ (after = NULL /\ i = child) THEN before
                   ELSE prev[i]]
     /\ child' = IF x = child THEN after ELSE child

\* JSON.ARRPUSH, a new member, the token "-".
Add(x) == Alloc(x) /\ AddToList(x)

\* x goes in at index w, past the end it is appended.
PutAt(w, x) ==
  LET y == ItemAt(w)
  IN Alloc(x) /\ IF y = NULL THEN AddToList(x) ELSE LinkBefore(x, y)

\* JSON.ARRINSERT, with cJSON_InsertItemInArray: in front of an item that has
\* lost its prev nothing is put.
Insert(w, x) ==
  LET y == ItemAt(w)
  IN IF y \notin {NULL, child} /\ prev[y] = NULL
     THEN Alloc(x) /\ LeaveOut(x)
     ELSE PutAt(w, x)

\* A patch: insert_item_in_array tells the end from a place past it, where it
\* fails and the item is freed again.
PatchInsert(w, x) ==
  /\ w > 0 => ItemAt(w - 1) # NULL
  /\ PutAt(w, x)

\* A detached item is deleted, and with it whatever it leads to.
Delete(w) ==
  \E x \in Item :
    /\ x = ItemAt(w)
    /\ Unlink(x)
    /\ live' = live \ From(x)'

\* The parser and cJSON_Duplicate link the children they make one after the
\* other, and at the end give the first one its prev.
Build(s) ==
  LET Place(x) == CHOOSE i \in DOMAIN s : s[i] = x
      made     == {s[i] : i \in DOMAIN s}
  IN /\ child = NULL /\ live = {} /\ s # <<>>
     /\ live' = made
     /\ child' = s[1]
     /\ next' = [x \in Item |->
                   IF x \notin made THEN next[x]
                   ELSE IF Place(x) = Len(s) THEN NULL ELSE s[Place(x) + 1]]
     /\ prev' = [x \in Item |->
                   IF x \notin made THEN prev[x]
                   ELSE IF Place(x) = 1 THEN s[Len(s)] ELSE s[Place(x) - 1]]

\* The container is deleted with all its children, and made anew.
Clear ==
  /\ child # NULL
  /\ child' = NULL
  /\ live' = live \ From(child)
  /\ UNCHANGED <<next, prev>>

Orders == {s \in UNION {[1..n -> Item] : n \in 1..Cardinality(Item)} :
             \A i, j \in DOMAIN s : s[i] = s[j] => i = j}

Next ==
  \/ \E x \in Item : Add(x)
  \/ \E w \in 0..MaxIndex, x \in Item : Insert(w, x) \/ PatchInsert(w, x)
  \/ \E w \in 0..MaxIndex : Delete(w)
  \/ \E s \in Orders : Build(s)
  \/ Clear

Spec == Init /\ [][Next]_vars

(***************************************************************************)
(* Properties.                                                             *)
(***************************************************************************)
\* The container and the items that are allocated lead to no freed item.
TypeOK ==
  /\ next \in [Item -> Item \cup {NULL}]
  /\ prev \in [Item -> Item \cup {NULL}]
  /\ live \subseteq Item
  /\ {child} \cup {next[x] : x \in live} \cup {prev[x] : x \in live} \subseteq live \cup {NULL}

\* The children in order, for a list that ends.
Listed ==
  IF child = NULL THEN <<>>
  ELSE CHOOSE p \in UNION {Walks(n) : n \in 1..Cardinality(Item)} : next[p[Len(p)]] = NULL

\* Every item that is allocated is a child, once, and prev leads from each
\* child to the one before it and from the first to the last: the next append
\* and the next detach rely on it.
WellLinked ==
  LET s == Listed
  IN /\ live = {s[i] : i \in DOMAIN s}
     /\ \A i \in DOMAIN s : prev[s[i]] = IF i = 1 THEN s[Len(s)] ELSE s[i - 1]

\* The linked children are a list: each call does to it what it promises, and
\* no other child is lost or freed.
List == INSTANCE ItemList WITH items <- Listed

ImplementsList == List!Spec
=============================================================================
