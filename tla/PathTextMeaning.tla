--------------------------- MODULE PathTextMeaning ---------------------------
(***************************************************************************)
(* What paths mean, and the properties of PathText.                        *)
(*                                                                         *)
(* A call has, next to its text, the steps that the text was written from, *)
(* one after the other the name of a member or the decimal numeral of an   *)
(* element, as a set that is empty when the text is any text.              *)
(***************************************************************************)
EXTENDS PathText

Decimal[n \in Nat] == IF n < 10 THEN <<Byte["0"] + n>>
                      ELSE Append(Decimal[n \div 10], Byte["0"] + (n % 10))

\* The nodes at the end of the steps, of which the one that comes first counts
\* when names are repeated.
Leads(d, steps, a) ==
  /\ Len(a) = Len(steps)
  /\ \A j \in DOMAIN a :
       LET p == Prefix(a, j - 1)
       IN IF d[p].t = "array" THEN steps[j] = Decimal[a[j] - 1]
          ELSE /\ d[Append(p, a[j])].name = steps[j]
               /\ \A k \in 1..(a[j] - 1) : d[Append(p, k)].name # steps[j]

Reached(d, steps) == {a \in DOMAIN d : Leads(d, steps, a)}

\* A token that an array reads as an index although it is not the decimal
\* numeral of one: the empty token, which is element 0; a numeral that does not
\* fit into a size_t, which wraps around; and a digit with bytes above 9 behind
\* it, which count as digits.
Odd(t) ==
  \/ t = <<>>
  \/ /\ t[1] \in Byte["1"]..Byte["9"]
     /\ \A j \in DOMAIN t : t[j] >= Byte["0"]
     /\ \A n \in 0..(SizeMax - 1) : t # Decimal[n]

\* No such token meets an array.
Regular(d, steps) ==
  \A j \in DOMAIN steps : Odd(steps[j]) =>
    \A a \in Reached(d, SubSeq(steps, 1, j - 1)) : d[a].t # "array"

(***************************************************************************)
(* The pointer as JsonPatch sees it, a sequence of tokens with what each   *)
(* of the readers takes it for.                                            *)
(***************************************************************************)
\* The tokens of a pointer, one behind each slash.
Tokens(t) ==
  FlattenSeq([o \in DOMAIN t |-> IF t[o] = Slash THEN <<TokenAt(t, o)>> ELSE <<>>])

AsPointer == [lead |-> At(pointer, 0) \notin {NUL, Slash}, toks |-> Tokens(pointer)]
LastToken == From(pointer, LastSlash)

\* By the rules of JSON pointers ~0 is a tilde, ~1 a slash, and any other tilde
\* is an error.
WellEscaped(t) ==
  \A j \in DOMAIN t : t[j] = Tilde => At(t, j) \in {Byte["0"], Byte["1"]}

\* What byte s of an escaped name stands for, a tilde for what is behind it.
StandsFor(t, s) ==
  CASE t[s] = Tilde                                 -> <<>>
    [] t[s] # Tilde /\ (s > 1 => t[s - 1] # Tilde)  -> <<t[s]>>
    [] OTHER -> IF t[s] = Byte["0"] THEN <<Tilde>> ELSE <<Slash>>

Unescaped(t) == FlattenSeq([s \in DOMAIN t |-> StandsFor(t, s)])

P == INSTANCE JsonPatch WITH
       Tok        <- Seq(1..255),
       Dash       <- <<Byte["-"]>>,
       Index      <- [t \in Seq(1..255) |-> IndexOf(t)],
       SoughtName <- [t \in Seq(1..255) |-> IF WellEscaped(t) THEN Unescaped(t) ELSE NoName],
       ChildName  <- [t \in Seq(1..255) |-> DecodePointerInplace(t)],
       Fold       <- [name \in Seq(1..255) |-> ToLower(name)]

(***************************************************************************)
(* Properties.                                                             *)
(***************************************************************************)
Modes == {"idle", "convert", "rejected", "find", "found", "hold", "taken"}

\* TypeOK: positions stay inside the texts, and a lookup leads to at most one
\* node, which is a node of the document.
TypeOK ==
  /\ mode \in Modes
  /\ mode # "idle" => /\ call # <<>>
                      /\ i \in 0..Len(path)
                      /\ Len(pointer) <= Len(path)
                      /\ Len(rest) <= Len(pointer)
                      /\ \A S \in {at, found, taken} :
                           S = {} \/ \E a \in DOMAIN call.doc : S = {a}

\* PathFindsWhatItNames: a path written from the names of members and the
\* indices of elements, in any of the notations, is not refused and finds the
\* node they lead to, or none when there is none.  Only an array that meets an
\* odd token may take it for an index.  (pathToPointer, compare_pointers,
\* decode_array_index_from_pointer)
PathFindsWhatItNames ==
  mode \in {"found", "rejected"} =>
    \A steps \in call.steps : Regular(call.doc, steps) =>
      mode = "found" /\ found = Reached(call.doc, steps)

\* LookupsAgree: the node a patch takes out for a pointer is the one that a
\* command reads there, unless its name holds a tilde, which is decoded wrongly,
\* or another member of the object has the name in a different case.
\* (get_item_from_pointer against detach_path)
LookupsAgree ==
  mode = "taken" /\ At(pointer, 0) = Slash =>
    \/ taken = found
    \/ Tilde \in ToSet(LastToken)
    \/ \E a \in at : \E k \in 1..Size(call.doc, a) :
         /\ call.doc[a].t = "object"
         /\ call.doc[Append(a, k)].name # LastToken
         /\ ToLower(call.doc[Append(a, k)].name) = ToLower(LastToken)

\* FollowsLikeJsonPatch: walking the bytes of a pointer finds, and takes out,
\* what JsonPatch says of its tokens.  Only what begins like an index and has a
\* tilde in it is decoded before a patch takes it for an index, and may end early.
\* (get_item_from_pointer, compare_pointers, detach_path)
FollowsLikeJsonPatch ==
  /\ mode = "found" => found = P!GetPointer(call.doc, AsPointer)
  /\ mode = "taken" =>
       \/ taken = {Append(place[1], place[2]) : place \in P!DetachPath(call.doc, AsPointer)}
       \/ /\ At(LastToken, 0) \in Byte["1"]..Byte["9"] /\ Tilde \in ToSet(LastToken)
          /\ \E a \in at : call.doc[a].t = "array"
=============================================================================
