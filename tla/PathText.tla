------------------------------- MODULE PathText -------------------------------
(***************************************************************************)
(* A path argument from its text to the node it finds.  pathToPointer      *)
(* turns what starts with . [ or $ into the text of a JSON pointer;        *)
(* get_item_from_pointer follows that text through the document; and a     *)
(* patch splits it at the last slash, follows the front again, and reads   *)
(* the rest in a way of its own.                                           *)
(***************************************************************************)
EXTENDS JsonDoc, Ascii

CONSTANTS Calls,    \* a document and a path, with the steps it was written from
          SizeMax   \* the numbers of size_t are 0..(SizeMax - 1)

ASSUME CallsAssumption ==
  \A c \in Calls :
    /\ DOMAIN c = {"doc", "path", "steps"}
    /\ WellFormed(c.doc) /\ c.path \in Seq(1..255)
    /\ \A a \in DOMAIN c.doc : c.doc[a].name \in Seq(1..255) \cup {NoName}
ASSUME SizeMaxAssumption == SizeMax \in Nat \ {0}

VARIABLES call,     \* what was asked
          i,        \* how much of the path is converted
          pointer,  \* the text of the pointer
          rest,     \* what is left of the text that is followed
          at,       \* where following it has led, if anywhere
          found,    \* what the whole pointer led to
          taken,    \* what detach_path takes out
          mode
vars == <<call, i, pointer, rest, at, found, taken, mode>>

Slash == Byte["/"]
Tilde == Byte["~"]
Quote == {Byte["'"], Byte["quote"]}

(***************************************************************************)
(* Reading a token, the bytes up to the next slash.                        *)
(***************************************************************************)
TokenAt(t, o) == Slice(t, o, IndexFrom(t, o, {Slash}))

\* The number that each of the first bytes of t end, as if they were digits.  It
\* wraps around.
Numeral(t) ==
  LET number[n \in 0..Len(t)] ==
        IF n = 0 THEN 0 ELSE (10 * number[n - 1] + Value(t[n])) % SizeMax
  IN number

\* Mutant of IndexOf: leading zeros are permitted.
IndexOfZeros(t) ==
  IF \E j \in DOMAIN t : t[j] < Byte["0"] \/ t[1] > Byte["9"] THEN -1
  ELSE Numeral(t)[Len(t)]

\* The index a token spells, or -1.  Whether a byte is above 9 is asked of the
\* first one only.
IndexOf(t) ==
  IF At(t, 0) = Byte["0"] /\ Len(t) > 1 THEN -1
  ELSE IF \E j \in DOMAIN t : t[j] < Byte["0"] \/ t[1] > Byte["9"] THEN -1
  ELSE Numeral(t)[Len(t)]

\* How much of the token t the first n bytes of the name take, or more than there
\* is once they differ: ~0 stands for a tilde and ~1 for a slash.
Escape == {<<Byte["0"], Tilde>>, <<Byte["1"], Slash>>}
Matched(name, t) ==
  LET upto[n \in 0..Len(name)] ==
        IF n = 0 THEN 0
        ELSE LET s == upto[n - 1]
             IN CASE At(t, s) = Tilde /\ <<At(t, s + 1), name[n]>> \in Escape -> s + 2
                  [] At(t, s) # Tilde /\ At(t, s) = name[n]                   -> s + 1
                  [] OTHER                                                    -> Len(t) + 1
  IN upto

\* Mutant of ComparePointers: a name that begins with the token will do.
ComparePointersPrefix(name, t) == \E n \in 0..Len(name) : Matched(name, t)[n] = Len(t)

\* The token t is the escaped form of the name.
ComparePointers(name, t) == Matched(name, t)[Len(name)] = Len(t)

\* decode_pointer_inplace: of the bytes that are read, only an escaped one is
\* written, a tilde at d and a slash behind it.  A wrong escape ends it all.
Decoded(t) ==
  LET decoded[s \in 0..Len(t)] ==
        IF s = 0 THEN [text |-> t, d |-> 0, at |-> "byte"]
        ELSE LET done == decoded[s - 1]
             IN CASE done.at = "byte" /\ t[s] # Tilde -> [done EXCEPT !.d = @ + 1]
                  [] done.at = "byte" /\ t[s] = Tilde -> [done EXCEPT !.at = "escape"]
                  [] done.at = "escape" /\ t[s] = Byte["0"] ->
                       [text |-> [done.text EXCEPT ![done.d + 1] = Tilde],
                        d |-> done.d + 1, at |-> "byte"]
                  [] done.at = "escape" /\ t[s] = Byte["1"] ->
                       [text |-> [done.text EXCEPT ![done.d + 2] = Slash],
                        d |-> done.d + 1, at |-> "byte"]
                  [] OTHER -> [done EXCEPT !.at = "end"]
  IN decoded

DecodePointerInplace(t) ==
  LET all == Decoded(t)[Len(t)]
  IN IF all.at = "byte" THEN Slice(all.text, 0, all.d) ELSE all.text

ToLower(name) == [j \in DOMAIN name |->
  IF name[j] \in Byte["A"]..Byte["Z"] THEN name[j] + 32 ELSE name[j]]

\* The first child of a for which `fits', a function of the positions, is TRUE.
ChildWith(d, a, fits) ==
  LET hits == {k \in 1..Size(d, a) : fits[k]}
  IN IF hits = {} THEN {} ELSE {Append(a, Min(hits))}

\* Mutant of Element: the index past the last one is let through.
ElementPastEnd(d, a, index) ==
  IF index \in 0..Size(d, a) THEN {Append(a, index + 1)} ELSE {}

Element(d, a, index) ==
  IF index \in 0..(Size(d, a) - 1) THEN {Append(a, index + 1)} ELSE {}

(***************************************************************************)
(* Converting: pathToPointer.                                              *)
(***************************************************************************)
path    == call.path
Next1   == At(path, i + 1)          \* the byte behind the one at hand
IsTaken == At(path, 0) \notin {Byte["."], Byte["["], Byte["$"]}
IsRootSign == path \in {<<Byte["."]>>, <<Byte["$"]>>}

Init == /\ call = <<>> /\ i = 0 /\ pointer = <<>> /\ rest = <<>>
        /\ at = {} /\ found = {} /\ taken = {} /\ mode = "idle"

Ask ==
  /\ mode = "idle"
  /\ \E c \in Calls : call' = c
  /\ mode' = "convert"
  /\ UNCHANGED <<i, pointer, rest, at, found, taken>>

\* Start to follow a text from the root.
Follow(text, next) == rest' = text /\ at' = {Root} /\ mode' = next

TakeOver ==
  /\ mode = "convert" /\ IsTaken
  /\ pointer' = path /\ Follow(path, "find")
  /\ UNCHANGED <<call, i, found, taken>>

RootSign ==
  /\ mode = "convert" /\ IsRootSign
  /\ Follow(<<>>, "find")
  /\ UNCHANGED <<call, i, pointer, found, taken>>

Converting == mode = "convert" /\ ~IsTaken /\ ~IsRootSign

\* Append to the pointer and go on at index next.
Convert(bytes, next) ==
  /\ pointer' = pointer \o bytes /\ i' = next
  /\ UNCHANGED <<call, rest, at, found, taken, mode>>

ReadDot == Converting /\ At(path, i) = Byte["."] /\ Convert(<<Slash>>, i + 1)

\* ['name'] or ["name"], where either quote ends the name.
ReadQuoted ==
  LET end == IndexFrom(path, i + 2, Quote)
  IN /\ Converting /\ At(path, i) = Byte["["] /\ Next1 \in Quote
     /\ At(path, end + 1) = Byte["]"]
     /\ Convert(<<Slash>> \o Slice(path, i + 2, end), end + 2)

\* [0] or [-, the text up to the bracket that closes.
ReadIndex ==
  LET end == IndexFrom(path, i + 1, {Byte["]"]})
  IN /\ Converting /\ At(path, i) = Byte["["] /\ (IsDigit(Next1) \/ Next1 = Byte["-"])
     /\ end < Len(path)
     /\ Convert(<<Slash>> \o Slice(path, i + 1, end), end + 1)

ReadName ==
  /\ Converting /\ At(path, i) \notin {Byte["."], Byte["["], NUL}
  /\ LET end == IndexFrom(path, i + 1, {Byte["."], Byte["["]})
     IN Convert(Slice(path, i, end), end)

\* A bracket that is none of the above: an error reply.
RejectBracket ==
  /\ Converting /\ At(path, i) = Byte["["]
  /\ IF Next1 \in Quote
     THEN At(path, IndexFrom(path, i + 2, Quote) + 1) # Byte["]"]
     ELSE \/ ~IsDigit(Next1) /\ Next1 # Byte["-"]
          \/ IndexFrom(path, i + 1, {Byte["]"]}) = Len(path)
  /\ mode' = "rejected" /\ pointer' = <<>>
  /\ UNCHANGED <<call, i, rest, at, found, taken>>

Converted ==
  /\ Converting /\ i = Len(path)
  /\ Follow(pointer, "find")
  /\ UNCHANGED <<call, i, pointer, found, taken>>

(***************************************************************************)
(* Following: get_item_from_pointer.  A text that does not begin with a    *)
(* slash is not followed at all.                                           *)
(***************************************************************************)
Following == mode \in {"find", "hold"}
Token     == TokenAt(rest, 1)
Here      == CHOOSE a \in at : TRUE
Type      == call.doc[Here].t
HasToken  == Following /\ at # {} /\ At(rest, 0) = Slash

Step(next) ==
  /\ at' = next /\ rest' = From(rest, IndexFrom(rest, 1, {Slash}))
  /\ UNCHANGED <<call, i, pointer, found, taken, mode>>

FollowElement ==
  HasToken /\ Type = "array" /\ Step(Element(call.doc, Here, IndexOf(Token)))

FollowMember ==
  /\ HasToken /\ Type = "object"
  /\ Step(ChildWith(call.doc, Here, [k \in 1..Size(call.doc, Here) |->
       ComparePointers(call.doc[Append(Here, k)].name, Token)]))

FollowScalar == HasToken /\ Type \notin Container /\ Step({})

\* The command reads the node, or hands the pointer to a patch.
Find ==
  /\ mode = "find" /\ ~HasToken
  /\ found' = at /\ mode' = "found"
  /\ UNCHANGED <<call, i, pointer, rest, at, taken>>

LastSlash == SelectLastInSeq(pointer, LAMBDA b : b = Slash)

SplitPointer ==
  /\ mode = "found" /\ LastSlash # 0
  /\ Follow(Slice(pointer, 0, LastSlash - 1), "hold")
  /\ UNCHANGED <<call, i, pointer, found, taken>>

\* case_insensitive_strcmp finds the member.
Homonym(d, a, child) ==
  ChildWith(d, a, [k \in 1..Size(d, a) |-> ToLower(d[Append(a, k)].name) = ToLower(child)])

\* Mutant of Detached: the index of an element is taken for its position.
DetachedOneEarly(d, a, child) ==
  CASE d[a].t = "array"  -> Element(d, a, IndexOf(TokenAt(child, 0)) - 1)
    [] d[a].t = "object" -> Homonym(d, a, child)
    [] OTHER             -> {}

\* detach_path looks in the container for the item: an element by its index, which
\* a decoded slash ends, a member by its name, whose case does not matter.
Detached(d, a, child) ==
  CASE d[a].t = "array"  -> Element(d, a, IndexOf(TokenAt(child, 0)))
    [] d[a].t = "object" -> Homonym(d, a, child)
    [] OTHER             -> {}

Detach ==
  /\ mode = "hold" /\ ~HasToken
  /\ taken' = UNION {Detached(call.doc, a, DecodePointerInplace(From(pointer, LastSlash))) : a \in at}
  /\ mode' = "taken"
  /\ UNCHANGED <<call, i, pointer, rest, at, found>>

Reply ==
  /\ mode \in {"rejected", "found", "taken"}
  /\ call' = <<>> /\ i' = 0 /\ pointer' = <<>> /\ rest' = <<>>
  /\ at' = {} /\ found' = {} /\ taken' = {} /\ mode' = "idle"

Next ==
  \/ Ask \/ TakeOver \/ RootSign
  \/ ReadDot \/ ReadQuoted \/ ReadIndex \/ ReadName \/ RejectBracket \/ Converted
  \/ FollowElement \/ FollowMember \/ FollowScalar
  \/ Find \/ SplitPointer \/ Detach \/ Reply

Spec == Init /\ [][Next]_vars
=============================================================================
