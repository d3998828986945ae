--------------------------- MODULE JsonTextMeaning ---------------------------
(***************************************************************************)
(* What a JSON text is and what text a document has, and that JsonText     *)
(* does what they say.  The grammar says of a whole piece of text whether  *)
(* it is a value; it knows of no offset and no item.                       *)
(***************************************************************************)
EXTENDS JsonText

Stripped(s) ==
  LET solid == {j \in DOMAIN s : s[j] \notin Blank}
  IN IF solid = {} THEN <<>> ELSE SubSeq(s, Min(solid), Max(solid))

Enclosed(s, left, right) ==
  Len(s) >= 2 /\ s[1] = Byte[left] /\ Last(s) = Byte[right]

Inner(s) == SubSeq(s, 2, Len(s) - 1)

(***************************************************************************)
(* The grammar, with what cJSON permits: any byte up to 32 as a blank,     *)
(* control characters inside strings, and numbers such as 01 and 1. that   *)
(* strtod reads; and with its limits of nesting and of the length of a     *)
(* number.                                                                 *)
(***************************************************************************)
IsHex4(s) == Len(s) = 4 /\ \A j \in 1..4 : HexDigit(s[j]) # -1

\* What stands between the quotes of a string.
RECURSIVE IsBody(_)
IsBody(s) ==
  \/ s = <<>>
  \/ s[1] \notin {Byte["quote"], Byte["\\"]} /\ IsBody(Tail(s))
  \/ /\ s[1] = Byte["\\"] /\ Len(s) > 1
     /\ \/ s[2] \in DOMAIN Escapes /\ IsBody(From(s, 2))
        \/ /\ s[2] = Byte["u"] /\ Len(s) >= 6 /\ IsHex4(Slice(s, 2, 6))
           /\ \/ ParseHex4(Slice(s, 2, 6)) \notin Surrogate \cup LowSurrogate /\ IsBody(From(s, 6))
              \/ /\ ParseHex4(Slice(s, 2, 6)) \in Surrogate /\ Len(s) >= 12
                 /\ Slice(s, 6, 8) = Bytes(<<"\\", "u">>) /\ IsHex4(Slice(s, 8, 12))
                 /\ ParseHex4(Slice(s, 8, 12)) \in LowSurrogate /\ IsBody(From(s, 12))

IsString(s) == Enclosed(s, "quote", "quote") /\ IsBody(Inner(s))

IsNumber(s) ==
  /\ s # <<>> /\ (IsDigit(s[1]) \/ s[1] = Byte["-"])
  /\ IsNumeral(s) /\ Len(s) < NumberBuffer

RECURSIVE IsValue(_, _), AreElements(_, _), AreMembers(_, _)

\* s is a value inside depth containers.
IsValue(s, depth) ==
  \/ \E word \in DOMAIN Literals : s = Literals[word]
  \/ IsString(s) \/ IsNumber(s)
  \/ /\ depth < NestingLimit
     /\ \/ Enclosed(s, "[", "]") /\ (Stripped(Inner(s)) = <<>> \/ AreElements(Inner(s), depth + 1))
        \/ Enclosed(s, "lbrace", "rbrace") /\ (Stripped(Inner(s)) = <<>> \/ AreMembers(Inner(s), depth + 1))

AreElements(s, depth) ==
  \/ IsValue(Stripped(s), depth)
  \/ \E k \in DOMAIN s : /\ s[k] = Byte["comma"]
                         /\ IsValue(Stripped(Slice(s, 0, k - 1)), depth)
                         /\ AreElements(From(s, k), depth)

IsMember(s, depth) ==
  \E k \in DOMAIN s : /\ s[k] = Byte[":"]
                      /\ IsString(Stripped(Slice(s, 0, k - 1)))
                      /\ IsValue(Stripped(From(s, k)), depth)

AreMembers(s, depth) ==
  \/ IsMember(s, depth)
  \/ \E k \in DOMAIN s : /\ s[k] = Byte["comma"]
                         /\ IsMember(Slice(s, 0, k - 1), depth)
                         /\ AreMembers(From(s, k), depth)

WithoutBom(s) == IF Len(s) > 3 /\ IsPrefix(BOM, s) THEN From(s, 3) ELSE s

IsJson(s) == IsValue(Stripped(WithoutBom(s)), 0)

\* A \u that four hexadecimal digits do not follow counts as the character NUL.
OddEscape(s) ==
  \E j \in DOMAIN s : /\ s[j] = Byte["\\"] /\ At(s, j) = Byte["u"]
                      /\ ~IsHex4(Slice(s, j + 1, Min({j + 5, Len(s)})))

(***************************************************************************)
(* The text of a document.                                                 *)
(***************************************************************************)
Commas(texts) ==
  FlattenSeq([j \in DOMAIN texts |-> IF j = 1 THEN texts[j] ELSE <<Byte["comma"]>> \o texts[j]])

InQuotes(s) == <<Byte["quote"]>> \o s \o <<Byte["quote"]>>

RECURSIVE Rendered(_, _)
Rendered(d, a) ==
  LET child(k) == Append(a, k)
  IN CASE d[a].t = "array" ->
            <<Byte["["]>> \o Commas([k \in 1..d[a].n |-> Rendered(d, child(k))]) \o <<Byte["]"]>>
       [] d[a].t = "object" ->
            <<Byte["lbrace"]>> \o Commas([k \in 1..d[a].n |->
                InQuotes(d[child(k)].name) \o <<Byte[":"]>> \o Rendered(d, child(k))])
              \o <<Byte["rbrace"]>>
       [] d[a].t = "string" -> InQuotes(d[a].text)
       [] OTHER -> d[a].text

\* The document with its strings as they are written.
Spelled(s) == FlattenSeq([j \in DOMAIN s |-> Escaped(s[j])])
InWriting(d) ==
  [a \in DOMAIN d |-> [d[a] EXCEPT
     !.text = IF d[a].t = "string" THEN Spelled(@) ELSE @,
     !.name = IF @ = NoName THEN NoName ELSE Spelled(@)]]

TextOf(d) == Rendered(InWriting(d), Root)

\* A text without escapes, and without its blanks outside of strings.
Compact(s) ==
  LET add(out, j) ==
        IF s[j] \in Blank /\ Cardinality({k \in 1..j : s[k] = Byte["quote"]}) % 2 = 0
        THEN out ELSE Append(out, s[j])
  IN FoldLeft(add, <<>>, [j \in DOMAIN s |-> j])

Deep(d) == \E a \in DOMAIN d : d[a].t \in Container /\ Len(a) >= NestingLimit

(***************************************************************************)
(* Properties.                                                             *)
(***************************************************************************)
\* ReadsJson: the parser accepts exactly the JSON texts, and a text without
\* escapes is that of the document it returns.  It may accept more where a \u
\* is not followed by four digits.  (parse_value and all it calls)
ReadsJson ==
  whole =>
    /\ parsing = "parsed" =>
         /\ IsJson(text) \/ OddEscape(text)
         /\ Byte["\\"] \notin ToSet(text) => Rendered(tree, Root) = Compact(WithoutBom(text))
    /\ parsing = "failed" => ~IsJson(text)

\* RoundTrip: a document that is saved and loaded is what it was, except that
\* elements lose the name a patch left them; only one that is too deep is not
\* loaded.  (print_value against parse_value)
RoundTrip ==
  printing = "printed" =>
    /\ parsing = "parsed" => tree = Bare(item)
    /\ parsing = "failed" => Deep(item)

\* PrintsIfItFits: the printer writes the text of the document, unless this is
\* as long as an int can count, less the two bytes that are always asked for in
\* addition.  (ensure, update_offset)
PrintsIfItFits ==
  /\ printing = "printed" => buffer = TextOf(item) /\ Len(buffer) + 2 <= MaxInt
  /\ printing = "failed"  => Len(TextOf(item)) + 2 > MaxInt
=============================================================================
