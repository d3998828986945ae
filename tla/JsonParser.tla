------------------------------ MODULE JsonParser ------------------------------
(***************************************************************************)
(* cJSON_ParseWithOpts, from the bytes of a text to the cJSON tree.  The   *)
(* calls of parse_value, parse_array and parse_object that are under way   *)
(* are the containers in `open', one inside the other; `here' is the       *)
(* address of the innermost item.  An item is in `tree' from its           *)
(* allocation until it is freed, and a container's label counts its        *)
(* children only once parse_array or parse_object has linked them to it.   *)
(***************************************************************************)
EXTENDS JsonDoc, Ascii

CONSTANTS NestingLimit,   \* CJSON_NESTING_LIMIT
          NumberBuffer    \* the size of number_c_string

ASSUME LimitsAssumption == NestingLimit \in Nat /\ NumberBuffer \in Nat \ {0}

VARIABLES text,     \* the input
          whole,    \* whether nothing may follow the value (require_null_terminated)
          offset,   \* how much of it is read
          open,     \* the types of the containers around the item at hand
          here,     \* its address
          tree,     \* the items that are allocated
          copy,     \* the string that is being decoded: where its text ends, what it
                    \* is for, the bytes it was given and those it has taken
          parsing   \* where parsing stands
parserVars == <<text, whole, offset, open, here, tree, copy, parsing>>

Length       == Len(text) + 1          \* with the NUL
CanAccess(k) == offset + k < Length
ByteHere     == At(text, offset)

(***************************************************************************)
(* Scanning.                                                               *)
(***************************************************************************)
Blank == 0..32

\* buffer_skip_whitespace takes the NUL for a blank too, and steps back on it.
SkipWhitespace(o) ==
  LET solid == {j \in o..Len(text) : At(text, j) \notin Blank}
  IN IF o >= Length THEN o ELSE IF solid = {} THEN Length - 1 ELSE Min(solid)

BOM == <<239, 187, 191>>
SkipBom == IF Length > 4 /\ IsPrefix(BOM, text) THEN 3 ELSE 0

Literals == [null |-> Bytes(<<"n", "u", "l", "l">>),
             false |-> Bytes(<<"f", "a", "l", "s", "e">>),
             true |-> Bytes(<<"t", "r", "u", "e">>)]

(***************************************************************************)
(* Numbers: what strtod takes of the bytes that may belong to one.         *)
(***************************************************************************)
Signs     == {Byte["+"], Byte["-"]}
Exponents == {Byte["e"], Byte["E"]}
Numeric   == (Byte["0"]..Byte["9"]) \cup Signs \cup Exponents \cup {Byte["."]}

Unsigned(s) == IF s # <<>> /\ s[1] \in Signs THEN Tail(s) ELSE s

IsMantissa(s) ==
  /\ \A b \in ToSet(s) : IsDigit(b) \/ b = Byte["."]
  /\ \E b \in ToSet(s) : IsDigit(b)
  /\ Cardinality({j \in DOMAIN s : s[j] = Byte["."]}) <= 1

IsExponent(s) ==
  /\ s[1] \in Exponents /\ Unsigned(Tail(s)) # <<>>
  /\ \A b \in ToSet(Unsigned(Tail(s))) : IsDigit(b)

\* strtod reads all of s.
IsNumeral(s) ==
  LET body == Unsigned(s)
  IN \E k \in DOMAIN body :
       /\ IsMantissa(SubSeq(body, 1, k))
       /\ k < Len(body) => IsExponent(From(body, k))

\* Where the number that starts at o ends: at o itself when there is none.
NumberEnd(o) ==
  LET stop == Min({j \in o..Length : At(text, j) \notin Numeric \/ j = o + NumberBuffer - 1})
  IN Max({o} \cup {j \in o..stop : IsNumeral(Slice(text, o, j))})

(***************************************************************************)
(* Strings.                                                                *)
(***************************************************************************)
\* Mutant of HexDigit: the small letters count from 0.
HexDigitSmall(b) ==
  CASE IsDigit(b)                     -> Value(b)
    [] b \in Byte["A"]..Byte["F"]     -> 10 + b - Byte["A"]
    [] b \in Byte["a"]..Byte["f"]     -> b - Byte["a"]
    [] OTHER                          -> -1

\* parse_hex4: a byte that is no digit makes the whole number 0.
HexDigit(b) ==
  CASE IsDigit(b)                     -> Value(b)
    [] b \in Byte["A"]..Byte["F"]     -> 10 + b - Byte["A"]
    [] b \in Byte["a"]..Byte["f"]     -> 10 + b - Byte["a"]
    [] OTHER                          -> -1

ParseHex4(s) ==
  LET h == [j \in 1..4 |-> HexDigit(s[j])]
  IN IF \E j \in 1..4 : h[j] = -1 THEN 0
     ELSE 4096 * h[1] + 256 * h[2] + 16 * h[3] + h[4]

Utf8(c) ==
  LET low(n) == 128 + ((c \div n) % 64)
  IN CASE c < 128                   -> <<c>>
       [] 128 <= c /\ c < 2048      -> <<192 + c \div 64, low(1)>>
       [] 2048 <= c /\ c < 65536    -> <<224 + c \div 4096, low(64), low(1)>>
       [] c >= 65536                -> <<240 + c \div 262144, low(4096), low(64), low(1)>>

Surrogate     == 55296..56319    \* D800 to DBFF
LowSurrogate  == 56320..57343    \* DC00 to DFFF

Escapes ==
  [b \in {Byte["b"], Byte["f"], Byte["n"], Byte["r"], Byte["t"], Byte["quote"], Byte["\\"], Byte["/"]} |->
     CASE b = Byte["b"] -> 8 [] b = Byte["f"] -> 12 [] b = Byte["n"] -> 10
       [] b = Byte["r"] -> 13 [] b = Byte["t"] -> 9
       [] b \in {Byte["quote"], Byte["\\"], Byte["/"]} -> b]

\* Mutants of QuoteFrom and Skipped: an escaped quote ends the string; both
\* bytes of an escape are taken off.
QuoteFromEscaped(o) ==
  LET end[j \in Nat] == IF j >= Length \/ At(text, j) = Byte["quote"] THEN j ELSE end[j + 1]
  IN end[o]

SkippedBoth(o, end) ==
  LET count[j \in Nat] == IF j >= end THEN 0
                          ELSE IF At(text, j) = Byte["\\"] THEN 2 + count[j + 2] ELSE count[j + 1]
  IN count[o]

\* The quote that ends a string, looking from o on, or else the end of the
\* text; and the backslashes on the way to it.
QuoteFrom(o) ==
  LET end[j \in Nat] == IF j >= Length \/ At(text, j) = Byte["quote"] THEN j
                        ELSE end[j + IF At(text, j) = Byte["\\"] THEN 2 ELSE 1]
  IN end[o]

Skipped(o, end) ==
  LET count[j \in Nat] == IF j >= end THEN 0
                          ELSE IF At(text, j) = Byte["\\"] THEN 1 + count[j + 2] ELSE count[j + 1]
  IN count[o]

\* A C string ends at its first NUL.
CString(bytes) == Slice(bytes, 0, IndexFrom(bytes, 0, {NUL}))

(***************************************************************************)
(* Items.                                                                  *)
(***************************************************************************)
\* A new item, of no type yet.
NewItem == [t |-> "invalid", n |-> 0, name |-> NoName, text |-> <<>>]

\* The items with one more, at the address a.
WithNew(a) == [b \in DOMAIN tree \cup {a} |-> IF b = a THEN NewItem ELSE tree[b]]

\* The label of the item at hand is set and parse_value returns true.
ParsedAs(label, o) ==
  /\ tree' = [tree EXCEPT ![here] = [label EXCEPT !.name = tree[here].name]]
  /\ offset' = o /\ parsing' = "after"
  /\ UNCHANGED <<text, whole, open, here, copy>>

\* A function returns false: everything that is open gives up.
FailAt(o) ==
  /\ offset' = o /\ parsing' = "failing"
  /\ UNCHANGED <<text, whole, open, here, tree, copy>>

NoCopy == [end |-> 0, into |-> "text", room |-> 1, bytes |-> <<>>]

ParserInit ==
  /\ text = <<>> /\ whole = FALSE /\ offset = 0
  /\ open = <<>> /\ here = Root /\ tree = <<>>
  /\ copy = NoCopy /\ parsing = "idle"

StartParsing(bytes, all) ==
  /\ parsing = "idle"
  /\ text' = bytes /\ whole' = all /\ offset' = 0
  /\ tree' = [a \in {Root} |-> NewItem] /\ parsing' = "begin"
  /\ UNCHANGED <<open, here, copy>>

Begin ==
  /\ parsing = "begin"
  /\ offset' = SkipWhitespace(SkipBom) /\ parsing' = "value"
  /\ UNCHANGED <<text, whole, open, here, tree, copy>>

(***************************************************************************)
(* parse_string.                                                           *)
(***************************************************************************)
\* The text of a string starts at o; its end is looked for, and the copy is
\* allocated.
StartString(o, into) ==
  LET end == QuoteFrom(o + 1)
  IN IF At(text, o) # Byte["quote"] \/ end >= Length THEN FailAt(o + 1)
     ELSE /\ copy' = [end |-> end, into |-> into, room |-> end - o - Skipped(o + 1, end) + 1,
                      bytes |-> <<>>]
          /\ offset' = o + 1 /\ parsing' = "string"
          /\ UNCHANGED <<text, whole, open, here, tree>>

Decoding == parsing = "string" /\ offset < copy.end
Escaping == Decoding /\ ByteHere = Byte["\\"]

\* The next n bytes are decoded.
Decode(bytes, n) ==
  /\ copy' = [copy EXCEPT !.bytes = @ \o bytes] /\ offset' = offset + n
  /\ UNCHANGED <<text, whole, open, here, tree, parsing>>

CopyBytes ==
  LET next == Min({copy.end, IndexFrom(text, offset, {Byte["\\"]})})
  IN Decoding /\ next > offset /\ Decode(Slice(text, offset, next), next - offset)

Unescape ==
  /\ Escaping /\ At(text, offset + 1) \in DOMAIN Escapes
  /\ Decode(<<Escapes[At(text, offset + 1)]>>, 2)

\* utf16_literal_to_utf8: the code unit of the \u at o, and whether there is one
\* before the end.
Unit(o)    == ParseHex4(Slice(text, o + 2, o + 6))
HasUnit(o) == At(text, o + 1) = Byte["u"] /\ copy.end - o >= 6
HasPair    ==
  /\ Unit(offset) \in Surrogate
  /\ HasUnit(offset + 6) /\ At(text, offset + 6) = Byte["\\"] /\ Unit(offset + 6) \in LowSurrogate

UnescapeUnit ==
  /\ Escaping /\ HasUnit(offset)
  /\ \E unit \in {Unit(offset)} \ (Surrogate \cup LowSurrogate) : Decode(Utf8(unit), 6)

UnescapePair ==
  /\ Escaping /\ HasUnit(offset) /\ HasPair
  /\ \E high \in {Unit(offset) - 55296}, low \in {Unit(offset + 6) - 56320} :
       Decode(Utf8(65536 + 1024 * high + low), 12)

BadEscape ==
  /\ Escaping /\ At(text, offset + 1) \notin DOMAIN Escapes
  /\ HasUnit(offset) => Unit(offset) \in Surrogate \cup LowSurrogate /\ ~HasPair
  /\ FailAt(offset)

\* Mutant of EndString: the name of a member stays in valuestring.
EndStringNameless ==
  /\ parsing = "string" /\ offset >= copy.end
  /\ tree' = [tree EXCEPT ![here].t = "string", ![here].text = CString(copy.bytes)]
  /\ parsing' = IF copy.into = "name" THEN "colon" ELSE "after"
  /\ offset' = copy.end + 1
  /\ UNCHANGED <<text, whole, open, here, copy>>

EndString ==
  /\ parsing = "string" /\ offset >= copy.end
  /\ IF copy.into = "name"
     THEN /\ tree' = [tree EXCEPT ![here].name = CString(copy.bytes)]
          /\ parsing' = "colon"
     ELSE /\ tree' = [tree EXCEPT ![here].t = "string", ![here].text = CString(copy.bytes)]
          /\ parsing' = "after"
  /\ offset' = copy.end + 1
  /\ UNCHANGED <<text, whole, open, here, copy>>

(***************************************************************************)
(* parse_value, by the first byte.                                         *)
(***************************************************************************)
Reading == parsing = "value"
StartsWith(bytes) == offset + Len(bytes) <= Length /\ IsPrefix(bytes, From(text, offset))
Reads(type) == [NewItem EXCEPT !.t = type]

ParseLiteral ==
  /\ Reading
  /\ \E word \in DOMAIN Literals :
       /\ StartsWith(Literals[word])
       /\ ParsedAs([Reads(IF word = "null" THEN "null" ELSE "boolean") EXCEPT !.text = Literals[word]],
                   offset + Len(Literals[word]))

ParseString == Reading /\ ByteHere = Byte["quote"] /\ StartString(offset, "text")

ParseNumber ==
  /\ Reading /\ (ByteHere = Byte["-"] \/ IsDigit(ByteHere))
  /\ LET end == NumberEnd(offset)
     IN IF end > offset
        THEN ParsedAs([Reads("number") EXCEPT !.text = Slice(text, offset, end)], end)
        ELSE FailAt(offset)

Opening == [array |-> Byte["["], object |-> Byte["lbrace"]]
Closing == [array |-> Byte["]"], object |-> Byte["rbrace"]]

\* The first item of a container is allocated.
OpenContainer(type) ==
  LET o == SkipWhitespace(offset + 1)
  IN /\ Reading /\ ByteHere = Opening[type]
     /\ IF Len(open) >= NestingLimit THEN FailAt(offset)
        ELSE IF At(text, o) = Closing[type]
        THEN ParsedAs(Reads(type), o + 1)
        ELSE /\ open' = Append(open, type) /\ here' = Append(here, 1)
             /\ tree' = WithNew(Append(here, 1))
             /\ offset' = o - 1 /\ parsing' = "item"
             /\ UNCHANGED <<text, whole, copy>>

NoValue ==
  /\ Reading
  /\ \A word \in DOMAIN Literals : ~StartsWith(Literals[word])
  /\ ByteHere \notin {Byte["quote"], Byte["-"], Byte["["], Byte["lbrace"]} /\ ~IsDigit(ByteHere)
  /\ FailAt(offset)

(***************************************************************************)
(* Inside a container.  The byte at hand is the one before an item.        *)
(***************************************************************************)
Innermost == Last(open)
Behind    == SkipWhitespace(offset)

ParseElement ==
  /\ parsing = "item" /\ Innermost = "array"
  /\ offset' = SkipWhitespace(offset + 1) /\ parsing' = "value"
  /\ UNCHANGED <<text, whole, open, here, tree, copy>>

ParseName ==
  /\ parsing = "item" /\ Innermost = "object"
  /\ IF CanAccess(1) THEN StartString(SkipWhitespace(offset + 1), "name") ELSE FailAt(offset)

ParseColon ==
  /\ parsing = "colon" /\ At(text, Behind) = Byte[":"]
  /\ offset' = SkipWhitespace(Behind + 1) /\ parsing' = "value"
  /\ UNCHANGED <<text, whole, open, here, tree, copy>>

NoColon == parsing = "colon" /\ At(text, Behind) # Byte[":"] /\ FailAt(Behind)

InContainer == parsing = "after" /\ open # <<>>

NextItem ==
  LET next == Append(Parent(here), Last(here) + 1)
  IN /\ InContainer /\ At(text, Behind) = Byte["comma"]
     /\ tree' = WithNew(next) /\ here' = next
     /\ offset' = Behind /\ parsing' = "item"
     /\ UNCHANGED <<text, whole, open, copy>>

\* The list becomes the child list of the container's item.
CloseContainer ==
  /\ InContainer /\ At(text, Behind) = Closing[Innermost]
  /\ tree' = [tree EXCEPT ![Parent(here)].t = Innermost, ![Parent(here)].n = Last(here)]
  /\ open' = Front(open) /\ here' = Parent(here)
  /\ offset' = Behind + 1
  /\ UNCHANGED <<text, whole, copy, parsing>>

NoEnd ==
  /\ InContainer /\ At(text, Behind) \notin {Byte["comma"], Closing[Innermost]}
  /\ FailAt(Behind)

(***************************************************************************)
(* The end.                                                                *)
(***************************************************************************)
\* What cJSON_Delete frees with the item at a: the items it is linked to.
Linked(a) ==
  {b \in DOMAIN tree :
     /\ Under(a, b)
     /\ \A k \in Len(a)..(Len(b) - 1) :
          Prefix(b, k) \in DOMAIN tree /\ b[k + 1] <= tree[Prefix(b, k)].n}

Delete(addresses) == tree' = [a \in DOMAIN tree \ addresses |-> tree[a]]

\* Mutants of GiveUp: only the last item of the list is deleted; and the caller
\* goes on trying.
GiveUpLastOnly ==
  /\ parsing = "failing" /\ open # <<>>
  /\ Delete(Linked(here))
  /\ open' = Front(open) /\ here' = Parent(here)
  /\ UNCHANGED <<text, whole, offset, copy, parsing>>

GiveUpAgain ==
  LET list == {Append(Parent(here), k) : k \in 1..Last(here)}
  IN /\ parsing = "failing" /\ open # <<>>
     /\ Delete(UNION {Linked(a) : a \in list})
     /\ UNCHANGED <<text, whole, offset, open, here, copy, parsing>>

\* parse_array or parse_object deletes its list and returns false.
GiveUp ==
  LET list == {Append(Parent(here), k) : k \in 1..Last(here)}
  IN /\ parsing = "failing" /\ open # <<>>
     /\ Delete(UNION {Linked(a) : a \in list})
     /\ open' = Front(open) /\ here' = Parent(here)
     /\ UNCHANGED <<text, whole, offset, copy, parsing>>

Refuse ==
  /\ parsing = "failing" /\ open = <<>>
  /\ Delete(Linked(Root))
  /\ parsing' = "failed"
  /\ UNCHANGED <<text, whole, offset, open, here, copy>>

\* The value is the result, unless more follows that must not.
Accept ==
  /\ parsing = "after" /\ open = <<>>
  /\ IF whole /\ At(text, Behind) # NUL THEN FailAt(Behind)
     ELSE /\ parsing' = "parsed"
          /\ UNCHANGED <<text, whole, offset, open, here, tree, copy>>

ParserForget ==
  /\ text' = <<>> /\ whole' = FALSE /\ offset' = 0
  /\ open' = <<>> /\ here' = Root /\ tree' = <<>>
  /\ copy' = NoCopy /\ parsing' = "idle"

ParserNext ==
  \/ Begin
  \/ ParseLiteral \/ ParseString \/ ParseNumber \/ NoValue
  \/ CopyBytes \/ Unescape \/ UnescapeUnit \/ UnescapePair \/ BadEscape \/ EndString
  \/ \E type \in Container : OpenContainer(type)
  \/ ParseElement \/ ParseName \/ ParseColon \/ NoColon \/ NextItem \/ CloseContainer \/ NoEnd
  \/ GiveUp \/ Refuse \/ Accept
=============================================================================
