----------------------------- MODULE JsonPrinter -----------------------------
(***************************************************************************)
(* cJSON_PrintUnformatted, from a cJSON tree to its text in a buffer that  *)
(* grows.  print_value leaves most of what it writes to update_offset,     *)
(* which measures it up to its NUL.  An item's label holds the bytes of a  *)
(* string, and of a number or a literal the characters it is printed as.   *)
(***************************************************************************)
EXTENDS JsonDoc, Ascii

CONSTANTS DefaultSize,  \* default_buffer_size
          MaxInt        \* INT_MAX

ASSUME SizesAssumption ==
  DefaultSize \in Nat /\ MaxInt \in Nat /\ 0 < DefaultSize /\ DefaultSize <= MaxInt

VARIABLES item,      \* what is printed
          spot,      \* the node at hand
          buffer,    \* what has been written
          length,    \* the size of the buffer
          filled,    \* its offset
          printing   \* where printing stands
printerVars == <<item, spot, buffer, length, filled, printing>>

(***************************************************************************)
(* The buffer.                                                             *)
(***************************************************************************)
\* Mutant of Ensure: a buffer is only ever doubled.
EnsureDoubled(o, needed) ==
  LET total == needed + o + 1
  IN CASE o >= length \/ needed > MaxInt                    -> 0
       [] o < length /\ total <= length                     -> length
       [] o < length /\ total > length /\ total <= MaxInt \div 2 -> 2 * total
       [] o < length /\ total > length /\ total > MaxInt \div 2  -> 0

\* The size of the buffer once it has room for needed bytes behind o; 0 when
\* there is none to be had.
Ensure(o, needed) ==
  LET total == needed + o + 1
  IN CASE o >= length \/ needed > MaxInt                    -> 0
       [] o < length /\ total <= length                     -> length
       [] o < length /\ total > length /\ total <= MaxInt \div 2 -> 2 * total
       [] o < length /\ total > length /\ total > MaxInt \div 2  ->
            IF total <= MaxInt THEN MaxInt ELSE 0

\* update_offset
Measured == IndexFrom(buffer, filled, {NUL})

\* Make room for needed bytes at o and write there, of which the first `advance'
\* are counted; then go on at the node a.
Emit(o, needed, bytes, advance, a, then) ==
  LET size == Ensure(o, needed)
  IN IF size = 0
     THEN /\ printing' = "failed" /\ buffer' = <<>> /\ length' = 0
          /\ UNCHANGED <<item, spot, filled>>
     ELSE /\ buffer' = Slice(buffer, 0, o) \o bytes \o From(buffer, o + Len(bytes))
          /\ length' = size /\ filled' = o + advance
          /\ spot' = a /\ printing' = then
          /\ UNCHANGED item

(***************************************************************************)
(* Strings: print_string_ptr.                                              *)
(***************************************************************************)
Short ==
  [b \in {8, 9, 10, 12, 13, 34, 92} |->
     CASE b = 8 -> Byte["b"] [] b = 9 -> Byte["t"] [] b = 10 -> Byte["n"]
       [] b = 12 -> Byte["f"] [] b = 13 -> Byte["r"] [] b \in {34, 92} -> b]

\* How much longer a byte gets.
EscapeCharacters(b) == IF b \in DOMAIN Short THEN 1 ELSE IF b < 32 THEN 5 ELSE 0

OutputLength(s) ==
  LET longer(n) == Cardinality({j \in DOMAIN s : EscapeCharacters(s[j]) = n})
  IN Len(s) + longer(1) + 5 * longer(5)

HexCharacter(n) == IF n < 10 THEN Byte["0"] + n ELSE Byte["a"] + (n - 10)

Escaped(b) ==
  CASE b \in DOMAIN Short              -> <<Byte["\\"], Short[b]>>
    [] b \notin DOMAIN Short /\ b > 31 -> <<b>>
    [] OTHER -> Bytes(<<"\\", "u", "0", "0">>) \o <<HexCharacter(b \div 16), HexCharacter(b % 16)>>

\* The quote that ends a string is put where the output should end.
Quoted(s) ==
  LET body == FlattenSeq([j \in DOMAIN s |-> Escaped(s[j])])
  IN <<Byte["quote"]>> \o Slice(body, 0, OutputLength(s)) \o <<Byte["quote"], NUL>>

(***************************************************************************)
(* Items.                                                                  *)
(***************************************************************************)
Kind   == item[spot].t
Within == item[Parent(spot)].t
HasNext == spot[Len(spot)] < item[Parent(spot)].n
NextSpot == [spot EXCEPT ![Len(spot)] = @ + 1]

PrinterInit ==
  /\ item = <<>> /\ spot = Root
  /\ buffer = <<>> /\ length = 0 /\ filled = 0 /\ printing = "idle"

StartPrinting(d) ==
  /\ printing = "idle"
  /\ item' = d /\ length' = DefaultSize /\ printing' = "value"
  /\ UNCHANGED <<spot, buffer, filled>>

PrintLiteral ==
  /\ printing = "value" /\ Kind \in {"null", "boolean"}
  /\ LET word == item[spot].text
     IN Emit(filled, Len(word) + 1, Append(word, NUL), 0, spot, "after")

PrintNumber ==
  /\ printing = "value" /\ Kind = "number"
  /\ LET numeral == item[spot].text
     IN Emit(filled, Len(numeral) + 1, Append(numeral, NUL), Len(numeral), spot, "after")

PrintString ==
  /\ printing = "value" /\ Kind = "string"
  /\ Emit(filled, OutputLength(item[spot].text) + 3, Quoted(item[spot].text), 0, spot, "after")

\* The bracket has no NUL behind it.
PrintOpening ==
  LET inside == IF Size(item, spot) = 0 THEN spot ELSE Append(spot, 1)
      next(stage) == IF Size(item, spot) = 0 THEN "close" ELSE stage
  IN /\ printing = "value"
     /\ \/ Kind = "array"  /\ Emit(filled, 1, <<Byte["["]>>, 1, inside, next("value"))
        \/ Kind = "object" /\ Emit(filled, 2, <<Byte["lbrace"]>>, 1, inside, next("key"))

PrintKey ==
  /\ printing = "key"
  /\ Emit(filled, OutputLength(item[spot].name) + 3, Quoted(item[spot].name), 0, spot, "colon")

PrintColon ==
  /\ printing = "colon"
  /\ Emit(Measured, 1, <<Byte[":"]>>, 1, spot, "value")

Inside == printing = "after" /\ spot # Root

\* A comma, if another element follows.
PrintComma ==
  /\ Inside /\ Within = "array" /\ HasNext
  /\ Emit(Measured, 2, <<Byte["comma"], NUL>>, 1, NextSpot, "value")

\* The same behind a member, which ends with a NUL anyway.
EndMember ==
  /\ Inside /\ Within = "object"
  /\ IF HasNext THEN Emit(Measured, 2, <<Byte["comma"], NUL>>, 1, NextSpot, "key")
                ELSE Emit(Measured, 1, <<NUL>>, 0, Parent(spot), "close")

EndElements ==
  /\ Inside /\ Within = "array" /\ ~HasNext
  /\ Emit(Measured, 2, <<Byte["]"], NUL>>, 0, Parent(spot), "after")

PrintClosing ==
  /\ printing = "close"
  /\ Emit(filled, 2, <<IF Kind = "array" THEN Byte["]"] ELSE Byte["rbrace"], NUL>>, 0, spot, "after")

\* The text is what was measured last.
Finish ==
  /\ printing = "after" /\ spot = Root
  /\ buffer' = Slice(buffer, 0, Measured) /\ length' = Measured + 1 /\ filled' = Measured
  /\ printing' = "printed"
  /\ UNCHANGED <<item, spot>>

PrinterForget ==
  /\ item' = <<>> /\ spot' = Root
  /\ buffer' = <<>> /\ length' = 0 /\ filled' = 0 /\ printing' = "idle"

PrinterNext ==
  \/ PrintLiteral \/ PrintNumber \/ PrintString \/ PrintOpening \/ PrintKey \/ PrintColon
  \/ PrintComma \/ EndMember \/ EndElements \/ PrintClosing \/ Finish
=============================================================================
