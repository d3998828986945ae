------------------------------- MODULE JsonText -------------------------------
(***************************************************************************)
(* The parser and the printer as TairDoc uses them.  A client's JSON is    *)
(* parsed with nothing allowed behind it (createNodeFromJson).  A document *)
(* is printed to save it (TairDocTypeRdbSave), and what was printed is     *)
(* parsed when it is loaded (TairDocTypeRdbLoad).                          *)
(***************************************************************************)
EXTENDS JsonParser, JsonPrinter

CONSTANTS Texts,   \* the texts that clients send
          Docs     \* the documents that are saved

\* The document as TairDoc's other modules see it.
Shape(d) ==
  [a \in DOMAIN d |-> [t |-> d[a].t, name |-> d[a].name,
                       n |-> IF d[a].t \in Container THEN d[a].n ELSE Len(d[a].text)]]

\* A text has no NUL but the one that ends it, and neither has a name.
CStrings == Seq(1..255)
ASSUME TextsAssumption == Name = CStrings /\ \A t \in Texts : t \in CStrings

\* A number is printed into 26 bytes and read from 64.
ASSUME DocsAssumption ==
  \A d \in Docs :
    /\ WellFormed(Shape(d))
    /\ \A a \in DOMAIN d : /\ d[a].text \in CStrings
                           /\ d[a].t = "number" => Len(d[a].text) < NumberBuffer

vars == <<parserVars, printerVars>>

Init == ParserInit /\ PrinterInit

Idle == parsing = "idle" /\ printing = "idle"

CreateNode ==
  /\ Idle
  /\ \E bytes \in Texts : StartParsing(bytes, TRUE)
  /\ UNCHANGED printerVars

Save ==
  /\ Idle
  /\ \E d \in Docs : StartPrinting(d)
  /\ UNCHANGED parserVars

Load ==
  /\ printing = "printed" /\ StartParsing(buffer, FALSE)
  /\ UNCHANGED printerVars

\* The caller takes the result; a document that was saved and loaded is freed.
Reply ==
  /\ parsing \in {"parsed", "failed"} \/ printing = "failed"
  /\ ParserForget /\ PrinterForget

\* What the thread does once it is called.
Work ==
  \/ Load \/ Reply
  \/ ParserNext /\ UNCHANGED printerVars
  \/ PrinterNext /\ UNCHANGED parserVars

Next == CreateNode \/ Save \/ Work

\* A call runs on: the parser and the printer wait for nothing.
Spec == Init /\ [][Next]_vars /\ WF_vars(Work)

(***************************************************************************)
(* Properties.                                                             *)
(***************************************************************************)
ParserStages  == {"idle", "begin", "value", "string", "item", "colon", "after", "failing", "failed", "parsed"}
PrinterStages == {"idle", "value", "key", "colon", "after", "close", "printed", "failed"}

\* TypeOK: the offset stays in the text, and a tree that the parser returns is a
\* document of the kind the commands work on.
TypeOK ==
  /\ parsing \in ParserStages /\ printing \in PrinterStages
  /\ offset \in 0..Length
  /\ Len(open) = Len(here)
  /\ parsing \notin {"idle", "failing", "failed"} => here \in DOMAIN tree
  /\ parsing = "parsed" => WellFormed(Shape(tree))
  /\ filled \in 0..MaxInt /\ length \in 0..MaxInt

\* BuffersHold: what print_value writes has room in the buffer and ends with a
\* NUL where update_offset looks for one; the copy of a string has room for all
\* its decoded bytes.  (ensure; parse_string's allocation_length)
BuffersHold ==
  /\ Len(buffer) <= length
  /\ printing \in {"after", "colon"} => \E j \in filled..(Len(buffer) - 1) : At(buffer, j) = NUL
  /\ Len(copy.bytes) < copy.room

\* FailureFreesAll: when the parser refuses a text, all the items it allocated
\* are freed; when it does not, they are all linked to the root.  (the fail
\* labels of parse_array, parse_object and cJSON_ParseWithLengthOpts)
FailureFreesAll ==
  /\ parsing = "failed" => DOMAIN tree = {}
  /\ parsing = "parsed" => DOMAIN tree = Linked(Root)

\* EndsWithAnAnswer: whatever the text or the document, the caller gets a
\* result.  (the loops of parse_array and parse_object, which step back in the
\* text)
EndsWithAnAnswer == ~Idle ~> Idle
=============================================================================
