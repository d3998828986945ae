------------------------------ MODULE MCJsonText ------------------------------
(***************************************************************************)
(* Instances of JsonTextMeaning for TLC: texts put together from the       *)
(* pieces of JSON in every order, and small documents.                     *)
(***************************************************************************)
EXTENDS JsonTextMeaning

MCName      == Seq(1..255)
MCNoName    == <<-1>>
MCValueName == Bytes(<<"v", "a", "l", "u", "e">>)

\* All the texts of up to n of the pieces.
RECURSIVE Joined(_, _)
Joined(n, pieces) ==
  IF n = 0 THEN {<<>>}
  ELSE LET shorter == Joined(n - 1, pieces)
       IN shorter \cup {t \o piece : t \in shorter, piece \in pieces}

C(c) == <<Byte[c]>>
Q    == Byte["quote"]
A    == <<Q, Byte["a"], Q>>

\* Every piece with every other; lists that are deeper than the limit; members.
Structures ==
  Joined(4, {C("["), C("]"), C("lbrace"), C("rbrace"), C("comma"), C(":"), A, C("1"), <<32>>})
    \cup Joined(6, {C("["), C("]"), C("comma"), Literals.true})
    \cup {C("lbrace") \o s : s \in Joined(6, {A \o C(":"), C("comma"), C("1"), C("rbrace")})}
    \cup Joined(5, {C("lbrace") \o A \o C(":"), C("["), C("]"), C("rbrace"), C("1")})
    \cup {<<10>> \o Literals.false, BOM, BOM \o C("1"), BOM \o <<32>> \o C("["), Bytes(<<"n", "u", "l">>), C("[") \o Literals.null \o C("]")}

Numbers == Joined(5, {C("1"), C("."), C("-"), C("e"), C("+")})
             \cup {C("[") \o s : s \in Joined(4, {C("0"), C("."), C("]"), C("e")})}

Unicode(a, b, c, d) == Bytes(<<"\\", "u", a, b, c, d>>)

\* Escapes of every kind next to each other, and a reverse solidus, a quote and a
\* \u in every order.
Strings ==
  {<<Q>> \o s \o <<Q>> : s \in
     Joined(2, {C("a"), <<9>>, <<200>>, Bytes(<<"\\", "n">>), Bytes(<<"\\", "x">>), C("\\"),
                Bytes(<<"\\", "/">>), Unicode("0", "0", "4", "1"), Unicode("0", "0", "e", "9"),
                Unicode("2", "0", "A", "c"), Unicode("D", "8", "3", "D"), Unicode("D", "E", "0", "0"),
                Unicode("0", "0", "0", "0"), Unicode("1", "z", "0", "0")})
     \cup {Bytes(<<"\\", "u">>) \o t : t \in Joined(5, {C("\\"), <<Q>>, C("1")})}
     \cup Joined(4, {C("\\"), <<Q>>, C("u"), C("0")})}

MCTexts == Structures \cup Numbers \cup Strings

(***************************************************************************)
(* Documents.                                                              *)
(***************************************************************************)
Node(t, n, bytes) == [t |-> t, n |-> n, name |-> MCNoName, text |-> bytes]

Literal(t, word) == Root :> Node(t, 0, Literals[word])
Number(bytes)    == Root :> Node("number", 0, bytes)
String(bytes)    == Root :> Node("string", 0, bytes)

Scalars ==
  {Literal("null", "null"), Literal("boolean", "true"), Literal("boolean", "false"),
   Number(C("0")), Number(Bytes(<<"-", "1", "2">>)), Number(Bytes(<<"-", "1", ".", "5">>))}
  \cup {String(s) : s \in UNION {[1..n -> {97, 34, 92, 10, 1, 31, 200}] : n \in 0..2}}

\* The container with these documents in it, under these names.
Holding(type, names, docs) ==
  [a \in {Root} \cup UNION {{<<k>> \o b : b \in DOMAIN docs[k]} : k \in DOMAIN docs} |->
     IF a = Root THEN Node(type, Len(docs), <<>>)
     ELSE IF Len(a) = 1 THEN [docs[a[1]][Root] EXCEPT !.name = names[a[1]]]
     ELSE docs[a[1]][Tail(a)]]

Nameless == <<MCNoName, MCNoName, MCNoName>>
Ones == {Number(C("0")), String(<<10>>), Literal("null", "null")}

Flat ==
  {Holding("array", Nameless, s) : s \in UNION {[1..n -> Ones] : n \in 0..3}}
    \cup {Holding("array", <<MCNoName, MCValueName>>, s) : s \in [1..2 -> Ones]}
    \cup {Holding("object", <<<<97>>, <<34, 31>>, <<>>>>, s) : s \in UNION {[1..n -> Ones] : n \in 0..3}}

Nested ==
  {Holding("array", Nameless, s) : s \in [1..1 -> Flat] \cup [1..2 -> {d \in Flat : d[Root].n < 2}]}
    \cup {Holding("object", <<<<97>>>>, <<d>>) : d \in Flat}

MCDocs == Scalars \cup Flat \cup Nested
            \cup {Holding("array", Nameless, <<d>>) : d \in {x \in Nested : x[Root].n = 1}}
=============================================================================
