------------------------------ MODULE MCPathText ------------------------------
(***************************************************************************)
(* Instances of PathTextMeaning for TLC: every short text of the signs     *)
(* that paths are made of, and the paths written from steps.               *)
(***************************************************************************)
EXTENDS PathTextMeaning

MCName      == Seq(1..255)
MCNoName    == <<-1>>
MCValueName == Bytes(<<"v", "a", "l", "u", "e">>)

Node(t, n, name) == [t |-> t, n |-> n, name |-> name]

\* {"a": {"b": [], "~": 0}, "": [0, {"A": 0, "a": 0}], "/": 0, "B": 0, "0": 0, "$": 0}
Nested ==
  <<>>     :> Node("object", 6, MCNoName)
  @@ <<1>>    :> Node("object", 2, Bytes(<<"a">>))
  @@ <<1, 1>> :> Node("array", 0, Bytes(<<"b">>))
  @@ <<1, 2>> :> Node("number", 0, Bytes(<<"~">>))
  @@ <<2>>    :> Node("array", 2, <<>>)
  @@ <<2, 1>> :> Node("number", 0, MCNoName)
  @@ <<2, 2>> :> Node("object", 2, MCNoName)
  @@ <<2, 2, 1>> :> Node("number", 0, Bytes(<<"A">>))
  @@ <<2, 2, 2>> :> Node("number", 0, Bytes(<<"a">>))
  @@ <<3>>    :> Node("number", 0, Bytes(<<"/">>))
  @@ <<4>>    :> Node("number", 0, Bytes(<<"B">>))
  @@ <<5>>    :> Node("number", 0, Bytes(<<"0">>))
  @@ <<6>>    :> Node("number", 0, Bytes(<<"$">>))

\* [0, {"a": 0, "a~1b": 0, "a/b": 0, "a.b": 0, "a]": 0, "'": 0}, 0, ... 11 elements]
Listed ==
  [a \in {<<>>} \cup {<<k>> : k \in 1..12} \cup {<<2, k>> : k \in 1..6} |->
     CASE a = <<>>    -> Node("array", 12, MCNoName)
       [] a = <<2>>   -> Node("object", 6, MCNoName)
       [] Len(a) = 2  -> Node("number", 0, Bytes(<<<<"a">>, <<"a", "~", "1", "b">>,
                              <<"a", "/", "b">>, <<"a", ".", "b">>, <<"a", "]">>, <<"'">>>>[a[2]]))
       [] OTHER       -> Node("number", 0, MCNoName)]

Docs == {Nested, Listed}

\* A slash and a dot begin and separate, the rest are bytes of names.  In the last
\* two texts an escaped slash stays in the decoded token, and ends the index.
Signs == {Byte[c] : c \in {".", "[", "]", "'", "$", "/", "~", "a", "0", "1", "-"}}
Texts == UNION {[1..n -> Signs] : n \in 0..4} 
           \cup {Bytes(<<"/", "1", "~", "1", "a">>), Bytes(<<"/", "1", "~", "1", "-">>)}

(***************************************************************************)
(* Writing a path.                                                         *)
(***************************************************************************)
Names == {a.name : a \in UNION {{d[b] : b \in DOMAIN d} : d \in Docs}} \ {MCNoName}
Steps == Names \cup {Decimal[n] : n \in {0, 1, 10, 11, 12, 15, 16, 18}}
               \cup {Bytes(<<"0", "1">>), Bytes(<<"1", "a">>), Bytes(<<"-">>), Bytes(<<"-", "1">>)}

Escaped(name) ==
  FlattenSeq([j \in DOMAIN name |->
    CASE name[j] = Tilde -> Bytes(<<"~", "0">>)
      [] name[j] = Slash -> Bytes(<<"~", "1">>)
      [] OTHER           -> <<name[j]>>])

\* One step in the notations that can hold it: /name, .name, ['name'], [0].
InPointer(name) == <<Slash>> \o Escaped(name)
InPath(name) ==
  (IF ToSet(name) \cap {Byte["."], Byte["["]} # {} THEN {} ELSE {<<Byte["."]>> \o Escaped(name)})
  \cup (IF ToSet(name) \cap Quote # {} THEN {}
        ELSE {Bytes(<<"[", "'">>) \o Escaped(name) \o Bytes(<<"'", "]">>)})
  \cup (IF name = <<>> \/ Byte["]"] \in ToSet(name) \/ ~(IsDigit(name[1]) \/ name[1] = Byte["-"]) THEN {}
        ELSE {<<Byte["["]>> \o Escaped(name) \o <<Byte["]"]>>})

Ways == UNION {[1..n -> Steps] : n \in 0..2}

\* The texts that stand for the steps.  A single dot is the root.
Written(steps) ==
  {FlattenSeq([j \in DOMAIN steps |-> InPointer(steps[j])])}
  \cup (IF steps = <<>> THEN {Bytes(<<".">>), Bytes(<<"$">>)}
        ELSE IF Len(steps) = 1 THEN InPath(steps[1]) \ {Bytes(<<".">>)}
        ELSE {p \o q : p \in InPath(steps[1]), q \in InPath(steps[2])})

MCCalls ==
  [doc : Docs, path : Texts, steps : {{}}]
    \cup UNION {[doc : Docs, path : Written(w), steps : {{w}}] : w \in Ways}
=============================================================================
