------------------------------ MODULE MCTairDoc ------------------------------
(***************************************************************************)
(* Instances of TairDoc for TLC: the calls of each run.                    *)
(***************************************************************************)
EXTENDS TairDoc, MCValues

(***************************************************************************)
(* documents: one document, objects and arrays within each other.          *)
(* JSON.SET and JSON.DEL get every path of up to two tokens that matter.   *)
(***************************************************************************)
MemberPaths ==
  Slash({<<>>, <<"a">>, <<"b">>, <<"a", "b">>, <<"a", "0">>, <<"a", "1">>, <<"a", "-">>})
    \cup Other("dollar", {<<"a">>, <<"a", "b">>})

MemberCalls ==
  SetCalls(MemberPaths, {Num0, Str1, EmptyObj, Obj(<<<<"b", Null>>>>), Arr(<<Num1>>)},
           {"none", "nx", "xx"})
    \cup Ops({"del"}, MemberPaths)

\* Every command that counts, appends or indexes, on an array at the root, below
\* a member or in another array.
ArrayPaths == Slash({<<>>, <<"a">>, <<"0">>, <<"a", "0">>}) \cup Other("dollar", {<<"a">>})

Batches == {<<Num0>>, <<Num1, Str1>>, <<EmptyArr>>, <<BadJson>>, <<Num1, BadJson>>,
            <<Num0, BadJson, Num1>>}

ArrayCalls ==
  SetCalls(Slash({<<>>}), {EmptyArr, Obj(<<<<"a", EmptyArr>>>>), Str1, Num0, BadJson}, {"none"})
    \cup PushCalls(ArrayPaths, Batches)
    \cup InsertCalls(ArrayPaths, {-3, -1, 0, 1, 2, NotInt}, Batches)
    \cup PopCalls(ArrayPaths, {-4, -1, 0, 1, 3, NotInt})
    \cup TrimCalls(ArrayPaths, ((-1)..3) \X (0..3) \cup {<<NotInt, 1>>, <<0, NotInt>>})
    \cup IncrCalls(ArrayPaths, {-1, 1, NotInt})
    \cup AppendCalls(ArrayPaths, {<<0, 0>>, <<1, 1>>, <<2, 2>>})

DocumentCalls == MemberCalls \cup ArrayCalls

\* These calls meet what the theorems about JSON.SET and JSON.DEL assume.
UsualTok == {"a", "b", "0", "1", "-"}

ASSUME DocumentsAreUsual ==
  ToldApart(UsualTok, UsualTok) /\ \A c \in DocumentCalls : UsualCall(UsualTok, UsualTok, c)

(***************************************************************************)
(* keys: every command, two keys, values of another type, paths and        *)
(* arguments of every style.                                               *)
(***************************************************************************)
KeyPaths ==
  Slash({<<>>, <<"a">>, <<"0">>}) \cup Other("dollar", {<<>>, <<"a">>})
    \cup Other("bare", {<<>>, <<"a">>}) \cup Other("broken", {<<>>})

KeyCalls ==
  SetCalls(KeyPaths, {Num0, Infinite, Str1, EmptyArr, EmptyObj, BadJson}, {"none", "nx", "xx", "junk"})
    \cup Ops({"get"}, {p \in KeyPaths : p.style # "dollar"})
    \cup Ops({"del", "type", "strlen", "arrlen"}, KeyPaths)
    \cup IncrCalls(KeyPaths, {1, NotInt})
    \cup AppendCalls(KeyPaths, {<<0, 0>>, <<1, 1>>, <<1, 0>>})
    \cup PushCalls(KeyPaths, {<<Num0>>, <<Num0, BadJson>>})
    \cup InsertCalls(KeyPaths, {0, -1, NotInt}, {<<Num0>>, <<Num0, BadJson>>})
    \cup PopCalls(KeyPaths, {-1, NotInt})
    \cup TrimCalls(KeyPaths, {<<0, 0>>, <<1, 1>>, <<NotInt, 0>>})
    \cup MgetCalls(KeyPaths, {<<"k1", "k2">>, <<"k1", "k1">>})
    \cup NativeCalls
=============================================================================
