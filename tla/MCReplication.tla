---------------------------- MODULE MCReplication ----------------------------
(***************************************************************************)
(* Instances of TairDocReplication for TLC, with the tokens and documents  *)
(* of MCTairDoc's runs.                                                    *)
(***************************************************************************)
EXTENDS TairDocReplication, MCValues

StreamPaths == Slash({<<>>, <<"a">>, <<"0">>})

\* Every command that writes, with arguments that succeed, fail, or do nothing
\* by NX, XX and an empty append.
StreamCalls ==
  SetCalls(StreamPaths, {Num0, EmptyArr, Obj(<<<<"a", EmptyArr>>>>)}, {"none", "nx"})
    \cup SetCalls(Slash({<<"a">>}), {Str1, BadJson}, {"xx"})
    \cup Ops({"del", "type"}, StreamPaths)
    \cup IncrCalls(Slash({<<>>}), {1})
    \cup AppendCalls(Slash({<<"a">>}), {<<0, 0>>, <<1, 1>>})
    \cup PushCalls(StreamPaths, {<<Num0>>})
    \cup InsertCalls(Slash({<<>>}), {0, -1}, {<<Num1>>})
    \cup PopCalls(StreamPaths, {0, -1})
    \cup TrimCalls(Slash({<<>>}), {<<1, 1>>})
    \cup NativeCalls

\* A push whose second argument does not parse.
BrokenBatchCalls ==
  SetCalls(Slash({<<>>}), {EmptyArr}, {"none"})
    \cup PushCalls(Slash({<<>>}), {<<Num0>>, <<Num0, BadJson>>})
=============================================================================
