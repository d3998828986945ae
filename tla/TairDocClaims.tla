---------------------------- MODULE TairDocClaims ----------------------------
(***************************************************************************)
(* What the documentation, the comments and the tests say of commands and  *)
(* the code does not do.  Each claim is checked by a run of its own, whose *)
(* counterexample is a sequence of legal calls.                            *)
(***************************************************************************)
EXTENDS MCTairDoc

\* "Sets the JSON value at `path` in `key`" (tairdoc.c:227): what JSON.SET has
\* stored at a path, be it a pointer or a path that starts with $, is what this
\* path leads to.
SetReadsBackAtAnyPath ==
  [][\A k \in Key : Acked("set", k) => ReadsBack(db'[k].root, call')]_vars

(***************************************************************************)
(* The calls the claims are checked on.                                    *)
(***************************************************************************)
\* {"a": {"b": 0}, "b": 0}, and the member b of a by a path with a $.
DollarCalls ==
  SetCalls(Slash({<<>>}), {Obj(<<<<"a", Obj(<<<<"b", Num0>>>>)>>, <<"b", Num0>>>>)}, {"none"})
    \cup SetCalls(Other("dollar", {<<"a", "b">>}), {Num1}, {"none"})

\* Members whose names differ in case only.
CaseCalls ==
  SetCalls(Slash({<<>>, <<"a">>, <<"A">>}), {EmptyObj, Num0}, {"none"})
    \cup Ops({"del"}, Slash({<<"a">>, <<"A">>}))
=============================================================================
