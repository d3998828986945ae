---------------------------- MODULE MCPersistence ----------------------------
(***************************************************************************)
(* Instances of TairDocPersistence for TLC, with the tokens and documents  *)
(* of MCValues.                                                            *)
(***************************************************************************)
EXTENDS TairDocPersistence, MCValues

\* No call depends on the name of its key.
KeySymmetry == Permutations(Key)

\* The numbers are 0.3 and its neighbours.  The next one on each side is
\* printed as 0.3 too, being closer to it than compare_double cares for.  The
\* largest number is printed as a larger one, which is read as infinity.
MCDigits == [n \in (-Huge)..Huge |->
               IF n = Huge THEN Huge + 1 ELSE IF n \in {-1, 1} THEN 0 ELSE n]

\* Calls that nest arrays, put an element where another was (which leaves it a
\* name), and change and remove what is there.
SavedCalls ==
  SetCalls(Slash({<<>>}), {EmptyArr, Infinite, Obj(<<<<"a", Null>>>>)}, {"none"})
    \cup SetCalls(Slash({<<"0">>}), {EmptyArr, Num0}, {"xx"})
    \cup PushCalls(Slash({<<>>, <<"0">>}), {<<EmptyArr>>})
    \cup IncrCalls(Slash({<<>>, <<"0">>}), {1})
    \cup PopCalls(Slash({<<"0">>}), {0})
    \cup Ops({"del"}, Slash({<<>>}))

\* A document that gets deeper than the parser goes.
DeepCalls ==
  SetCalls(Slash({<<>>}), {EmptyArr}, {"none"})
    \cup PushCalls(Slash({<<>>, <<"0">>}), {<<EmptyArr>>})
=============================================================================
