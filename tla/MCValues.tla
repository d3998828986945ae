------------------------------ MODULE MCValues ------------------------------
(***************************************************************************)
(* Values for TLC: tokens, names, documents, and sets of calls.  The       *)
(* functions from tokens to indices and names are those of the C code for  *)
(* the texts the tokens stand for.                                         *)
(***************************************************************************)
EXTENDS TairDocCommands, TLC

(***************************************************************************)
(* Tokens are written as the text of the pointer.                          *)
(***************************************************************************)
MCTok == {"a", "b", "A", "0", "1", "-", "a~1b"}

MCIndex == [t \in MCTok |-> CASE t = "0" -> 0 [] t = "1" -> 1 [] OTHER -> -1]

\* compare_pointers decodes ~1 as it should, decode_pointer_inplace writes the
\* slash one byte too far and drops what follows.
MCSoughtName == [t \in MCTok |-> IF t = "a~1b" THEN "a/b" ELSE t]
MCChildName  == [t \in MCTok |-> IF t = "a~1b" THEN "a~/" ELSE t]

MCName == {"a", "b", "A", "0", "1", "-", "a/b", "a~/", "value"}
MCFold == [m \in MCName |-> IF m = "A" THEN "a" ELSE m]

(***************************************************************************)
(* Documents.                                                              *)
(***************************************************************************)
Leaf(t, n)  == [t |-> t, n |-> n, name |-> NoName]
One(t, n)   == <<>> :> Leaf(t, n)
Num0        == One("number", 0)
Num1        == One("number", 1)
Infinite    == One("number", Huge + 1)
Str1        == One("string", 1)
Null        == One("null", 0)
Bool        == One("boolean", 1)
EmptyArr    == One("array", 0)
EmptyObj    == One("object", 0)
Arr(subs)   == AddItems(EmptyArr, Root, subs)
Obj(ms)     == AddItems(EmptyObj, Root, [i \in DOMAIN ms |-> Named(ms[i][2], ms[i][1])])

(***************************************************************************)
(* Calls.                                                                  *)
(***************************************************************************)
Slash(T) == {[style |-> "slash", toks |-> t] : t \in T}
Other(style, T) == {[style |-> style, toks |-> t] : t \in T}

SetCalls(P, J, F) == {[op |-> "set", path |-> p, json |-> j, flag |-> f] :
                        p \in P, j \in J, f \in F}
Ops(ops, P)       == {[op |-> o, path |-> p] : o \in ops, p \in P}
IncrCalls(P, B)   == {[op |-> "incrby", path |-> p, by |-> b] : p \in P, b \in B}
AppendCalls(P, L) == {[op |-> "strappend", path |-> p, len |-> l[1], seen |-> l[2]] :
                        p \in P, l \in L}
PushCalls(P, J)   == {[op |-> "arrpush", path |-> p, jsons |-> j] : p \in P, j \in J}
InsertCalls(P, I, J) == {[op |-> "arrinsert", path |-> p, index |-> i, jsons |-> j] :
                           p \in P, i \in I, j \in J}
PopCalls(P, I)    == {[op |-> "arrpop", path |-> p, index |-> i] : p \in P, i \in I}
TrimCalls(P, I)   == {[op |-> "arrtrim", path |-> p, start |-> i[1], stop |-> i[2]] :
                        p \in P, i \in I}
MgetCalls(P, K)   == {[op |-> "mget", path |-> p, keys |-> ks] : p \in P, ks \in K}
NativeCalls       == {[op |-> "native", path |-> [style |-> "slash", toks |-> <<>>],
                       to |-> v] : v \in {Empty, Foreign}}
=============================================================================
