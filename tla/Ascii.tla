-------------------------------- MODULE Ascii --------------------------------
(***************************************************************************)
(* Bytes of C strings, written as characters: Byte["/"] is 47.  Those that *)
(* a solver's symbols cannot hold are written in words.  A text is the     *)
(* sequence of its bytes without the NUL that ends it, and the index i of  *)
(* the C code is position i + 1.                                           *)
(***************************************************************************)
EXTENDS Integers, SequencesExt

NUL == 0

Printable ==
  <<"space", "!", "quote", "#", "$", "%", "&", "'", "(", ")", "*", "+", "comma", "-", ".", "/",
    "0", "1", "2", "3", "4", "5", "6", "7", "8", "9", ":", "semicolon", "<", "=", ">", "?",
    "@", "A", "B", "C", "D", "E", "F", "G", "H", "I", "J", "K", "L", "M", "N", "O",
    "P", "Q", "R", "S", "T", "U", "V", "W", "X", "Y", "Z", "[", "\\", "]", "^", "underscore",
    "backquote", "a", "b", "c", "d", "e", "f", "g", "h", "i", "j", "k", "l", "m", "n", "o",
    "p", "q", "r", "s", "t", "u", "v", "w", "x", "y", "z", "lbrace", "|", "rbrace", "~">>

Byte == [c \in ToSet(Printable) |-> 31 + CHOOSE j \in 1..95 : Printable[j] = c]

Bytes(chars) == [i \in DOMAIN chars |-> Byte[chars[i]]]

\* The byte of the C string t with index i.
At(t, i) == IF i < Len(t) THEN t[i + 1] ELSE NUL

\* The bytes from index i on, and those with the indices from i to j - 1.
From(t, i)     == SubSeq(t, i + 1, Len(t))
Slice(t, i, j) == SubSeq(t, i + 1, j)

\* The first index from i on that holds a byte of S, or else the end.
IndexFrom(t, i, S) ==
  LET hits == {j \in i..(Len(t) - 1) : At(t, j) \in S}
  IN IF hits = {} THEN Len(t) ELSE Min(hits)

IsDigit(b) == b \in Byte["0"]..Byte["9"]
Value(b)   == b - Byte["0"]
=============================================================================
