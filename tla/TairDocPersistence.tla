------------------------- MODULE TairDocPersistence -------------------------
(***************************************************************************)
(* A server that can restart.  Its append-only file is a base, written by  *)
(* a rewrite, and the calls propagated since.  The base holds each         *)
(* document as text: in a command JSON.SET, or in RDB form.                *)
(*                                                                         *)
(* The file is represented by the keyspace a server that reads it now ends *)
(* up with.  Reading runs the calls one after the other, so a call that is *)
(* appended is run on that keyspace.  The file itself, and when a rewrite  *)
(* starts and ends, are the server's.                                      *)
(*                                                                         *)
(* A text is represented by the document the parser would make of it, were *)
(* there no limit of nesting.                                              *)
(***************************************************************************)
EXTENDS TairDocCommands

CONSTANTS NestingLimit,  \* CJSON_NESTING_LIMIT
          Digits         \* the number that a number is printed as

ASSUME NestingAssumption == NestingLimit \in Nat
ASSUME DigitsAssumption == Digits \in [(-Huge)..Huge -> Int]

VARIABLES db,        \* the keyspace
          disk,      \* what reading the append-only file gives
          readable,  \* whether a server can read the file at all
          lossy,     \* history: the keys whose value the base does not hold as it was
          rewrite    \* the base that is being written with the calls since, or none

vars == <<db, disk, readable, lossy, rewrite>>

(***************************************************************************)
(* Printing and parsing.                                                   *)
(***************************************************************************)
\* A number is printed with as many digits as are thought to be needed, an
\* infinite one as null.
PrintedLabel(label) ==
  IF label.t # "number"             THEN label
  ELSE IF label.n \in DOMAIN Digits THEN [label EXCEPT !.n = Digits[@]]
  ELSE [label EXCEPT !.t = "null", !.n = 0]

\* Mutant of Printed: members are printed as elements are, without names.
PrintedNameless(d) ==
  [a \in DOMAIN d |-> [PrintedLabel(d[a]) EXCEPT !.name = NoName]]

\* An array is printed without the names of its elements.
Printed(d) == LET b == Bare(d) IN [a \in DOMAIN d |-> PrintedLabel(b[a])]

\* Mutant of Shallow: off by one.
ShallowByOne(d) == \A a \in DOMAIN d : d[a].t \in Container => Len(a) + 1 < NestingLimit

\* The parser gives up on an array or object inside NestingLimit others.
Shallow(d)  == \A a \in DOMAIN d : d[a].t \in Container => Len(a) < NestingLimit
Parse(text) == IF Shallow(text) THEN text ELSE BadJson

IsDoc(v) == v # Empty /\ v # Foreign

(***************************************************************************)
(* The base.                                                               *)
(***************************************************************************)
\* The command that TairDocTypeAofRewrite writes.
SetRoot(json) ==
  [op |-> "set", path |-> [style |-> "slash", toks |-> <<>>], flag |-> "none", json |-> json]

\* The value that is read back from a base in this form.
Reloaded(form, v) ==
  IF ~IsDoc(v) THEN v
  ELSE LET json == Parse(Printed(v.root))
       IN CASE form = "aof" -> SetEffect(SetRoot(json), Empty).val
            [] form = "rdb" -> IF json = BadJson THEN Empty ELSE Doc(json)

\* A server that cannot load a value of an RDB gives up.
CanLoad(form, v) == form = "rdb" /\ IsDoc(v) => Parse(Printed(v.root)) # BadJson

\* What text can represent: a document that is not too deep, and whose numbers
\* are the numbers they are printed as.
Exact(v) ==
  IsDoc(v) =>
    \A a \in DOMAIN v.root :
      /\ v.root[a].t \in Container => Len(a) + 1 \in 1..NestingLimit
      /\ v.root[a].t = "number" => Finite(v.root[a].n) /\ Digits[v.root[a].n] = v.root[a].n

(***************************************************************************)
(* The state machine.                                                      *)
(***************************************************************************)
NoKeys    == [k \in Key |-> Empty]
NoRewrite == [on |-> FALSE]

Init ==
  /\ db = NoKeys /\ disk = NoKeys
  /\ readable = TRUE /\ lossy = {}
  /\ rewrite = NoRewrite

Run(keys, k, c) == [keys EXCEPT ![k] = Effect(c, @).val]

\* A client's call.  A propagated one is appended to the file, and to the file
\* that a rewrite is to leave.
Execute(k, c) ==
  /\ c.op \in KeyOps
  /\ Fits(Effect(c, db[k]).val)
  /\ db' = Run(db, k, c)
  /\ IF Effect(c, db[k]).sent
     THEN /\ disk' = Run(disk, k, c)
          /\ rewrite' = IF rewrite.on THEN [rewrite EXCEPT !.keys = Run(@, k, c)] ELSE rewrite
     ELSE UNCHANGED <<disk, rewrite>>
  /\ UNCHANGED <<readable, lossy>>

\* A process is forked and writes a base from the keyspace as it is now.
StartRewrite(form) ==
  /\ ~rewrite.on
  /\ rewrite' = [on       |-> TRUE,
                 keys     |-> [k \in Key |-> Reloaded(form, db[k])],
                 readable |-> \A k \in Key : CanLoad(form, db[k]),
                 lossy    |-> {k \in Key : ~Exact(db[k])}]
  /\ UNCHANGED <<db, disk, readable, lossy>>

FinishRewrite ==
  /\ rewrite.on
  /\ disk' = rewrite.keys /\ readable' = rewrite.readable /\ lossy' = rewrite.lossy
  /\ rewrite' = NoRewrite
  /\ UNCHANGED db

\* The server stops, reads its file and serves.
Restart ==
  /\ readable
  /\ db' = disk
  /\ rewrite' = NoRewrite
  /\ UNCHANGED <<disk, readable, lossy>>

Next ==
  \/ \E k \in Key, c \in Calls : Execute(k, c)
  \/ \E form \in {"aof", "rdb"} : StartRewrite(form)
  \/ FinishRewrite
  \/ Restart

Spec == Init /\ [][Next]_vars

(***************************************************************************)
(* Properties.                                                             *)
(***************************************************************************)
\* What is in memory, and what is read from a file, is well formed.
TypeOK ==
  /\ \A k \in Key : IsValue(db[k]) /\ IsValue(disk[k])
  /\ rewrite.on => \A k \in Key : IsValue(rewrite.keys[k])

Same(v, w) == v = w \/ (IsDoc(v) /\ IsDoc(w) /\ Bare(v.root) = Bare(w.root))

\* A server that restarts has the documents it had, whatever rewrites ran at
\* what time, but for keys that the base could not hold as they were: a
\* rewrite neither loses a call nor runs one twice, what a reader cannot see
\* (the name of an array element) decides no later call, and a key that is
\* lost takes no other with it.
RestartKeepsDocuments ==
  [][Restart => \A k \in Key \ lossy : Same(db'[k], db[k])]_vars

\* "assert_equal {{"foo":"car"}} [r json.get tairdockey]" after bgrewriteaof
\* and loadaof: a key is still there when the file has been read.
RestartKeepsKeys ==
  readable /\ \A k \in Key : db[k] # Empty => disk[k] # Empty
=============================================================================
