------------------------------- MODULE TairDoc -------------------------------
(***************************************************************************)
(* A server with the TairDoc module: a keyspace on which clients run the   *)
(* JSON.* commands.  The server runs one command at a time, so every       *)
(* command is one step.                                                    *)
(***************************************************************************)
EXTENDS TairDocCommands

SeqExt == INSTANCE SequencesExt

VARIABLES db,     \* the value of each key
          call,   \* the last call
          on,     \* the keys it writes, none for a call on many keys
          reply,  \* the reply to it
          sent    \* whether it was propagated

vars == <<db, call, on, reply, sent>>

(***************************************************************************)
(* The state machine.                                                      *)
(***************************************************************************)
Perform(op, k, c, e) ==
  /\ c.op = op
  /\ Fits(e.val)
  /\ db' = [db EXCEPT ![k] = e.val]
  /\ call' = c
  /\ on' = {k}
  /\ reply' = e.reply
  /\ sent' = e.sent

Set(k, c)       == Perform("set", k, c, SetEffect(c, db[k]))
Get(k, c)       == Perform("get", k, c, GetEffect(c, db[k]))
Del(k, c)       == Perform("del", k, c, DelEffect(c, db[k]))
Type(k, c)      == Perform("type", k, c, TypeEffect(c, db[k]))
StrLen(k, c)    == Perform("strlen", k, c, StrLenEffect(c, db[k]))
ArrLen(k, c)    == Perform("arrlen", k, c, ArrLenEffect(c, db[k]))
IncrBy(k, c)    == Perform("incrby", k, c, IncrByEffect(c, db[k]))
StrAppend(k, c) == Perform("strappend", k, c, StrAppendEffect(c, db[k]))
ArrPush(k, c)   == Perform("arrpush", k, c, ArrPushEffect(c, db[k]))
ArrInsert(k, c) == Perform("arrinsert", k, c, ArrInsertEffect(c, db[k]))
ArrPop(k, c)    == Perform("arrpop", k, c, ArrPopEffect(c, db[k]))
ArrTrim(k, c)   == Perform("arrtrim", k, c, ArrTrimEffect(c, db[k]))

\* The server's own commands touch a key without the module.
Native(k, c) ==
  /\ c.op = "native"
  /\ db' = [db EXCEPT ![k] = c.to]
  /\ call' = c
  /\ on' = {k}
  /\ reply' = Ok
  /\ sent' = TRUE

\* Mutant of MgetOne: a key without the path answers JSON.GET's error.
MgetOneError(c, v) ==
  IF v = Empty \/ v = Foreign THEN Nil
  ELSE IF Found(c, v) = {} THEN Error("pointer")
  ELSE Bulk(Subtree(v.root, Node(c, v)))

\* JSON.MGET answers nil for a key that is missing, of another type or has no
\* such path, and an error only for a path that cannot be converted.
MgetOne(c, v) ==
  IF v = Empty \/ v = Foreign THEN Nil
  ELSE IF Found(c, v) = {} THEN Nil
  ELSE Bulk(Subtree(v.root, Node(c, v)))

Mget(c) ==
  /\ c.op = "mget"
  /\ reply' = IF c.path.style = "broken" THEN Error("path")
              ELSE Many([i \in 1..Len(c.keys) |-> MgetOne(c, db[c.keys[i]])])
  /\ call' = c /\ on' = {} /\ sent' = FALSE
  /\ UNCHANGED db

Init ==
  /\ db = [k \in Key |-> Empty]
  /\ call = [op |-> "none"] /\ on = {} /\ reply = Nil /\ sent = FALSE

Write(k, c) ==
  \/ Set(k, c) \/ Del(k, c) \/ IncrBy(k, c) \/ StrAppend(k, c) \/ ArrPush(k, c)
  \/ ArrInsert(k, c) \/ ArrPop(k, c) \/ ArrTrim(k, c) \/ Native(k, c)

Read(k, c) ==
  Get(k, c) \/ Type(k, c) \/ StrLen(k, c) \/ ArrLen(k, c)

Next ==
  \/ \E k \in Key, c \in Calls : Write(k, c) \/ Read(k, c)
  \/ \E c \in Calls : Mget(c)

Spec == Init /\ [][Next]_vars

\* No step reads the record of the last call, so a run whose properties are
\* TypeOK and action properties on db may identify states that agree on db.
View == db

(***************************************************************************)
(* Properties.                                                             *)
(***************************************************************************)
\* Every key is missing, of another type, or holds a well-formed document.
TypeOK ==
  /\ DOMAIN db = Key
  /\ \A k \in Key : IsValue(db[k])

\* What the properties compare: the value a path of tokens leads to (a set of
\* at most one document) and the elements or members of a container.
ValueAt(d, toks) == {Subtree(d, a) : a \in {b \in DOMAIN d : Resolves(d, toks, b)}}

Items(d, p) ==
  [i \in 1..Size(d, p) |->
     [name |-> d[Append(p, i)].name, value |-> Subtree(d, Append(p, i))]]

AsItems(subs) == [i \in DOMAIN subs |-> [name |-> NoName, value |-> subs[i]]]

\* The path a write works on: with a lead only the last token counts.  Where it
\* is not the path the client meant, the properties that name it say what the
\* write spares, and not that it is right.
Target(path) ==
  IF PathToPointer(path).lead /\ path.toks # <<>>
  THEN <<path.toks[Len(path.toks)]>> ELSE path.toks

Probes == {c.path.toks : c \in Calls}

\* A call whose path has tokens of T only and whose JSON arguments are plain;
\* and the server when all its documents are.
UsualCall(M, T, c) ==
  /\ \A j \in 1..Len(c.path.toks) : c.path.toks[j] \in T
  /\ c.op = "set" /\ c.json # BadJson => Plain(M, c.json)
  /\ c.op \in {"arrpush", "arrinsert"} =>
       \A l \in 1..Len(c.jsons) : c.jsons[l] # BadJson => Plain(M, c.jsons[l])

PlainValue(M, v) == v # Empty /\ v # Foreign => Plain(M, v.root)
DocsPlain(M)     == \A k \in Key : PlainValue(M, db[k])

Unrelated(t, u) == ~Under(t, u) /\ ~Under(u, t)

\* The token "-" at the end of t appends to an array of d.
Appends(d, t) ==
  /\ t # <<>> /\ t[Len(t)] = Dash
  /\ \E p \in DOMAIN d : Resolves(d, Parent(t), p) /\ d[p].t = "array"

Acked(op, k) == on' = {k} /\ call'.op = op /\ sent'
WasDoc(k)    == db[k] # Empty /\ db[k] # Foreign
IsDoc(k)     == db'[k] # Empty /\ db'[k] # Foreign

\* What c has stored is where all the tokens of its path lead to, or at the end
\* of the array for "-".
ReadsBack(d, c) ==
  LET t == c.path.toks
  IN IF Appends(d, t)
     THEN \E p \in DOMAIN d : /\ Resolves(d, Parent(t), p)
                              /\ Subtree(d, Append(p, Size(d, p))) = c.json
     ELSE ValueAt(d, t) = {c.json}

\* JSON.SET that answers OK has stored its argument where a reader of the same
\* path finds it (SET composes a patch and never looks at the result).  This is
\* said of paths that become a pointer; of others, as $.a.b, the claim
\* SetReadsBackAtAnyPath shows that it is false.
SetReadsBack ==
  [][\A k \in Key : Acked("set", k) /\ ~PathToPointer(call'.path).lead =>
       ReadsBack(db'[k].root, call')]_vars

\* JSON.SET leaves what every unrelated path reads as it was: replacing is
\* "detach, then add", which must take out the named member and no other and
\* put an element back at its own index.
SetKeepsTheRest ==
  [][\A k \in Key : Acked("set", k) /\ WasDoc(k) =>
       \A u \in Probes :
         LET before == ValueAt(db[k].root, u)
             t      == Target(call'.path)
         IN Unrelated(t, u) =>
              \/ before = ValueAt(db'[k].root, u)
              \/ before = {} /\ Appends(db[k].root, t)]_vars

\* A client that repeats a JSON.SET it has had acknowledged changes nothing
\* more, unless it appends.
SetIsIdempotent ==
  [][\A k \in Key : Acked("set", k) =>
       \/ Appends(db'[k].root, Target(call'.path))
       \/ SetEffect(call', db'[k]).val = db'[k]]_vars

\* JSON.DEL of a member or element that JSON.SET has just added gives back the
\* document there was, or no key when that was an empty container (the key is
\* dropped with the last child of its root).
DelUndoesAdd ==
  [][\A k \in Key : Acked("set", k) /\ WasDoc(k) =>
       LET d == db[k].root
           c == call'
       IN ~PathToPointer(c.path).lead /\ ~Appends(d, c.path.toks)
          /\ ValueAt(d, c.path.toks) = {}
            => DelEffect([op |-> "del", path |-> c.path], db'[k]).val
                 = DropIfChildless(d)]_vars

\* JSON.DEL that answers 1 takes the one item its path leads to out of its
\* container: its siblings keep their order, and no unrelated container
\* changes.
DelTakesOneItem ==
  [][\A k \in Key : Acked("del", k) /\ IsDoc(k) =>
       LET d == db[k].root
           e == db'[k].root
           t == Target(call'.path)
       IN \E a \in DOMAIN d :
            /\ Resolves(d, t, a)
            /\ Items(e, Parent(a)) = SeqExt!RemoveAt(Items(d, Parent(a)), a[Len(a)])
            /\ \A u \in Probes :
                 Unrelated(Parent(t), u) => ValueAt(e, u) = ValueAt(d, u)]_vars

\* A key that held a document vanishes by JSON.DEL or JSON.ARRPOP only, when
\* the root itself is deleted or its last child was taken.
KeyGoesWithItsLastChild ==
  [][\A k \in Key : WasDoc(k) /\ on' = {k} /\ db'[k] = Empty =>
       \/ call'.op = "native"
       \/ Acked("del", k) /\ IsRoot(PathToPointer(call'.path))
       \/ (Acked("del", k) \/ Acked("arrpop", k)) /\ Size(db[k].root, Root) = 1]_vars

\* What a call on the array at a does to its elements, on sequences.
Edited(c, s) ==
  CASE c.op = "arrpush"   -> s \o AsItems(c.jsons)
    [] c.op = "arrinsert" -> LET at == FromEnd(c.index, Len(s))
                             IN SubSeq(s, 1, at) \o AsItems(c.jsons) \o SubSeq(s, at + 1, Len(s))
    [] c.op = "arrpop"    -> SeqExt!RemoveAt(s, FromEnd(c.index, Len(s)) + 1)
    [] c.op = "arrtrim"   -> SubSeq(s, c.start + 1, c.stop + 1)

ArrayOps == {"arrpush", "arrinsert", "arrpop", "arrtrim"}

\* The array commands do to the elements what their descriptions say of
\* sequences, and touch nothing outside the array.
ArrayCommandsEditSequences ==
  [][\A k \in Key, op \in ArrayOps : Acked(op, k) =>
       LET d == db[k].root
           a == Node(call', db[k])
           s == Edited(call', Items(d, a))
       IN IF db'[k] = Empty THEN s = <<>>
          ELSE LET e == db'[k].root
               IN /\ Items(e, a) = s
                  /\ \A b \in DOMAIN d : ~Under(a, b) => e[b] = d[b]
                  /\ \A b \in DOMAIN e : ~Under(a, b) => b \in DOMAIN d]_vars

\* A call that is not propagated leaves the document as it was, so that the
\* replicas and the append-only file miss nothing.  The code does not do that
\* for a push or an insert with a malformed argument: then exactly the
\* arguments before it have been added.
UnsentChangesNothing ==
  [][\A k \in Key : ~sent' /\ db'[k] # db[k] =>
       /\ call'.op \in {"arrpush", "arrinsert"} /\ reply' = Error("json")
       /\ db'[k] = Effect(OnlyParsed(call'), db[k]).val]_vars

\* The read that should report what a write replied.
Reread(c) ==
  [op   |-> CASE c.op \in {"arrpush", "arrinsert", "arrtrim"} -> "arrlen"
              [] c.op = "strappend" -> "strlen"
              [] c.op = "incrby"    -> "get",
   path |-> c.path]

\* A write that replies a size, a length or a number replies what a read of
\* the same path finds in the new state (ARRTRIM takes the size after it may
\* have deleted the key, STRAPPEND adds two lengths).
ReplyIsWhatARereadFinds ==
  [][\A k \in Key :
       Acked(call'.op, k) /\ call'.op \in {"arrpush", "arrinsert", "arrtrim", "strappend", "incrby"} =>
         \/ call'.op = "incrby" /\ call'.path.style # "slash"
         \/ reply' = Effect(Reread(call'), db'[k]).reply]_vars

\* JSON.MGET, which has a lookup of its own, answers for each key what JSON.GET
\* answers at that moment, with nil in place of an error: one key of another
\* type or without the path does not spoil the answers for the others.
MgetAgreesWithGet ==
  [][call'.op = "mget" /\ call'.path.style = "slash" =>
       \A i \in DOMAIN call'.keys :
         LET get == GetEffect([op |-> "get", path |-> call'.path], db[call'.keys[i]]).reply
         IN reply'.many[i] = IF IsError(get) THEN Nil ELSE get]_vars
=============================================================================
