---------------------------- MODULE TairDocProofs ----------------------------
(***************************************************************************)
(* What holds of the server for every set of keys, calls and bounds.       *)
(***************************************************************************)
EXTENDS TairDoc, TairDocCommandsProofs

\* A step on one key applies the effect of its call.
LEMMA StepIsEffect ==
  ASSUME NEW k \in Key, NEW c \in Calls, Write(k, c) \/ Read(k, c)
  PROVE  /\ c.op \in KeyOps
         /\ db' = [db EXCEPT ![k] = Effect(c, db[k]).val]
         /\ call' = c /\ sent' = Effect(c, db[k]).sent /\ reply' = Effect(c, db[k]).reply
<1>1. CASE Set(k, c)
  BY <1>1 DEF Set, Perform, Effect, KeyOps
<1>2. CASE Get(k, c)
  BY <1>2 DEF Get, Perform, Effect, KeyOps
<1>3. CASE Del(k, c)
  BY <1>3 DEF Del, Perform, Effect, KeyOps
<1>4. CASE Type(k, c)
  BY <1>4 DEF Type, Perform, Effect, KeyOps
<1>5. CASE StrLen(k, c)
  BY <1>5 DEF StrLen, Perform, Effect, KeyOps
<1>6. CASE ArrLen(k, c)
  BY <1>6 DEF ArrLen, Perform, Effect, KeyOps
<1>7. CASE IncrBy(k, c)
  BY <1>7 DEF IncrBy, Perform, Effect, KeyOps
<1>8. CASE StrAppend(k, c)
  BY <1>8 DEF StrAppend, Perform, Effect, KeyOps
<1>9. CASE ArrPush(k, c)
  BY <1>9 DEF ArrPush, Perform, Effect, KeyOps
<1>10. CASE ArrInsert(k, c)
  BY <1>10 DEF ArrInsert, Perform, Effect, KeyOps
<1>11. CASE ArrPop(k, c)
  BY <1>11 DEF ArrPop, Perform, Effect, KeyOps
<1>12. CASE ArrTrim(k, c)
  BY <1>12 DEF ArrTrim, Perform, Effect, KeyOps
<1>13. CASE Native(k, c)
  BY <1>13 DEF Native, NativeEffect, Commit, Effect, KeyOps
<1> QED
  BY <1>1, <1>2, <1>3, <1>4, <1>5, <1>6, <1>7, <1>8, <1>9, <1>10, <1>11, <1>12, <1>13
     DEF Write, Read

\* The database is empty at first.
LEMMA InitTypeOK == Init => TypeOK
BY DEF Init, TypeOK, IsValue

\* Every command keeps the values well formed.
LEMMA NextTypeOK == TypeOK /\ [Next]_vars => TypeOK'
<1> SUFFICES ASSUME TypeOK, [Next]_vars PROVE TypeOK'
  OBVIOUS
<1>1. CASE UNCHANGED vars
  BY <1>1 DEF vars, TypeOK
<1>2. ASSUME NEW k \in Key, NEW c \in Calls, Write(k, c) \/ Read(k, c)
      PROVE  TypeOK'
  <2>1. c.op \in KeyOps /\ db' = [db EXCEPT ![k] = Effect(c, db[k]).val]
    BY <1>2, StepIsEffect
  <2>2. IsValue(Effect(c, db[k]).val)
    BY <2>1, CallsAssumption, EffectSound DEF TypeOK
  <2> DEFINE w == Effect(c, db[k]).val
  <2>3. db' = [db EXCEPT ![k] = w] /\ IsValue(w)
    BY <2>1, <2>2
  <2> HIDE DEF w
  <2> QED
    BY <2>3 DEF TypeOK
<1>3. ASSUME NEW c \in Calls, Mget(c) PROVE TypeOK'
  BY <1>3 DEF Mget, TypeOK
<1> QED
  BY <1>1, <1>2, <1>3 DEF Next

\* No sequence of commands leaves a key with a document that is not well
\* formed: a gap or an overlap among siblings, a child of a scalar, a member
\* without a name.
THEOREM TypeCorrect == Spec => []TypeOK
<1> QED
  BY InitTypeOK, NextTypeOK, PTL DEF Spec

\* A call that is not propagated leaves the document as it was, but for a batch
\* with a malformed argument, of which it adds what precedes that argument.
THEOREM UnsentCallsChangeNothing == Spec => UnsentChangesNothing
<1> DEFINE Kept == \A k \in Key : ~sent' /\ db'[k] # db[k] =>
                     /\ call'.op \in {"arrpush", "arrinsert"} /\ reply' = Error("json")
                     /\ db'[k] = Effect(OnlyParsed(call'), db[k]).val
<1>1. TypeOK /\ [Next]_vars => [Kept]_vars
  <2> SUFFICES ASSUME TypeOK, Next, NEW k \in Key, ~sent', db'[k] # db[k]
               PROVE  /\ call'.op \in {"arrpush", "arrinsert"} /\ reply' = Error("json")
                      /\ db'[k] = Effect(OnlyParsed(call'), db[k]).val
    OBVIOUS
  <2>1. ~ \E c \in Calls : Mget(c)
    BY DEF Mget
  <2>2. PICK j \in Key, c \in Calls : Write(j, c) \/ Read(j, c)
    BY <2>1 DEF Next
  <2>3. /\ c.op \in KeyOps
        /\ db' = [db EXCEPT ![j] = Effect(c, db[j]).val]
        /\ call' = c /\ sent' = Effect(c, db[j]).sent /\ reply' = Effect(c, db[j]).reply
    BY <2>2, StepIsEffect
  <2>4. j = k /\ db'[k] = Effect(c, db[k]).val
    BY <2>3 DEF TypeOK
  <2>5. IsCall(c) /\ IsValue(db[k])
    BY CallsAssumption DEF TypeOK
  <2>6. /\ ~Effect(c, db[k]).sent /\ Effect(c, db[k]).val # db[k]
        /\ reply' = Effect(c, db[k]).reply
    BY <2>3, <2>4
  <2>7. /\ c.op \in {"arrpush", "arrinsert"}
        /\ Effect(c, db[k]).reply = Error("json")
        /\ Effect(c, db[k]).val = Effect(OnlyParsed(c), db[k]).val
    BY <2>3, <2>5, <2>6, EffectSound
  <2> QED
    BY <2>3, <2>4, <2>6, <2>7
<1>2. UnsentChangesNothing <=> [][Kept]_vars
  BY DEF UnsentChangesNothing
<1> HIDE DEF Kept
<1> QED
  BY <1>1, <1>2, TypeCorrect, PTL DEF Spec

\* JSON.MGET answers for each key what JSON.GET does, nil for an error: for every
\* list of keys and every keyspace.
THEOREM MgetIsGet == Spec => MgetAgreesWithGet
<1> DEFINE GetOf(c, v) == GetEffect([op |-> "get", path |-> c.path], v).reply
           Agree == call'.op = "mget" /\ call'.path.style = "slash" =>
                      \A i \in DOMAIN call'.keys :
                        reply'.many[i] = IF IsError(GetOf(call', db[call'.keys[i]])) THEN Nil
                                         ELSE GetOf(call', db[call'.keys[i]])
<1>1. ASSUME NEW c, c.path.style = "slash", NEW v
      PROVE  MgetOne(c, v) = IF IsError(GetOf(c, v)) THEN Nil ELSE GetOf(c, v)
  <2> DEFINE g == [op |-> "get", path |-> c.path]
  <2>1. g.path = c.path
    OBVIOUS
  <2> HIDE DEF g
  <2>2. Found(g, v) = Found(c, v) /\ Node(g, v) = Node(c, v)
    BY <2>1 DEF Found, Node
  <2>3. GetEffect(g, v).reply =
          IF v = Empty THEN Nil ELSE IF v = Foreign THEN Error("wrongtype")
          ELSE IF Found(c, v) = {} THEN Error("pointer")
          ELSE Bulk(Subtree(v.root, Node(c, v)))
    BY <1>1, <2>1, <2>2, Zenon DEF GetEffect, OnDoc, Answer
  <2>4. \A w : IsError(Error(w)) /\ ~IsError(Nil) /\ ~IsError(Bulk(w))
    BY DEF IsError, Error, Nil, Bulk
  <2> QED BY <2>3, <2>4 DEF MgetOne, g
<1>2. TypeOK /\ [Next]_vars => [Agree]_vars
  <2> SUFFICES ASSUME Next, call'.op = "mget", call'.path.style = "slash",
                      NEW i \in DOMAIN call'.keys, TypeOK
               PROVE  reply'.many[i] = IF IsError(GetOf(call', db[call'.keys[i]])) THEN Nil
                                       ELSE GetOf(call', db[call'.keys[i]])
    OBVIOUS
  <2>1. ASSUME NEW k \in Key, NEW c \in Calls, Write(k, c) \/ Read(k, c)
        PROVE  FALSE
    BY <2>1, StepIsEffect DEF KeyOps
  <2>2. PICK c \in Calls : Mget(c)
    BY <2>1 DEF Next
  <2>3. call' = c /\ c.keys \in Seq(Key) /\ c.op = "mget"
    BY <2>2, CallsAssumption DEF Mget, IsCall
  <2>4. i \in 1..Len(c.keys) /\ c.path.style = "slash"
    BY <2>3
  <2>5. reply' = Many([j \in 1..Len(c.keys) |-> MgetOne(c, db[c.keys[j]])])
    BY <2>2, <2>4 DEF Mget
  <2>6. reply'.many[i] = MgetOne(c, db[c.keys[i]])
    BY <2>4, <2>5 DEF Many
  <2> HIDE DEF GetOf
  <2> QED BY <1>1, <2>3, <2>4, <2>6
<1>3. MgetAgreesWithGet <=> [][Agree]_vars
  BY DEF MgetAgreesWithGet
<1> HIDE DEF Agree
<1> QED BY <1>2, <1>3, TypeCorrect, PTL DEF Spec

(***************************************************************************)
(* When a key vanishes.                                                    *)
(***************************************************************************)
\* A document without children has none in any of its containers.
LEMMA ChildlessIs ==
  ASSUME NEW d, WellFormed(d), DropIfChildless(d) = Empty,
         NEW p \in DOMAIN d, d[p].t \in Container
  PROVE  p = Root /\ d[p].n = 0
<1>1. DOMAIN d = {Root}
  BY DEF DropIfChildless, Doc, Empty
<1>2. p = Root /\ p \in Address /\ d[p].n \in Nat
  BY <1>1 DEF WellFormed, Labelled, Counted
<1>3. ASSUME 1 \in 1..d[p].n PROVE FALSE
  <2>1. Append(p, 1) \in DOMAIN d /\ 1 \in Position
    BY <1>3 DEF WellFormed, Counted, Position
  <2> QED BY <1>1, <1>2, <2>1, AppendParent
<1> QED BY <1>2, <1>3

\* A key that holds a document is not an empty key.
LEMMA DocIsNotEmpty == \A d : Doc(d) # Empty
BY DEF Doc, Empty

\* What a command leaves unless it deletes.
LEMMA OnNodeKeeps ==
  ASSUME NEW c, NEW v, v # Empty, NEW missing, NEW t, NEW then,
         Reaches(c, v, t) => then.val # Empty
  PROVE  OnNode(c, v, missing, t, then).val # Empty
<1>1. \A r : Answer(v, r).val # Empty
  BY DEF Answer
<1> QED BY <1>1, OnNodeCases

\* The commands that take nothing away leave no key empty.
LEMMA ReadsAndNumbersKeep ==
  ASSUME NEW c, NEW v, v # Empty
  PROVE  /\ GetEffect(c, v).val # Empty /\ TypeEffect(c, v).val # Empty
         /\ StrLenEffect(c, v).val # Empty /\ ArrLenEffect(c, v).val # Empty
         /\ IncrByEffect(c, v).val # Empty /\ StrAppendEffect(c, v).val # Empty
<1>1. \A r : Answer(v, r).val # Empty
  BY DEF Answer
<1>2. \A d, r : Commit(Doc(d), r).val # Empty
  BY DocIsNotEmpty DEF Commit
<1>3. GetEffect(c, v).val # Empty
  BY <1>1 DEF GetEffect, OnDoc
<1>4. TypeEffect(c, v).val # Empty
  BY <1>1 DEF TypeEffect, OnDoc
<1>5. StrLenEffect(c, v).val # Empty /\ ArrLenEffect(c, v).val # Empty
  BY <1>1, OnNodeKeeps DEF StrLenEffect, ArrLenEffect
<1>6. IncrByEffect(c, v).val # Empty
  <2> DEFINE old   == v.root[Node(c, v)].n
             total == old + c.by
             after == WithNumber(v.root, Node(c, v), total)
             then  == IF ~(Finite(old) /\ Finite(c.by) /\ Finite(total))
                      THEN Answer(v, Error("overflow"))
                      ELSE Commit(Doc(after), Bulk(Subtree(after, Node(c, v))))
  <2>1. then.val # Empty
    BY <1>1, <1>2
  <2>2. IncrByEffect(c, v) = IF c.by = NotInt THEN Answer(v, Error("range"))
                             ELSE OnNode(c, v, Error("no key"), "number", then)
    BY DEF IncrByEffect
  <2> HIDE DEF then
  <2> QED BY <1>1, <2>1, <2>2, OnNodeKeeps, Zenon
<1>7. StrAppendEffect(c, v).val # Empty
  BY <1>2, OnNodeKeeps DEF StrAppendEffect
<1> QED BY <1>3, <1>4, <1>5, <1>6, <1>7

\* Nor do JSON.SET, JSON.ARRPUSH and JSON.ARRINSERT.
LEMMA WritesKeep ==
  ASSUME NEW c, NEW v, v # Empty
  PROVE  /\ SetEffect(c, v).val # Empty
         /\ ArrPushEffect(c, v).val # Empty /\ ArrInsertEffect(c, v).val # Empty
<1>1. \A r : Answer(v, r).val # Empty
  BY DEF Answer
<1>2. \A d, r : Commit(Doc(d), r).val # Empty /\ Answer(Doc(d), r).val # Empty
  BY DocIsNotEmpty DEF Commit, Answer
<1>3. SetEffect(c, v).val # Empty
  BY <1>1, <1>2 DEF SetEffect
<1>4. ArrPushEffect(c, v).val # Empty
  BY <1>2, OnNodeKeeps DEF ArrPushEffect
<1>5. ArrInsertEffect(c, v).val # Empty
  <2> DEFINE a     == Node(c, v)
             index == FromEnd(c.index, Size(v.root, a))
             after == Doc(InsertItems(v.root, a, index + 1, Parsed(c.jsons)))
             then  == IF c.index = NotInt THEN Answer(v, Error("range"))
                      ELSE IF index \notin 0..Size(v.root, a) THEN Answer(v, Error("outflow"))
                      ELSE IF Len(Parsed(c.jsons)) < Len(c.jsons) THEN Answer(after, Error("json"))
                      ELSE Commit(after, Number(Size(v.root, a) + Len(c.jsons)))
  <2>1. then.val # Empty
    BY <1>1, <1>2
  <2>2. ArrInsertEffect(c, v) = OnNode(c, v, Number(-1), "array", then)
    BY DEF ArrInsertEffect
  <2> HIDE DEF then
  <2> QED BY <2>1, <2>2, OnNodeKeeps
<1> QED BY <1>3, <1>4, <1>5

\* JSON.ARRTRIM keeps one element at least.
LEMMA TrimKeeps ==
  ASSUME NEW c, IsCall(c), c.op = "arrtrim", NEW v, IsValue(v), v # Empty
  PROVE  ArrTrimEffect(c, v).val # Empty
<1> DEFINE a     == Node(c, v)
           size  == Size(v.root, a)
           kept  == c.stop - c.start + 1
           tail  == DetachItems(v.root, a, 1, c.start)
           cut   == DetachItems(tail, a, kept + 1, size - c.start - kept)
           after == DropIfChildless(cut)
           then  == IF NotInt \in {c.start, c.stop} THEN Answer(v, Error("range"))
                    ELSE IF ~(0 <= c.start /\ c.start <= c.stop /\ c.stop < size)
                         THEN Answer(v, Error("outflow"))
                    ELSE Commit(after, IF after = Empty THEN Garbage ELSE Number(Size(after.root, a)))
<1>1. c.path \in Path /\ c.start \in Int \cup {NotInt} /\ c.stop \in Int \cup {NotInt}
  BY DEF IsCall
<1>2. ASSUME Reaches(c, v, "array") PROVE then.val # Empty
  <2>1. a \in DOMAIN v.root /\ v.root[a].t = "array" /\ WellFormed(v.root)
    BY <1>1, <1>2, ValueIsDoc, FoundType DEF Reaches
  <2>2. v.root[a].t \in Container /\ size \in Nat /\ size = v.root[a].n
    BY <2>1 DEF WellFormed, Counted, Container, Size
  <2>3. ASSUME NotInt \notin {c.start, c.stop}, 0 <= c.start, c.start <= c.stop, c.stop < size
        PROVE  after # Empty
    <3>1. /\ c.start \in Nat /\ c.stop \in Nat /\ 1 \in Position
          /\ 1 + c.start - 1 <= v.root[a].n
      BY <1>1, <2>2, <2>3 DEF Position
    <3>2. WellFormed(tail) /\ a \in DOMAIN tail /\ tail[a].t \in Container /\ tail[a].n = size - c.start
      <4> HIDE DEF a
      <4> QED
        BY <2>1, <2>2, <3>1, DetachedContainer
    <3>3. /\ kept + 1 \in Position /\ size - c.start - kept \in Nat
          /\ (kept + 1) + (size - c.start - kept) - 1 <= tail[a].n
          /\ tail[a].n - (size - c.start - kept) # 0
      BY <2>2, <2>3, <3>1, <3>2 DEF Position
    <3> HIDE DEF tail, kept, size, a
    <3>4. WellFormed(cut) /\ a \in DOMAIN cut /\ cut[a].t \in Container /\ cut[a].n # 0
      BY <3>2, <3>3, DetachedContainer
    <3> HIDE DEF cut
    <3> QED
      BY <3>4, ChildlessIs
  <2> HIDE DEF after, size
  <2> QED BY <2>3 DEF Answer, Commit
<1>3. ArrTrimEffect(c, v) = OnNode(c, v, Number(-1), "array", then)
  BY DEF ArrTrimEffect
<1> HIDE DEF then
<1> QED BY <1>2, <1>3, OnNodeKeeps

\* JSON.ARRPOP deletes the key with the only child of the root.
LEMMA PopEmpties ==
  ASSUME NEW c, IsCall(c), c.op = "arrpop", NEW v, IsValue(v), v # Empty,
         ArrPopEffect(c, v).val = Empty
  PROVE  ArrPopEffect(c, v).sent /\ v.root[Root].n = 1
<1> DEFINE a     == Node(c, v)
           index == FromEnd(c.index, Size(v.root, a))
           left  == DetachItems(v.root, a, index + 1, 1)
           then  == IF c.index = NotInt THEN Answer(v, Error("range"))
                    ELSE IF index \notin 0..(Size(v.root, a) - 1) THEN Answer(v, Error("outflow"))
                    ELSE Commit(DropIfChildless(left), Bulk(Subtree(v.root, Append(a, index + 1))))
<1>1. c.path \in Path
  BY DEF IsCall
<1>2. ArrPopEffect(c, v) = OnNode(c, v, Error("no key"), "array", then)
  BY Zenon DEF ArrPopEffect
<1>3. ASSUME Reaches(c, v, "array"), then.val = Empty
      PROVE  then.sent /\ v.root[Root].n = 1
  <2>1. a \in DOMAIN v.root /\ v.root[a].t = "array" /\ WellFormed(v.root)
    BY <1>1, <1>3, ValueIsDoc, FoundType DEF Reaches
  <2>2. v.root[a].t \in Container /\ v.root[a].n \in Nat
    BY <2>1 DEF WellFormed, Counted, Container
  <2>3. index \in 0..(Size(v.root, a) - 1) /\ DropIfChildless(left) = Empty /\ then.sent
    <3> HIDE DEF left, index
    <3> QED BY <1>3 DEF Answer, Commit
  <2>4. index + 1 \in Position /\ index + 1 + 1 - 1 <= v.root[a].n /\ 1 \in Nat
    BY <2>2, <2>3 DEF Position, Size
  <2> HIDE DEF index, a
  <2>5. WellFormed(left) /\ a \in DOMAIN left /\ left[a].t \in Container /\ left[a].n = v.root[a].n - 1
    BY <2>1, <2>2, <2>4, DetachedContainer
  <2> HIDE DEF left
  <2>6. a = Root /\ left[a].n = 0
    BY <2>3, <2>5, ChildlessIs
  <2> QED BY <2>2, <2>3, <2>5, <2>6
<1> HIDE DEF then
<1>4. Reaches(c, v, "array")
  BY <1>2, OnNodeKeeps, Zenon
<1> QED BY <1>2, <1>3, <1>4, OnNodeCases, Zenon

\* So does JSON.DEL, and with the root itself.
LEMMA DelEmpties ==
  ASSUME NEW c, c.path \in Path, NEW v, IsValue(v), v # Empty, v # Foreign,
         DelEffect(c, v).val = Empty
  PROVE  DelEffect(c, v).sent /\ (IsRoot(PathToPointer(c.path)) \/ v.root[Root].n = 1)
<1> DEFINE ptr   == PathToPointer(c.path)
           patch == PatchRemove(v.root, ptr)
           old   == DetachPath(v.root, ptr)
           pl    == CHOOSE x \in old : TRUE
<1>1. ptr \in Pointer /\ WellFormed(v.root)
  BY PathType, ValueIsDoc
<1>2. DelEffect(c, v) =
        IF c.path.style = "broken"    THEN Answer(v, Error("path"))
        ELSE IF IsRoot(ptr)           THEN Commit(Empty, Number(1))
        ELSE IF patch.status # 0      THEN Answer(Doc(patch.doc), PatchError(patch.status))
        ELSE Commit(DropIfChildless(patch.doc), Number(1))
  BY DEF DelEffect, OnDoc
<1> HIDE DEF ptr, patch
<1>3. CASE IsRoot(ptr)
  BY <1>2, <1>3 DEF Answer, Commit, ptr
<1>4. CASE ~IsRoot(ptr)
  <2>1. patch.status = 0 /\ DropIfChildless(patch.doc) = Empty /\ DelEffect(c, v).sent
    BY <1>2, <1>4, DocIsNotEmpty DEF Answer, Commit
  <2>2. old # {} /\ patch.doc = Without(v.root, pl)
    BY <2>1 DEF PatchRemove, Patched, patch
  <2>3. pl \in old
    BY <2>2
  <2> HIDE DEF pl
  <2>4. PICK p \in DOMAIN v.root, i \in Int :
          /\ pl = <<p, i>> /\ i \in 1..v.root[p].n
          /\ v.root[p].t \in Container /\ v.root[p].n \in Nat
    BY <1>1, <2>3, DetachPathType
  <2>5. /\ WellFormed(patch.doc) /\ p \in DOMAIN patch.doc
        /\ patch.doc[p].t \in Container /\ patch.doc[p].n = v.root[p].n - 1
    BY <1>1, <2>2, <2>4, WithoutWellFormed
  <2>6. p = Root /\ patch.doc[p].n = 0
    BY <2>1, <2>5, ChildlessIs
  <2> QED BY <2>1, <2>4, <2>5, <2>6
<1> QED BY <1>3, <1>4

\* A key vanishes by its root or its last child being taken away.
LEMMA EffectEmpties ==
  ASSUME NEW c, IsCall(c), c.op \in KeyOps, NEW v, IsValue(v), v # Empty, v # Foreign,
         Effect(c, v).val = Empty
  PROVE  \/ c.op = "native"
         \/ Effect(c, v).sent /\ c.op = "del" /\ IsRoot(PathToPointer(c.path))
         \/ Effect(c, v).sent /\ c.op \in {"del", "arrpop"} /\ Size(v.root, Root) = 1
<1>1. c.path \in Path
  BY DEF IsCall
<1>2. CASE c.op \in {"get", "type", "strlen", "arrlen", "incrby", "strappend"}
  BY <1>2, ReadsAndNumbersKeep, Zenon DEF Effect
<1>3. CASE c.op \in {"set", "arrpush", "arrinsert"}
  BY <1>3, WritesKeep, Zenon DEF Effect
<1>4. CASE c.op = "arrtrim"
  BY <1>4, TrimKeeps DEF Effect
<1>5. CASE c.op = "arrpop"
  BY <1>5, PopEmpties DEF Effect, Size
<1>6. CASE c.op = "del"
  BY <1>1, <1>6, DelEmpties DEF Effect, Size
<1> QED BY <1>2, <1>3, <1>4, <1>5, <1>6 DEF KeyOps

\* A key that held a document vanishes by JSON.DEL of the root, or with the only
\* child of the root, by JSON.DEL or JSON.ARRPOP; by no other command.
THEOREM KeyVanishes == Spec => KeyGoesWithItsLastChild
<1> DEFINE Gone == \A k \in Key : WasDoc(k) /\ on' = {k} /\ db'[k] = Empty =>
                     \/ call'.op = "native"
                     \/ Acked("del", k) /\ IsRoot(PathToPointer(call'.path))
                     \/ (Acked("del", k) \/ Acked("arrpop", k)) /\ Size(db[k].root, Root) = 1
<1>1. TypeOK /\ [Next]_vars => [Gone]_vars
  <2> SUFFICES ASSUME TypeOK, Next, NEW k \in Key, WasDoc(k), on' = {k}, db'[k] = Empty
               PROVE  \/ call'.op = "native"
                      \/ Acked("del", k) /\ IsRoot(PathToPointer(call'.path))
                      \/ (Acked("del", k) \/ Acked("arrpop", k)) /\ Size(db[k].root, Root) = 1
    OBVIOUS
  <2>1. ~ \E c \in Calls : Mget(c)
    BY DEF Mget
  <2>2. PICK j \in Key, c \in Calls : Write(j, c) \/ Read(j, c)
    BY <2>1 DEF Next
  <2>3. /\ c.op \in KeyOps
        /\ db' = [db EXCEPT ![j] = Effect(c, db[j]).val]
        /\ call' = c /\ sent' = Effect(c, db[j]).sent
    BY <2>2, StepIsEffect
  <2>4. j = k /\ Effect(c, db[k]).val = Empty
    BY <2>3 DEF TypeOK, WasDoc
  <2>5. IsCall(c) /\ IsValue(db[k])
    BY CallsAssumption DEF TypeOK
  <2>6. \/ c.op = "native"
        \/ Effect(c, db[k]).sent /\ c.op = "del" /\ IsRoot(PathToPointer(c.path))
        \/ Effect(c, db[k]).sent /\ c.op \in {"del", "arrpop"} /\ Size(db[k].root, Root) = 1
    BY <2>3, <2>4, <2>5, EffectEmpties DEF WasDoc
  <2> QED BY <2>3, <2>4, <2>6 DEF Acked
<1>2. KeyGoesWithItsLastChild <=> [][Gone]_vars
  BY DEF KeyGoesWithItsLastChild
<1> HIDE DEF Gone
<1> QED BY <1>1, <1>2, TypeCorrect, PTL DEF Spec

(***************************************************************************)
(* A path still leads to the node that a command has changed.              *)
(***************************************************************************)
\* What is not deeper than a is in e as it was in d, and a keeps name and type.
KeptAbove(d, e, a) ==
  \A b \in DOMAIN d : Len(b) <= Len(a) =>
    /\ b \in DOMAIN e /\ e[b].name = d[b].name /\ e[b].t = d[b].t
    /\ b # a => e[b] = d[b]

\* What a pointer denotes, and its holder, are read from the nodes above the
\* one it reaches: a document that keeps those has the pointer reach the same.
LEMMA PathKept ==
  ASSUME NEW d, WellFormed(d), NEW e, NEW toks, NEW a \in DOMAIN d, Resolves(d, toks, a),
         KeptAbove(d, e, a)
  PROVE  a \in DOMAIN e /\ Resolves(e, toks, a)
<1>1. a \in Address /\ Len(a) \in Nat
  BY LenProperties DEF WellFormed, Labelled, Address
<1>2. a \in DOMAIN e
  BY <1>1 DEF KeptAbove
<1>3. ASSUME NEW j \in 1..Len(a)
      PROVE  Selects(e, Prefix(a, j - 1), toks[j], a[j])
  <2> DEFINE q == Prefix(a, j - 1)
  <2>1. q \in DOMAIN d /\ q \in Address /\ Len(q) = j - 1
    <3>1. j - 1 \in 0..Len(a)
      BY <1>1
    <3>2. q \in DOMAIN d /\ q \in Address
      BY <1>1, <3>1, PrefixInTree DEF WellFormed, Labelled
    <3>3. Len(q) = j - 1
      BY <1>1, <3>1 DEF Prefix
    <3> QED BY <3>2, <3>3
  <2>2. Selects(d, q, toks[j], a[j])
    BY DEF Resolves
  <2> HIDE DEF q
  <2>3. q \in DOMAIN e /\ e[q] = d[q]
    BY <1>1, <2>1 DEF KeptAbove
  <2>4. ASSUME d[q].t = "object"
        PROVE  FirstNamed(e, q, {SoughtName[toks[j]]}) = FirstNamed(d, q, {SoughtName[toks[j]]})
    <3>1. d[q].n \in Nat
      BY <2>1, <2>4 DEF WellFormed, Counted, Container
    <3>2. ASSUME NEW l \in 1..d[q].n
          PROVE  e[Append(q, l)].name = d[Append(q, l)].name
      <4>1. Append(q, l) \in DOMAIN d
        BY <2>1, <2>4 DEF WellFormed, Counted, Container
      <4>2. Len(Append(q, l)) = j
        BY <2>1, <3>1, AppendProperties DEF Address, Position
      <4>3. \A b : b \in DOMAIN d /\ Len(b) = j => e[b].name = d[b].name
        BY <1>1 DEF KeptAbove
      <4> QED BY <4>1, <4>2, <4>3
    <3>3. \A l \in 1..d[q].n : \A m \in 1..(l - 1) : m \in 1..d[q].n
      BY <3>1
    <3> QED BY <2>3, <3>1, <3>2, <3>3 DEF FirstNamed, Size
  <2> QED BY <2>2, <2>3, <2>4 DEF Selects, Size, q
<1> QED BY <1>2, <1>3 DEF Resolves

\* Taking children out of a container keeps it and the nodes above it, but for
\* its count.
LEMMA DetachKeepsAbove ==
  ASSUME NEW d, WellFormed(d), NEW p \in DOMAIN d, NEW i \in Position, NEW k \in Nat
  PROVE  KeptAbove(d, DetachItems(d, p, i, k), p)
<1> DEFINE e == DetachItems(d, p, i, k)
<1>1. Labelled(d) /\ p \in Address /\ d[p] \in Label /\ k \in Int
  BY DEF WellFormed, Labelled
<1>2. ASSUME NEW b \in DOMAIN d, Len(b) <= Len(p)
      PROVE  b \in DOMAIN e /\ e[b] = IF b = p THEN Resized(d[p], -k) ELSE d[b]
  <2>1. b \in Address /\ Len(p) \in Nat /\ Len(b) \in Nat
    BY <1>1, LenProperties DEF Labelled, Address
  <2>2. Shift(p, i, k, b) = b
    BY <1>2, <2>1 DEF Shift, FromChild
  <2> QED BY <1>1, <2>1, <2>2, DetachDomain
<1>3. Resized(d[p], -k).name = d[p].name /\ Resized(d[p], -k).t = d[p].t
  BY <1>1, ResizedLabel
<1> HIDE DEF e
<1>4. KeptAbove(d, e, p)
  BY <1>2, <1>3 DEF KeptAbove
<1> QED BY <1>4 DEF e

\* So does putting documents into it.
LEMMA InsertKeepsAbove ==
  ASSUME NEW d, WellFormed(d), NEW p \in DOMAIN d, NEW i \in Position,
         NEW subs, NEW k \in Nat, k = Len(subs), \A j \in 1..k : Labelled(subs[j])
  PROVE  LET e == InsertItems(d, p, i, subs)
         IN KeptAbove(d, e, p) /\ e[p].n = d[p].n + k
<1> DEFINE e == InsertItems(d, p, i, subs)
<1>1. Labelled(d) /\ p \in Address /\ d[p] \in Label /\ k \in Int
  BY DEF WellFormed, Labelled
<1>2. ASSUME NEW b \in DOMAIN d, Len(b) <= Len(p)
      PROVE  b \in DOMAIN e /\ e[b] = IF b = p THEN Resized(d[p], k) ELSE d[b]
  <2>1. b \in Address /\ Len(p) \in Nat /\ Len(b) \in Nat
    BY <1>1, LenProperties DEF Labelled, Address
  <2>2. Shift(p, i, -k, b) = b /\ ~InBlock(p, i, k, b)
    BY <1>2, <2>1 DEF Shift, InBlock, FromChild
  <2>3. b \in DOMAIN e
    BY <1>1, <2>1, <2>2, InsertDomain
  <2>4. \A x \in DOMAIN e :
          e[x] = IF x = p THEN Resized(d[p], k)
                 ELSE IF InBlock(p, i, k, x) THEN subs[Turn(p, x) - i + 1][Rest(p, x)]
                 ELSE d[Shift(p, i, -k, x)]
    BY <1>1, InsertDomain
  <2> HIDE DEF e
  <2> QED BY <2>2, <2>3, <2>4
<1>3. Resized(d[p], k).name = d[p].name /\ Resized(d[p], k).t = d[p].t /\ Resized(d[p], k).n = d[p].n + k
  BY <1>1, ResizedLabel
<1> HIDE DEF e
<1>4. KeptAbove(d, e, p)
  BY <1>2, <1>3 DEF KeptAbove
<1>5. Len(p) \in Nat
  BY <1>1, LenProperties DEF Address
<1>6. e[p].n = d[p].n + k
  BY <1>2, <1>3, <1>5
<1> QED BY <1>4, <1>6 DEF e

\* So does changing the number of a node.
LEMMA NumberKeepsAbove ==
  ASSUME NEW d, WellFormed(d), NEW a \in DOMAIN d, NEW n
  PROVE  KeptAbove(d, WithNumber(d, a, n), a) /\ WithNumber(d, a, n)[a].n = n
<1>1. d[a] \in Label
  BY DEF WellFormed, Labelled
<1> QED BY <1>1 DEF KeptAbove, WithNumber, Label

\* A call with the same path finds the same node in the document it left.
LEMMA NodeKept ==
  ASSUME NEW c, c.path \in Path, NEW v, WellFormed(v.root), Found(c, v) # {},
         NEW e, WellFormed(e), KeptAbove(v.root, e, Node(c, v)),
         NEW r, r.path = c.path
  PROVE  /\ Found(r, Doc(e)) # {} /\ Node(r, Doc(e)) = Node(c, v)
         /\ Node(c, v) \in DOMAIN e
<1> DEFINE ptr == PathToPointer(c.path)
           d   == v.root
           a   == Node(c, v)
<1>1. ptr \in Pointer /\ Doc(e).root = e /\ PathToPointer(r.path) = ptr
  BY PathType DEF Doc
<1>2. a \in GetPointer(d, ptr) /\ a \in DOMAIN d
  BY FoundType DEF Found, Node
<1> HIDE DEF ptr, a
<1>3. a \in GetPointer(e, ptr)
  <2>1. CASE ptr.lead
    BY <1>2, <2>1 DEF GetPointer
  <2>2. CASE ~ptr.lead
    <3>1. Resolves(d, ptr.toks, a)
      BY <1>2, <2>2 DEF GetPointer
    <3>2. a \in DOMAIN e /\ Resolves(e, ptr.toks, a)
      BY <1>2, <3>1, PathKept DEF a
    <3> QED BY <2>2, <3>2 DEF GetPointer
  <2> QED BY <2>1, <2>2
<1>4. Found(r, Doc(e)) = GetPointer(e, ptr)
  BY <1>1 DEF Found
<1>5. GetPointer(e, ptr) \subseteq DOMAIN e /\ \A x, y \in GetPointer(e, ptr) : x = y
  BY <1>1, PointerOnce
<1>6. Node(r, Doc(e)) = a
  BY <1>3, <1>4, <1>5 DEF Node
<1> QED BY <1>3, <1>4, <1>5, <1>6 DEF a

(***************************************************************************)
(* What a write replies is what a read finds.                              *)
(***************************************************************************)
\* The length of an array, the length of a string, and the value at a path, as
\* read by a call r.
LEMMA ReadReplies ==
  ASSUME NEW r, NEW e, r.path.style # "broken", Found(r, Doc(e)) # {}
  PROVE  LET a == Node(r, Doc(e))
         IN /\ e[a].t = "array" => ArrLenEffect(r, Doc(e)).reply = Number(e[a].n)
            /\ e[a].t = "string" => StrLenEffect(r, Doc(e)).reply = Number(e[a].n)
            /\ r.path.style # "bare" => GetEffect(r, Doc(e)).reply = Bulk(Subtree(e, a))
<1>1. Doc(e).root = e /\ Doc(e) # Empty /\ Doc(e) # Foreign
  BY DEF Doc, Empty, Foreign
<1>2. \A t : e[Node(r, Doc(e))].t = t => Reaches(r, Doc(e), t)
  BY <1>1 DEF Reaches
<1>3. e[Node(r, Doc(e))].t = "array" => ArrLenEffect(r, Doc(e)).reply = Number(e[Node(r, Doc(e))].n)
  BY <1>1, <1>2, OnNodeCases DEF ArrLenEffect, Answer, Size
<1>4. e[Node(r, Doc(e))].t = "string" => StrLenEffect(r, Doc(e)).reply = Number(e[Node(r, Doc(e))].n)
  BY <1>1, <1>2, OnNodeCases DEF StrLenEffect, Answer
<1>5. r.path.style # "bare" => GetEffect(r, Doc(e)).reply = Bulk(Subtree(e, Node(r, Doc(e))))
  BY <1>1 DEF GetEffect, OnDoc, Answer
<1> QED BY <1>3, <1>4, <1>5

\* A handler that answers by Commit has reached its node.
LEMMA OnNodeSent ==
  ASSUME NEW c, NEW v, NEW missing, NEW t, NEW then, OnNode(c, v, missing, t, then).sent
  PROVE  Reaches(c, v, t) /\ OnNode(c, v, missing, t, then) = then
<1>1. \A r : ~Answer(v, r).sent
  BY DEF Answer
<1> QED BY <1>1, OnNodeCases

\* The node that was reached, in the document before.
LEMMA ReachedIs ==
  ASSUME NEW c, c.path \in Path, NEW v, IsValue(v), NEW t, Reaches(c, v, t)
  PROVE  /\ WellFormed(v.root) /\ Node(c, v) \in DOMAIN v.root /\ v.root[Node(c, v)].t = t
         /\ Found(c, v) # {} /\ c.path.style # "broken" /\ Node(c, v) \in Address
         /\ v.root[Node(c, v)].n \in Int
         /\ t \in Container => v.root[Node(c, v)].n \in Nat
<1>1. WellFormed(v.root)
  BY ValueIsDoc DEF Reaches
<1>2. Node(c, v) \in DOMAIN v.root
  BY <1>1, FoundType DEF Reaches
<1> QED BY <1>1, <1>2 DEF Reaches, WellFormed, Counted, Labelled, Label

\* The read that goes with each write.
LEMMA RereadIs ==
  ASSUME NEW c, c.op \in {"arrpush", "arrinsert", "arrtrim", "strappend", "incrby"}, NEW w
  PROVE  /\ Reread(c).path = c.path
         /\ c.op \in {"arrpush", "arrinsert", "arrtrim"} => Effect(Reread(c), w) = ArrLenEffect(Reread(c), w)
         /\ c.op = "strappend" => Effect(Reread(c), w) = StrLenEffect(Reread(c), w)
         /\ c.op = "incrby" => Effect(Reread(c), w) = GetEffect(Reread(c), w)
<1>1. /\ Reread(c).path = c.path
      /\ c.op \in {"arrpush", "arrinsert", "arrtrim"} => Reread(c).op = "arrlen"
      /\ c.op = "strappend" => Reread(c).op = "strlen"
      /\ c.op = "incrby" => Reread(c).op = "get"
  BY DEF Reread
<1> HIDE DEF Reread
<1> QED BY <1>1 DEF Effect

\* JSON.INCRBY and JSON.STRAPPEND.
LEMMA NumbersReread ==
  ASSUME NEW c, IsCall(c), NEW v, IsValue(v)
  PROVE  /\ c.op = "incrby" /\ c.path.style = "slash" /\ IncrByEffect(c, v).sent =>
              IncrByEffect(c, v).reply = GetEffect(Reread(c), IncrByEffect(c, v).val).reply
         /\ c.op = "strappend" /\ c.seen = c.len /\ StrAppendEffect(c, v).sent =>
              StrAppendEffect(c, v).reply = StrLenEffect(Reread(c), StrAppendEffect(c, v).val).reply
<1> DEFINE a    == Node(c, v)
           old  == v.root[a].n
           e(n) == WithNumber(v.root, a, n)
           r    == Reread(c)
<1>1. c.path \in Path /\ r.path = c.path
  BY DEF IsCall, Reread
<1> HIDE DEF r
<1>2. ASSUME NEW t \in {"number", "string"}, Reaches(c, v, t), NEW n \in Int
      PROVE  /\ Found(r, Doc(e(n))) # {} /\ Node(r, Doc(e(n))) = a
             /\ e(n)[a].t = t /\ e(n)[a].n = n /\ r.path.style # "broken"
  <2>1. /\ WellFormed(v.root) /\ a \in DOMAIN v.root /\ v.root[a].t = t
        /\ Found(c, v) # {} /\ c.path.style # "broken" /\ a \in Address
    BY <1>1, <1>2, ReachedIs
  <2>2. t \notin Container
    BY DEF Container
  <2> HIDE DEF a
  <2>3. WellFormed(e(n)) /\ KeptAbove(v.root, e(n), a) /\ e(n)[a].n = n
    BY <2>1, <2>2, WithNumberWellFormed, NumberKeepsAbove
  <2>4. e(n)[a].t = t
    <3>1. Len(a) <= Len(a)
      BY <2>1, LenProperties DEF Address
    <3> QED BY <2>1, <2>3, <3>1 DEF KeptAbove
  <2> HIDE DEF e
  <2>5. Found(r, Doc(e(n))) # {} /\ Node(r, Doc(e(n))) = a
    BY <1>1, <2>1, <2>3, NodeKept DEF a
  <2> QED BY <1>1, <2>1, <2>3, <2>4, <2>5
<1>3. ASSUME c.op = "incrby", c.path.style = "slash", IncrByEffect(c, v).sent
      PROVE  IncrByEffect(c, v).reply = GetEffect(r, IncrByEffect(c, v).val).reply
  <2> DEFINE total == old + c.by
             none  == Error("no key")
             then  == IF ~(Finite(old) /\ Finite(c.by) /\ Finite(total))
                      THEN Answer(v, Error("overflow"))
                      ELSE Commit(Doc(e(total)), Bulk(Subtree(e(total), a)))
  <2>1. IncrByEffect(c, v) = IF c.by = NotInt THEN Answer(v, Error("range"))
                             ELSE OnNode(c, v, none, "number", then)
    BY DEF IncrByEffect
  <2>2. \A s : ~Answer(v, s).sent
    BY DEF Answer
  <2>3. then.sent => then = Commit(Doc(e(total)), Bulk(Subtree(e(total), a)))
    BY <2>2
  <2> HIDE DEF then, none
  <2>4. c.by # NotInt /\ Reaches(c, v, "number") /\ IncrByEffect(c, v) = then
    <3>1. c.by # NotInt
      BY <1>3, <2>1, <2>2
    <3>2. IncrByEffect(c, v) = OnNode(c, v, none, "number", then)
      BY <2>1, <3>1
    <3>3. OnNode(c, v, none, "number", then).sent
      BY <1>3, <3>2
    <3>4. Reaches(c, v, "number") /\ OnNode(c, v, none, "number", then) = then
      BY <3>3, OnNodeSent
    <3> QED BY <3>1, <3>2, <3>4
  <2>5. /\ IncrByEffect(c, v).val = Doc(e(total))
        /\ IncrByEffect(c, v).reply = Bulk(Subtree(e(total), a))
    BY <1>3, <2>3, <2>4 DEF Commit
  <2>6. total \in Int
    BY <1>1, <1>3, <2>4, ReachedIs DEF IsCall
  <2> HIDE DEF total, a, e
  <2>7. /\ Found(r, Doc(e(total))) # {} /\ Node(r, Doc(e(total))) = a
        /\ r.path.style # "broken"
    BY <1>2, <2>4, <2>6
  <2>8. r.path.style # "bare"
    BY <1>1, <1>3
  <2> QED BY <2>5, <2>7, <2>8, ReadReplies
<1>4. ASSUME c.op = "strappend", c.seen = c.len, StrAppendEffect(c, v).sent
      PROVE  StrAppendEffect(c, v).reply = StrLenEffect(r, StrAppendEffect(c, v).val).reply
  <2> DEFINE total == old + c.seen
  <2>1. StrAppendEffect(c, v) =
          OnNode(c, v, Number(-1), "string", Commit(Doc(e(total)), Number(total)))
    BY <1>4 DEF StrAppendEffect
  <2>2. Reaches(c, v, "string") /\ StrAppendEffect(c, v) = Commit(Doc(e(total)), Number(total))
    <3> HIDE DEF e, total
    <3> QED BY <1>4, <2>1, OnNodeSent
  <2>3. total \in Int
    BY <1>1, <1>4, <2>2, ReachedIs DEF IsCall
  <2> HIDE DEF total, a, e
  <2>4. /\ StrAppendEffect(c, v).val = Doc(e(total)) /\ StrAppendEffect(c, v).reply = Number(total)
    BY <2>2 DEF Commit
  <2>5. /\ Found(r, Doc(e(total))) # {} /\ Node(r, Doc(e(total))) = a
        /\ e(total)[a].t = "string" /\ e(total)[a].n = total /\ r.path.style # "broken"
    BY <1>2, <2>2, <2>3
  <2> QED BY <2>4, <2>5, ReadReplies
<1> QED BY <1>3, <1>4 DEF r

\* A push or an insert that is propagated has put in all its arguments.
LEMMA BatchSent ==
  ASSUME NEW c, IsCall(c), c.op \in {"arrpush", "arrinsert"}, NEW v, IsValue(v),
         Effect(c, v).sent
  PROVE  LET d == v.root
             a == Node(c, v)
             n == v.root[Node(c, v)].n
             i == IF c.op = "arrpush" THEN n + 1 ELSE FromEnd(c.index, n) + 1
         IN /\ Reaches(c, v, "array") /\ n \in Nat /\ i \in 1..(n + 1)
            /\ Parsed(c.jsons) = c.jsons
            /\ \A l \in 1..Len(c.jsons) : c.jsons[l] # BadJson
            /\ c.op = "arrinsert" => c.index \in Int
            /\ Effect(c, v) = Commit(Doc(InsertItems(d, a, i, c.jsons)), Number(n + Len(c.jsons)))
<1> DEFINE a    == Node(c, v)
           d    == v.root
           n    == v.root[Node(c, v)].n
           s    == Parsed(c.jsons)
           e(i) == InsertItems(d, a, i, s)
           told == Number(n + Len(c.jsons))
<1>1. c.path \in Path
  BY DEF IsCall
<1>2. /\ c.jsons = [l \in 1..Len(c.jsons) |-> c.jsons[l]] /\ Len(c.jsons) \in Nat
      /\ \A l \in 1..Len(c.jsons) : IsJson(c.jsons[l])
  BY DEF IsCall
<1>3. /\ Len(s) \in 0..Len(c.jsons)
      /\ \A l \in 1..Len(s) : s[l] = c.jsons[l] /\ c.jsons[l] # BadJson
  BY <1>2, ParsedType
<1>4. ASSUME Len(s) = Len(c.jsons)
      PROVE  s = c.jsons /\ \A l \in 1..Len(c.jsons) : c.jsons[l] # BadJson
  <2>1. \A l \in 1..Len(c.jsons) : c.jsons[l] # BadJson
    BY <1>3, <1>4
  <2>2. s = c.jsons
    BY <2>1 DEF Parsed
  <2> QED BY <2>1, <2>2
<1>5. Len(s) < Len(c.jsons) \/ Len(s) = Len(c.jsons)
  BY <1>2, <1>3
<1>6. \A w, x : ~Answer(w, x).sent
  BY DEF Answer
<1>7. CASE c.op = "arrpush"
  <2> DEFINE then == IF Len(s) < Len(c.jsons) THEN Answer(Doc(e(n + 1)), Error("json"))
                     ELSE Commit(Doc(e(n + 1)), told)
  <2>1. Effect(c, v) = OnNode(c, v, Number(-1), "array", then)
    BY <1>7 DEF Effect, ArrPushEffect, AddItems, Size
  <2>2. Reaches(c, v, "array") /\ Effect(c, v) = then
    <3> HIDE DEF then
    <3> QED BY <2>1, OnNodeSent
  <2>3. n \in Nat
    BY <1>1, <2>2, ReachedIs DEF Container
  <2>4. n + 1 \in 1..(n + 1)
    BY <2>3
  <2>5. Len(s) = Len(c.jsons) /\ Effect(c, v) = Commit(Doc(e(n + 1)), told)
    <3> HIDE DEF s, e, n, told
    <3> QED BY <1>5, <1>6, <2>2
  <2>6. s = c.jsons /\ \A l \in 1..Len(c.jsons) : c.jsons[l] # BadJson
    BY <1>4, <2>5
  <2>7. Effect(c, v) = Commit(Doc(InsertItems(d, a, n + 1, c.jsons)), told)
    BY <2>5, <2>6
  <2> HIDE DEF n, s
  <2>8. c.op # "arrinsert"
    BY <1>7
  <2> QED BY <1>7, <2>2, <2>3, <2>4, <2>6, <2>7, <2>8 DEF n, s
<1>8. CASE c.op = "arrinsert"
  <2> DEFINE index == FromEnd(c.index, n)
             then  == IF c.index = NotInt THEN Answer(v, Error("range"))
                      ELSE IF index \notin 0..n THEN Answer(v, Error("outflow"))
                      ELSE IF Len(s) < Len(c.jsons) THEN Answer(Doc(e(index + 1)), Error("json"))
                      ELSE Commit(Doc(e(index + 1)), told)
  <2>1. Effect(c, v) = OnNode(c, v, Number(-1), "array", then)
    BY <1>8 DEF Effect, ArrInsertEffect, Size
  <2>2. Reaches(c, v, "array") /\ Effect(c, v) = then
    <3> HIDE DEF then
    <3> QED BY <2>1, OnNodeSent
  <2>3. n \in Nat
    BY <1>1, <2>2, ReachedIs DEF Container
  <2>4. /\ index \in 0..n /\ c.index # NotInt /\ Len(s) = Len(c.jsons)
        /\ Effect(c, v) = Commit(Doc(e(index + 1)), told)
    <3> HIDE DEF s, e, n, index, told
    <3> QED BY <1>5, <1>6, <2>2
  <2>5. index + 1 \in 1..(n + 1)
    <3> HIDE DEF index, n
    <3> QED BY <2>3, <2>4
  <2>6. s = c.jsons /\ \A l \in 1..Len(c.jsons) : c.jsons[l] # BadJson
    BY <1>4, <2>4
  <2>7. Effect(c, v) = Commit(Doc(InsertItems(d, a, index + 1, c.jsons)), told)
    BY <2>4, <2>6
  <2>8. c.op # "arrpush" /\ c.index \in Int
    BY <1>8, <2>4 DEF IsCall
  <2> HIDE DEF s
  <2> QED BY <2>2, <2>3, <2>5, <2>6, <2>7, <2>8 DEF s
<1> QED BY <1>7, <1>8

\* JSON.ARRPUSH and JSON.ARRINSERT.
LEMMA BatchesReread ==
  ASSUME NEW c, IsCall(c), c.op \in {"arrpush", "arrinsert"}, NEW v, IsValue(v),
         Effect(c, v).sent
  PROVE  Effect(c, v).reply = ArrLenEffect(Reread(c), Effect(c, v).val).reply
<1> DEFINE a == Node(c, v)
           d == v.root
           s == c.jsons
           n == v.root[Node(c, v)].n
           i == IF c.op = "arrpush" THEN n + 1 ELSE FromEnd(c.index, n) + 1
           e == InsertItems(d, a, i, s)
           r == Reread(c)
<1>1. c.path \in Path /\ r.path = c.path
  BY DEF IsCall, Reread
<1>2. /\ Len(s) \in Nat /\ \A l \in 1..Len(s) : IsJson(s[l])
      /\ s = [l \in 1..Len(s) |-> s[l]]
  BY DEF IsCall
<1>3. /\ Reaches(c, v, "array") /\ n \in Nat /\ i \in 1..(n + 1)
      /\ Parsed(s) = s /\ \A l \in 1..Len(s) : s[l] # BadJson
      /\ Effect(c, v) = Commit(Doc(e), Number(n + Len(s)))
  <2> HIDE DEF r
  <2> QED BY BatchSent
<1> HIDE DEF r
<1>4. /\ WellFormed(d) /\ a \in DOMAIN d /\ d[a].t = "array"
      /\ Found(c, v) # {} /\ c.path.style # "broken" /\ a \in Address
  BY <1>1, <1>3, ReachedIs DEF Container
<1>5. i \in Position
  BY <1>3 DEF Position
<1>6. WellFormed(e)
  <2>1. WellFormed(InsertItems(d, a, i, Parsed(s)))
    <3>1. d[a].n \in Nat /\ i \in 1..(d[a].n + 1)
      BY <1>3
    <3> HIDE DEF a, i, s
    <3> QED BY <1>2, <1>4, <3>1, BatchWellFormed DEF Container
  <2> QED BY <1>3, <2>1
<1> HIDE DEF s
<1>7. \A l \in 1..Len(s) : Labelled(s[l])
  BY <1>2, <1>3 DEF IsJson, WellFormed
<1>8. KeptAbove(d, e, a) /\ e[a].n = d[a].n + Len(s)
  <2> DEFINE k == Len(s)
  <2>1. k \in Nat /\ k = Len(s)
    BY <1>2
  <2> HIDE DEF k, a, i
  <2> QED BY <1>4, <1>5, <1>7, <2>1, InsertKeepsAbove
<1>9. e[a].t = "array"
  <2>1. Len(a) <= Len(a)
    BY <1>4, LenProperties DEF Address
  <2> QED BY <1>4, <1>8, <2>1 DEF KeptAbove
<1> HIDE DEF e
<1>10. Found(r, Doc(e)) # {} /\ Node(r, Doc(e)) = a
  BY <1>1, <1>4, <1>6, <1>8, NodeKept DEF a
<1>11. ArrLenEffect(r, Doc(e)).reply = Number(n + Len(s))
  BY <1>1, <1>4, <1>8, <1>9, <1>10, ReadReplies
<1> QED BY <1>3, <1>11 DEF Commit, r

\* JSON.ARRTRIM.
LEMMA TrimRereads ==
  ASSUME NEW c, IsCall(c), c.op = "arrtrim", NEW v, IsValue(v), ArrTrimEffect(c, v).sent
  PROVE  ArrTrimEffect(c, v).reply = ArrLenEffect(Reread(c), ArrTrimEffect(c, v).val).reply
<1> DEFINE a     == Node(c, v)
           d     == v.root
           size  == Size(v.root, a)
           kept  == c.stop - c.start + 1
           tail  == DetachItems(v.root, a, 1, c.start)
           cut   == DetachItems(tail, a, kept + 1, size - c.start - kept)
           after == DropIfChildless(cut)
           told  == IF after = Empty THEN Garbage ELSE Number(Size(after.root, a))
           bad   == ~(0 <= c.start /\ c.start <= c.stop /\ c.stop < size)
           then  == IF NotInt \in {c.start, c.stop} THEN Answer(v, Error("range"))
                    ELSE IF bad THEN Answer(v, Error("outflow"))
                    ELSE Commit(after, told)
           r     == Reread(c)
<1>1. /\ c.path \in Path /\ r.path = c.path
      /\ c.start \in Int \cup {NotInt} /\ c.stop \in Int \cup {NotInt}
  BY DEF IsCall, Reread
<1>2. ArrTrimEffect(c, v) = OnNode(c, v, Number(-1), "array", then)
  BY DEF ArrTrimEffect
<1>3. \A w, x : ~Answer(w, x).sent
  BY DEF Answer
<1>4. Reaches(c, v, "array") /\ ArrTrimEffect(c, v) = then
  <2> HIDE DEF then
  <2> QED BY <1>2, OnNodeSent
<1>5. NotInt \notin {c.start, c.stop} /\ ~bad /\ ArrTrimEffect(c, v) = Commit(after, told)
  <2> HIDE DEF bad, after, told
  <2> QED BY <1>3, <1>4
<1>6. ArrTrimEffect(c, v).val = after /\ ArrTrimEffect(c, v).reply = told
  <2> HIDE DEF after, told
  <2> QED BY <1>5 DEF Commit
<1>7. /\ WellFormed(d) /\ a \in DOMAIN d /\ d[a].t = "array" /\ size \in Nat /\ size = d[a].n
      /\ Found(c, v) # {} /\ c.path.style # "broken" /\ a \in Address /\ d[a].t \in Container
  BY <1>1, <1>4, ReachedIs DEF Container, Size
<1>8. /\ c.start \in Nat /\ c.stop \in Nat /\ 1 \in Position /\ 1 + c.start - 1 <= d[a].n
  BY <1>1, <1>5, <1>7 DEF Position
<1> HIDE DEF a, r
<1>9. /\ WellFormed(tail) /\ a \in DOMAIN tail /\ tail[a].t = "array" /\ tail[a].t \in Container
      /\ tail[a].n = size - c.start /\ KeptAbove(d, tail, a)
  BY <1>7, <1>8, DetachedContainer, DetachKeepsAbove
<1>10. /\ kept + 1 \in Position /\ size - c.start - kept \in Nat
       /\ (kept + 1) + (size - c.start - kept) - 1 <= tail[a].n
  <2> HIDE DEF tail
  <2> QED BY <1>5, <1>7, <1>8, <1>9 DEF Position
<1> HIDE DEF tail, kept, size
<1>11. WellFormed(cut) /\ cut[a].t = "array" /\ KeptAbove(tail, cut, a)
  BY <1>9, <1>10, DetachedContainer, DetachKeepsAbove
<1> HIDE DEF cut
<1>12. KeptAbove(d, cut, a)
  BY <1>9, <1>11 DEF KeptAbove
<1>13. after # Empty
  BY <1>6, <1>4, TrimKeeps DEF Reaches
<1>14. after = Doc(cut) /\ told = Number(cut[a].n)
  <2>1. after = Doc(cut) /\ Doc(cut).root = cut
    BY <1>13 DEF DropIfChildless, Doc
  <2> HIDE DEF after
  <2> QED BY <1>13, <2>1 DEF Size
<1>15. Found(r, Doc(cut)) # {} /\ Node(r, Doc(cut)) = a
  BY <1>1, <1>7, <1>11, <1>12, NodeKept DEF a
<1>16. ArrLenEffect(r, Doc(cut)).reply = Number(cut[a].n)
  BY <1>1, <1>7, <1>11, <1>15, ReadReplies
<1> HIDE DEF after, told
<1> QED BY <1>6, <1>14, <1>16 DEF r

\* A write that reports a length or a value reports what a read of the same path
\* finds after it, given that no appended string holds a NUL (its length would be
\* counted and its end lost).
THEOREM RepliesAreRead ==
  ASSUME \A c \in Calls : c.op = "strappend" => c.seen = c.len
  PROVE  Spec => ReplyIsWhatARereadFinds
<1> DEFINE ops  == {"arrpush", "arrinsert", "arrtrim", "strappend", "incrby"}
           Read1 == \A k \in Key :
                      Acked(call'.op, k) /\ call'.op \in ops =>
                        \/ call'.op = "incrby" /\ call'.path.style # "slash"
                        \/ reply' = Effect(Reread(call'), db'[k]).reply
<1>1. TypeOK /\ [Next]_vars => [Read1]_vars
  <2> SUFFICES ASSUME TypeOK, Next, NEW k \in Key, Acked(call'.op, k), call'.op \in ops,
                      ~(call'.op = "incrby" /\ call'.path.style # "slash")
               PROVE  reply' = Effect(Reread(call'), db'[k]).reply
    OBVIOUS
  <2>1. ~ \E c \in Calls : Mget(c)
    BY DEF Mget
  <2>2. PICK j \in Key, c \in Calls : Write(j, c) \/ Read(j, c)
    BY <2>1 DEF Next
  <2>3. /\ c.op \in KeyOps
        /\ db' = [db EXCEPT ![j] = Effect(c, db[j]).val]
        /\ call' = c /\ sent' = Effect(c, db[j]).sent /\ reply' = Effect(c, db[j]).reply
    BY <2>2, StepIsEffect
  <2>4. on' = {j}
    BY <2>2 DEF Write, Read, Set, Get, Del, Type, StrLen, ArrLen, IncrBy, StrAppend, ArrPush,
                ArrInsert, ArrPop, ArrTrim, Native, Perform
  <2>5. j = k /\ db'[k] = Effect(c, db[k]).val /\ Effect(c, db[k]).sent
    BY <2>3, <2>4 DEF TypeOK, Acked
  <2>6. IsCall(c) /\ IsValue(db[k]) /\ (c.op = "strappend" => c.seen = c.len)
    BY CallsAssumption DEF TypeOK
  <2> DEFINE x == Effect(c, db[k])
  <2>7. x.sent /\ x = Effect(c, db[k])
    BY <2>5
  <2>8. x.reply = Effect(Reread(c), x.val).reply
    <3>1. CASE c.op \in {"arrpush", "arrinsert"}
      BY <2>6, <2>7, <3>1, BatchesReread, RereadIs
    <3>2. CASE c.op = "arrtrim"
      <4>1. x = ArrTrimEffect(c, db[k])
        BY <3>2 DEF Effect
      <4> HIDE DEF x
      <4> QED BY <2>6, <2>7, <3>2, <4>1, TrimRereads, RereadIs
    <3>3. CASE c.op = "incrby"
      <4>1. x = IncrByEffect(c, db[k])
        BY <3>3 DEF Effect
      <4>2. c.path.style = "slash"
        BY <2>3, <3>3
      <4> HIDE DEF x
      <4> QED BY <2>6, <2>7, <3>3, <4>1, <4>2, NumbersReread, RereadIs
    <3>4. CASE c.op = "strappend"
      <4>1. x = StrAppendEffect(c, db[k])
        BY <3>4 DEF Effect
      <4> HIDE DEF x
      <4> QED BY <2>6, <2>7, <3>4, <4>1, NumbersReread, RereadIs
    <3> QED BY <2>3, <3>1, <3>2, <3>3, <3>4
  <2> HIDE DEF x
  <2> QED BY <2>3, <2>5, <2>7, <2>8
<1>2. ReplyIsWhatARereadFinds <=> [][Read1]_vars
  BY DEF ReplyIsWhatARereadFinds
<1> HIDE DEF Read1
<1> QED BY <1>1, <1>2, TypeCorrect, PTL DEF Spec

(***************************************************************************)
(* The array commands on sequences of elements.                            *)
(***************************************************************************)
\* A function of the numbers 1..n.
Spelled(s, n) == s = [j \in 1..n |-> s[j]]

\* The elements of a container are its children.
LEMMA ItemsAre ==
  ASSUME NEW d, NEW p, d[p].n \in Nat
  PROVE  /\ Spelled(Items(d, p), d[p].n)
         /\ Len(Items(d, p)) = d[p].n
         /\ \A j \in 1..d[p].n : Items(d, p)[j] = Child(d, p, j)
<1>1. Items(d, p) = [j \in 1..d[p].n |-> Child(d, p, j)]
  BY DEF Items, Child, Size
<1> QED BY <1>1, ListIs DEF Spelled

\* A parsed document has a root without a name.
LEMMA NamedItself ==
  ASSUME NEW d, WellFormed(d), d = [a \in DOMAIN d |-> d[a]]
  PROVE  Named(d, NoName) = d
<1>1. Root \in DOMAIN d /\ d[Root].name = NoName /\ d[Root] \in Label
  BY DEF WellFormed, Rooted, Labelled
<1>2. [d[Root] EXCEPT !.name = NoName] = d[Root]
  BY <1>1 DEF Label
<1> QED BY <1>1, <1>2 DEF Named

\* u is s without the k items from position i on.
Thinned(u, s, i, n, k) ==
  \A j \in 1..(n - k) : u[j] = s[IF j >= i THEN j + k ELSE j]

\* What is left when k items from position i on are taken out.
LEMMA DetachedItems ==
  ASSUME NEW d, WellFormed(d), NEW p \in DOMAIN d, d[p].t \in Container,
         NEW i \in Position, NEW k \in Nat, i + k - 1 <= d[p].n, k <= d[p].n
  PROVE  LET e == DetachItems(d, p, i, k)
         IN /\ Spelled(Items(e, p), d[p].n - k)
            /\ Thinned(Items(e, p), Items(d, p), i, d[p].n, k)
<1> DEFINE e == DetachItems(d, p, i, k)
           n == d[p].n
<1>1. WellFormed(e) /\ p \in DOMAIN e /\ e[p].n = n - k
  BY DetachedContainer
<1>2. n \in Nat /\ n - k \in Nat
  BY DEF WellFormed, Counted
<1>3. Labelled(e)
  BY <1>1 DEF WellFormed
<1>4. \A j \in 1..(n - k) : Child(e, p, j) = Child(d, p, IF j >= i THEN j + k ELSE j)
  BY <1>3, DetachChild
<1> HIDE DEF e
<1>5. /\ Items(e, p) = [j \in 1..(n - k) |-> Items(e, p)[j]]
      /\ \A j \in 1..(n - k) : Items(e, p)[j] = Child(e, p, j)
  BY <1>1, <1>2, ItemsAre DEF Spelled
<1>6. \A j \in 1..n : Items(d, p)[j] = Child(d, p, j)
  BY <1>2, ItemsAre
<1> HIDE DEF n
<1>7. ASSUME NEW j \in 1..(n - k)
      PROVE  Items(e, p)[j] = Items(d, p)[IF j >= i THEN j + k ELSE j]
  <2> DEFINE h == IF j >= i THEN j + k ELSE j
  <2>1. h \in 1..n
    BY <1>2 DEF Position
  <2>2. Child(e, p, j) = Child(d, p, h)
    BY <1>4
  <2> HIDE DEF h
  <2>3. Items(e, p)[j] = Items(d, p)[h]
    BY <1>5, <1>6, <2>1, <2>2
  <2> QED BY <2>3 DEF h
<1> QED BY <1>5, <1>7 DEF e, n, Spelled, Thinned

\* u is s with the k items of t put in at position i.
Spliced(u, s, t, i, n, k) ==
  \A j \in 1..(n + k) :
    u[j] = IF j < i THEN s[j] ELSE IF j < i + k THEN t[j - i + 1] ELSE s[j - k]

\* A document that is a function, as all that TLC builds are.
IsTree(d) == WellFormed(d) /\ d = [a \in DOMAIN d |-> d[a]]

\* What there is when the documents js are put in from position i on.
LEMMA InsertedItems ==
  ASSUME NEW d, WellFormed(d), NEW p \in DOMAIN d, d[p].t \in Container,
         NEW i \in 1..(d[p].n + 1), NEW js, NEW k \in Nat, k = Len(js),
         \A l \in 1..k : IsTree(js[l]),
         NEW t, \A l \in 1..k : t[l] = [name |-> NoName, value |-> js[l]],
         WellFormed(InsertItems(d, p, i, js)), InsertItems(d, p, i, js)[p].n = d[p].n + k
  PROVE  LET e == InsertItems(d, p, i, js)
         IN /\ Spelled(Items(e, p), d[p].n + k)
            /\ Spliced(Items(e, p), Items(d, p), t, i, d[p].n, k)
<1> DEFINE e == InsertItems(d, p, i, js)
           n == d[p].n
<1>1. n \in Nat /\ n + k \in Nat /\ i \in Position /\ i <= n + 1
  BY DEF WellFormed, Counted, Position
<1>0. \A l \in 1..k : WellFormed(js[l]) /\ js[l] = [a \in DOMAIN js[l] |-> js[l][a]]
  BY DEF IsTree
<1>2. /\ \A l \in 1..k : Labelled(js[l]) /\ Root \in DOMAIN js[l] /\ js[l][Root].name = NoName
      /\ Labelled(e)
  BY <1>0 DEF WellFormed, Rooted
<1>3. ASSUME NEW h \in 1..n
      PROVE  Child(e, p, IF h >= i THEN h + k ELSE h) = Child(d, p, h)
  <2>1. LET j == IF h >= i THEN h + k ELSE h
        IN /\ Append(p, j) \in DOMAIN InsertItems(d, p, i, js)
           /\ Child(InsertItems(d, p, i, js), p, j) = Child(d, p, h)
    <3>1. Labelled(InsertItems(d, p, i, js)) /\ i <= d[p].n + 1
      BY <1>1, <1>2
    <3>2. \A l \in 1..k : Labelled(js[l])
      BY <1>2
    <3>3. h \in 1..d[p].n
      OBVIOUS
    <3> HIDE DEF e, n
    <3> QED BY <1>1, <3>1, <3>2, <3>3, InsertOldChild
  <2> QED BY <2>1
<1>4. ASSUME NEW l \in 1..k
      PROVE  Child(e, p, i + l - 1) = [name |-> NoName, value |-> js[l]]
  <2>1. Child(e, p, i + l - 1) = [name |-> js[l][Root].name, value |-> Named(js[l], NoName)]
    <3>1. Labelled(InsertItems(d, p, i, js))
      BY <1>1, <1>2
    <3>2. js[l] = [s \in DOMAIN js[l] |-> js[l][s]] /\ Root \in DOMAIN js[l]
      BY <1>0, <1>2
    <3>3. \A m \in 1..k : Labelled(js[m])
      BY <1>2
    <3> HIDE DEF e, n
    <3>4. Child(InsertItems(d, p, i, js), p, i + l - 1)
            = [name |-> js[l][Root].name, value |-> Named(js[l], NoName)]
      BY <1>1, <3>1, <3>2, <3>3, InsertNewChild
    <3> QED BY <3>4 DEF e
  <2>2. Named(js[l], NoName) = js[l]
    BY <1>0, NamedItself
  <2> QED BY <1>2, <2>1, <2>2
<1>5. e[p].n = n + k
  OBVIOUS
<1> HIDE DEF e
<1>6. /\ Items(e, p) = [j \in 1..(n + k) |-> Items(e, p)[j]]
      /\ \A j \in 1..(n + k) : Items(e, p)[j] = Child(e, p, j)
  BY <1>1, <1>5, ItemsAre DEF Spelled
<1>7. \A j \in 1..n : Items(d, p)[j] = Child(d, p, j)
  BY <1>1, ItemsAre
<1> HIDE DEF n
<1>8. ASSUME NEW j \in 1..(n + k)
      PROVE  Items(e, p)[j] = IF j < i THEN Items(d, p)[j]
                              ELSE IF j < i + k THEN t[j - i + 1]
                              ELSE Items(d, p)[j - k]
  <2>1. CASE j < i
    <3>1. j \in 1..n /\ ~(j >= i)
      BY <1>1, <2>1
    <3>2. Child(e, p, j) = Child(d, p, j)
      BY <1>3, <3>1
    <3> QED BY <1>6, <1>7, <2>1, <3>1, <3>2
  <2>2. CASE ~(j < i) /\ j < i + k
    <3>1. j - i + 1 \in 1..k /\ i + (j - i + 1) - 1 = j
      BY <2>2
    <3>2. Child(e, p, i + (j - i + 1) - 1) = [name |-> NoName, value |-> js[j - i + 1]]
      BY <1>4, <3>1
    <3> QED BY <1>6, <2>2, <3>1, <3>2
  <2>3. CASE ~(j < i) /\ ~(j < i + k)
    <3>1. j - k \in 1..n /\ j - k >= i /\ (j - k) + k = j
      BY <1>1, <2>3
    <3>2. Child(e, p, j) = Child(d, p, j - k)
      BY <1>3, <3>1
    <3> QED BY <1>6, <1>7, <2>3, <3>1, <3>2
  <2> QED BY <2>1, <2>2, <2>3
<1> QED BY <1>6, <1>8 DEF e, n, Spelled, Spliced

\* The list s of n items with t put in at position i.
PutIn(s, t, i, n) == SubSeq(s, 1, i - 1) \o t \o SubSeq(s, i, n)

\* That is the list spliced so, and s with t appended when i is at its end.
LEMMA SpliceIs ==
  ASSUME NEW n \in Nat, NEW k \in Nat, NEW i \in 1..(n + 1),
         NEW s, Spelled(s, n), NEW t, Spelled(t, k), NEW u, Spelled(u, n + k),
         Spliced(u, s, t, i, n, k)
  PROVE  u = PutIn(s, t, i, n) /\ (i = n + 1 => u = s \o t)
<1> DEFINE x == SubSeq(s, 1, i - 1)
           y == SubSeq(s, i, n)
           h == i - 1
           g == n - i + 1
           v == x \o t
           w == v \o y
           z == s \o t
<1>0. /\ s = [j \in 1..n |-> s[j]] /\ t = [j \in 1..k |-> t[j]] /\ u = [j \in 1..(n + k) |-> u[j]]
      /\ \A j \in 1..(n + k) :
           u[j] = IF j < i THEN s[j] ELSE IF j < i + k THEN t[j - i + 1] ELSE s[j - k]
  BY DEF Spelled, Spliced
<1> HIDE DEF g, h
<1>1. /\ x = [j \in 1..h |-> x[j]] /\ \A j \in 1..h : x[j] = s[j]
  <2>1. h \in Nat /\ h = (i - 1) - 1 + 1 /\ i - 1 \in Int /\ 1 \in Int
    BY DEF h
  <2>2. /\ x = [j \in 1..h |-> x[j]]
        /\ \A j \in 1..h : x[j] = s[1 + j - 1]
    BY <2>1, CutIs
  <2>3. \A j \in 1..h : 1 + j - 1 = j
    BY <2>1
  <2> HIDE DEF x
  <2> QED BY <2>2, <2>3
<1>2. /\ y = [j \in 1..g |-> y[j]] /\ \A j \in 1..g : y[j] = s[i + j - 1]
  <2>1. g \in Nat /\ g = n - i + 1 /\ n \in Int /\ i \in Int
    BY DEF g
  <2> QED BY <2>1, CutIs
<1> HIDE DEF x, y
<1>3. /\ v = [j \in 1..(h + k) |-> v[j]]
      /\ \A j \in 1..(h + k) : v[j] = IF j <= h THEN x[j] ELSE t[j - h]
  <2>1. h \in Nat
    BY DEF h
  <2> QED BY <1>0, <1>1, <2>1, JoinIs
<1> HIDE DEF v
<1>4. /\ w = [j \in 1..((h + k) + g) |-> w[j]]
      /\ \A j \in 1..((h + k) + g) :
           w[j] = IF j <= h + k THEN v[j] ELSE y[j - (h + k)]
  <2>1. h + k \in Nat /\ g \in Nat
    BY DEF g, h
  <2> QED BY <1>2, <1>3, <2>1, JoinIs
<1>5. z = [j \in 1..(n + k) |-> z[j]] /\ \A j \in 1..(n + k) : z[j] = IF j <= n THEN s[j] ELSE t[j - n]
  BY <1>0, JoinIs
<1> HIDE DEF w, z
<1>6. u = w
  <2>1. (h + k) + g = n + k
    BY DEF g, h
  <2>2. ASSUME NEW j \in 1..(n + k) PROVE u[j] = w[j]
    <3>1. CASE j < i
      <4>1. j <= h + k /\ j <= h /\ j \in 1..(h + k) /\ j \in 1..h
        BY <3>1 DEF g, h
      <4> QED BY <1>0, <1>1, <1>3, <1>4, <2>1, <3>1, <4>1
    <3>2. CASE ~(j < i) /\ j < i + k
      <4>1. /\ j <= h + k /\ ~(j <= h) /\ j \in 1..(h + k)
            /\ j - h = j - i + 1
        BY <3>2 DEF g, h
      <4> QED BY <1>0, <1>3, <1>4, <2>1, <3>2, <4>1
    <3>3. CASE ~(j < i) /\ ~(j < i + k)
      <4>1. /\ ~(j <= h + k) /\ j - (h + k) \in 1..g
            /\ i + (j - (h + k)) - 1 = j - k
        BY <3>3 DEF g, h
      <4>2. w[j] = y[j - (h + k)]
        BY <1>4, <2>1, <4>1
      <4>3. y[j - (h + k)] = s[i + (j - (h + k)) - 1]
        BY <1>2, <4>1
      <4> QED BY <1>0, <3>3, <4>1, <4>2, <4>3
    <3> QED BY <3>1, <3>2, <3>3
  <2>3. w = [j \in 1..(n + k) |-> w[j]] /\ n + k \in Nat
    BY <1>4, <2>1
  <2> QED BY <1>0, <2>2, <2>3, ListsEqual
<1>7. ASSUME i = n + 1 PROVE u = z
  <2>1. ASSUME NEW j \in 1..(n + k) PROVE u[j] = z[j]
    <3>1. CASE j <= n
      <4>1. j < i
        BY <1>7, <3>1
      <4> QED BY <1>0, <1>5, <3>1, <4>1
    <3>2. CASE ~(j <= n)
      <4>1. ~(j < i) /\ j < i + k
        BY <1>7, <3>2
      <4>2. j - i + 1 = j - n
        BY <1>7
      <4> QED BY <1>0, <1>5, <3>2, <4>1, <4>2
    <3> QED BY <3>1, <3>2
  <2>2. n + k \in Nat
    OBVIOUS
  <2> QED BY <1>0, <1>5, <2>1, <2>2, ListsEqual
<1> QED BY <1>6, <1>7 DEF w, v, x, y, z, h, PutIn

\* or without its item at i.
LEMMA RemoveIs ==
  ASSUME NEW n \in Nat, NEW i \in 1..n, NEW s, Spelled(s, n), NEW u, Spelled(u, n - 1),
         Thinned(u, s, i, n, 1)
  PROVE  u = SeqExt!RemoveAt(s, i)
<1> DEFINE x == SubSeq(s, 1, i - 1)
           y == SubSeq(s, i + 1, n)
           h == i - 1
           g == n - i
           w == x \o y
<1>0. /\ s = [j \in 1..n |-> s[j]] /\ u = [j \in 1..(n - 1) |-> u[j]]
      /\ \A j \in 1..(n - 1) : u[j] = s[IF j >= i THEN j + 1 ELSE j]
  BY DEF Spelled, Thinned
<1> HIDE DEF g, h
<1>1. /\ x = [j \in 1..h |-> x[j]] /\ \A j \in 1..h : x[j] = s[j]
  <2>1. h \in Nat /\ h = (i - 1) - 1 + 1 /\ i - 1 \in Int /\ 1 \in Int
    BY DEF h
  <2>2. /\ x = [j \in 1..h |-> x[j]]
        /\ \A j \in 1..h : x[j] = s[1 + j - 1]
    BY <2>1, CutIs
  <2>3. \A j \in 1..h : 1 + j - 1 = j
    BY <2>1
  <2> HIDE DEF x
  <2> QED BY <2>2, <2>3
<1>2. /\ y = [j \in 1..g |-> y[j]] /\ \A j \in 1..g : y[j] = s[j + i]
  <2>1. g = n - (i + 1) + 1 /\ g \in Nat /\ i + 1 \in Int /\ n \in Int
    BY DEF g
  <2>2. /\ y = [j \in 1..g |-> y[j]]
        /\ \A j \in 1..g : y[j] = s[(i + 1) + j - 1]
    BY <2>1, CutIs
  <2>3. \A j \in 1..g : (i + 1) + j - 1 = j + i
    OBVIOUS
  <2> HIDE DEF y
  <2> QED BY <2>1, <2>2, <2>3
<1> HIDE DEF x, y
<1>3. /\ w = [j \in 1..(h + g) |-> w[j]]
      /\ \A j \in 1..(h + g) : w[j] = IF j <= h THEN x[j] ELSE y[j - h]
  <2>1. h \in Nat /\ g \in Nat
    BY DEF g, h
  <2> QED BY <1>1, <1>2, <2>1, JoinIs
<1> HIDE DEF w
<1>4. h + g = n - 1 /\ n - 1 \in Nat
  BY DEF g, h
<1>5. ASSUME NEW j \in 1..(n - 1) PROVE u[j] = w[j]
  <2>1. CASE j < i
    <3>1. j <= h /\ j \in 1..h /\ ~(j >= i)
      BY <2>1 DEF h
    <3> QED BY <1>0, <1>1, <1>3, <1>4, <3>1
  <2>2. CASE ~(j < i)
    <3>1. ~(j <= h) /\ j - h \in 1..g /\ (j - h) + i = j + 1 /\ j >= i
      BY <2>2 DEF g, h
    <3>2. w[j] = y[j - h]
      BY <1>3, <1>4, <3>1
    <3>3. y[j - h] = s[(j - h) + i]
      BY <1>2, <3>1
    <3> QED BY <1>0, <3>1, <3>2, <3>3
  <2> QED BY <2>1, <2>2
<1>6. u = w
  BY <1>0, <1>3, <1>4, <1>5, ListsEqual
<1>7. Len(s) = n
  BY <1>0, ListIs
<1> QED BY <1>6, <1>7 DEF w, x, y, SeqExt!RemoveAt

\* The call c has edited the elements of its array, v before and w now.
EditedBy(c, v, w) ==
  LET d == v.root
      a == Node(c, v)
      s == Edited(c, Items(d, a))
  IN IF w = Empty THEN s = <<>>
     ELSE LET e == w.root
          IN /\ Items(e, a) = s
             /\ \A b \in DOMAIN d : ~Under(a, b) => e[b] = d[b]
             /\ \A b \in DOMAIN e : ~Under(a, b) => b \in DOMAIN d

\* JSON.ARRPUSH and JSON.ARRINSERT.
LEMMA BatchEdits ==
  ASSUME NEW c, IsCall(c), c.op \in {"arrpush", "arrinsert"}, NEW v, IsValue(v),
         Effect(c, v).sent
  PROVE  EditedBy(c, v, Effect(c, v).val)
<1> DEFINE a  == Node(c, v)
           d  == v.root
           n  == v.root[a].n
           i  == IF c.op = "arrpush" THEN n + 1 ELSE FromEnd(c.index, n) + 1
           js == c.jsons
           k  == Len(c.jsons)
           e  == InsertItems(d, a, i, js)
           s  == Items(d, a)
           t  == AsItems(c.jsons)
<1>1. /\ Reaches(c, v, "array") /\ n \in Nat /\ i \in 1..(n + 1)
      /\ Parsed(js) = js /\ \A l \in 1..k : js[l] # BadJson
      /\ c.op = "arrinsert" => c.index \in Int
      /\ Effect(c, v) = Commit(Doc(e), Number(n + k))
  BY BatchSent
<1>2. Effect(c, v).val = Doc(e) /\ Doc(e) # Empty /\ Doc(e).root = e
  BY <1>1 DEF Commit, Doc, Empty
<1>3. /\ js = [l \in 1..k |-> js[l]] /\ k \in Nat
      /\ \A l \in 1..k : IsJson(js[l])
      /\ c.path \in Path
  BY DEF IsCall
<1>4. \A l \in 1..k : IsTree(js[l])
  BY <1>1, <1>3 DEF IsJson, IsTree
<1>5. /\ WellFormed(d) /\ a \in DOMAIN d /\ d[a].t = "array" /\ d[a].t \in Container
      /\ Labelled(d) /\ a \in Address
  BY <1>1, <1>3, ReachedIs DEF Container, WellFormed
<1>6. i \in Position
  BY <1>1 DEF Position
<1>7. \A l \in 1..k : Labelled(js[l])
  BY <1>4 DEF WellFormed, IsTree
<1>8. Spelled(t, k) /\ \A l \in 1..k : t[l] = [name |-> NoName, value |-> js[l]]
  <2>1. DOMAIN js = 1..k
    BY <1>3
  <2> HIDE DEF js, k
  <2>2. t = [l \in 1..k |-> [name |-> NoName, value |-> js[l]]]
    BY <2>1 DEF AsItems, js
  <2> QED BY <2>2 DEF Spelled
<1>9. WellFormed(e)
  BY <1>1, <1>3, <1>5, BatchWellFormed
<1>10. e[a].n = n + k
  <2> HIDE DEF a, i
  <2> QED BY <1>3, <1>5, <1>6, <1>7, InsertKeepsAbove
<1>11. k = Len(js)
  OBVIOUS
<1> DEFINE u == Items(e, a)
<1>12. Spelled(s, n) /\ Len(s) = n
  BY <1>1, ItemsAre
<1> HIDE DEF t, js, k, i, a
<1>13. Spelled(u, n + k) /\ Spliced(u, s, t, i, n, k)
  BY <1>1, <1>3, <1>4, <1>5, <1>8, <1>9, <1>10, <1>11, InsertedItems
<1> HIDE DEF u, s, n, e
<1>14. u = PutIn(s, t, i, n) /\ (i = n + 1 => u = s \o t)
  <2>1. n \in Nat /\ k \in Nat /\ i \in 1..(n + 1)
    BY <1>1, <1>3
  <2>2. Spelled(t, k)
    BY <1>8
  <2> QED BY <1>12, <1>13, <2>1, <2>2, SpliceIs
<1>15. u = Edited(c, s)
  <2>1. CASE c.op = "arrpush"
    <3>1. i = n + 1
      BY <2>1 DEF i, n
    <3> QED BY <1>14, <2>1, <3>1 DEF Edited, t
  <2>2. CASE c.op = "arrinsert"
    <3> DEFINE at == FromEnd(c.index, n)
    <3>1. i = at + 1
      BY <2>2 DEF i, n
    <3>2. at \in Int
      BY <1>1, <2>2 DEF FromEnd
    <3>3. i - 1 = at
      BY <3>1, <3>2
    <3>4. Edited(c, s) = SubSeq(s, 1, at) \o t \o SubSeq(s, at + 1, n)
      <4>1. Edited(c, s) = LET h == FromEnd(c.index, Len(s))
                           IN SubSeq(s, 1, h) \o AsItems(c.jsons) \o SubSeq(s, h + 1, Len(s))
        BY <2>2 DEF Edited
      <4> QED BY <1>12, <4>1 DEF t
    <3> QED BY <1>14, <3>1, <3>3, <3>4 DEF PutIn
  <2> QED BY <2>1, <2>2
<1>16. ASSUME NEW b, ~Under(a, b)
       PROVE  (b \in DOMAIN e <=> b \in DOMAIN d) /\ (b \in DOMAIN d => e[b] = d[b])
  <2>1. k = Len(js) /\ k \in Nat
    BY <1>3, <1>11
  <2> HIDE DEF d
  <2>2. LET x == InsertItems(d, a, i, js)
        IN (b \in DOMAIN x <=> b \in DOMAIN d) /\ (b \in DOMAIN d => x[b] = d[b])
    BY ONLY <1>5, <1>6, <1>7, <1>16, <2>1, InsertOutside
  <2> QED BY <2>2 DEF e
<1> QED BY <1>2, <1>15, <1>16 DEF EditedBy, u, s, a

\* JSON.ARRPOP.
LEMMA PopEdits ==
  ASSUME NEW c, IsCall(c), c.op = "arrpop", NEW v, IsValue(v), ArrPopEffect(c, v).sent
  PROVE  EditedBy(c, v, ArrPopEffect(c, v).val)
<1> DEFINE a     == Node(c, v)
           d     == v.root
           n     == v.root[Node(c, v)].n
           index == FromEnd(c.index, Size(v.root, a))
           i     == index + 1
           left  == DetachItems(v.root, a, index + 1, 1)
           told  == Bulk(Subtree(v.root, Append(a, index + 1)))
           then  == IF c.index = NotInt THEN Answer(v, Error("range"))
                    ELSE IF index \notin 0..(Size(v.root, a) - 1) THEN Answer(v, Error("outflow"))
                    ELSE Commit(DropIfChildless(left), told)
           s     == Items(d, a)
           u     == Items(left, a)
<1>1. c.path \in Path
  BY DEF IsCall
<1>2. ArrPopEffect(c, v) = OnNode(c, v, Error("no key"), "array", then)
  BY Zenon DEF ArrPopEffect
<1>3. Reaches(c, v, "array") /\ ArrPopEffect(c, v) = then
  <2> DEFINE none == Error("no key")
  <2> HIDE DEF then, none
  <2>1. ArrPopEffect(c, v) = OnNode(c, v, none, "array", then)
    BY <1>2, Zenon DEF none
  <2> QED BY <2>1, OnNodeSent
<1>4. index \in 0..(Size(v.root, a) - 1) /\ ArrPopEffect(c, v) = Commit(DropIfChildless(left), told)
  <2>1. \A w, x : ~Answer(w, x).sent
    BY DEF Answer
  <2> HIDE DEF left, told, index
  <2> QED BY <1>3, <2>1
<1>5. ArrPopEffect(c, v).val = DropIfChildless(left)
  BY <1>4 DEF Commit
<1>6. /\ WellFormed(d) /\ Labelled(d) /\ a \in DOMAIN d /\ d[a].t \in Container /\ n \in Nat
      /\ a \in Address /\ n = Size(v.root, a) /\ d[a].n = n
  BY <1>1, <1>3, ReachedIs DEF Container, WellFormed, Size
<1>7. /\ i \in 1..n /\ i \in Position /\ i + 1 - 1 <= n /\ 1 \in Nat /\ 1 <= n /\ index \in Nat
  <2> HIDE DEF index, n
  <2> QED BY <1>4, <1>6 DEF Position
<1>8. left = DetachItems(d, a, i, 1)
  OBVIOUS
<1> HIDE DEF index, i, a, left, then, told
<1>9. Spelled(u, n - 1) /\ Thinned(u, s, i, n, 1)
  BY <1>6, <1>7, <1>8, DetachedItems
<1>10. Spelled(s, n) /\ Len(s) = n
  BY <1>6, ItemsAre
<1>11. u = SeqExt!RemoveAt(s, i)
  <2> HIDE DEF u, s, n
  <2> QED BY <1>6, <1>7, <1>9, <1>10, RemoveIs
<1>12. u = Edited(c, s)
  <2>1. i = FromEnd(c.index, Len(s)) + 1
    BY <1>6, <1>10 DEF i, index
  <2>2. Edited(c, s) = SeqExt!RemoveAt(s, FromEnd(c.index, Len(s)) + 1)
    BY DEF Edited
  <2> QED BY <1>11, <2>1, <2>2
<1>13. ASSUME NEW b, ~Under(a, b)
       PROVE  (b \in DOMAIN left <=> b \in DOMAIN d) /\ (b \in DOMAIN d => left[b] = d[b])
  BY <1>6, <1>7, <1>8, <1>13, DetachOutside
<1>14. CASE DropIfChildless(left) = Empty
  <2>1. WellFormed(left) /\ a \in DOMAIN left /\ left[a].t \in Container
    BY <1>6, <1>7, <1>8, DetachedContainer
  <2>2. left[a].n = 0
    BY <1>14, <2>1, ChildlessIs
  <2>3. u = <<>>
    BY <2>2 DEF Items, Size
  <2> QED BY <1>5, <1>12, <1>14, <2>3 DEF EditedBy, a
<1>15. CASE DropIfChildless(left) # Empty
  <2>1. DropIfChildless(left) = Doc(left) /\ Doc(left).root = left
    BY <1>15 DEF DropIfChildless, Doc
  <2> HIDE DEF s, u
  <2> QED BY <1>5, <1>12, <1>13, <1>15, <2>1 DEF EditedBy, a, s, u
<1> QED BY <1>14, <1>15

\* JSON.ARRTRIM.
LEMMA TrimEdits ==
  ASSUME NEW c, IsCall(c), c.op = "arrtrim", NEW v, IsValue(v), ArrTrimEffect(c, v).sent
  PROVE  EditedBy(c, v, ArrTrimEffect(c, v).val)
<1> DEFINE a     == Node(c, v)
           d     == v.root
           n     == v.root[Node(c, v)].n
           size  == Size(v.root, a)
           kept  == c.stop - c.start + 1
           rest  == size - c.start - kept
           tail  == DetachItems(v.root, a, 1, c.start)
           cut   == DetachItems(tail, a, kept + 1, size - c.start - kept)
           after == DropIfChildless(cut)
           told  == IF after = Empty THEN Garbage ELSE Number(Size(after.root, a))
           bad   == ~(0 <= c.start /\ c.start <= c.stop /\ c.stop < size)
           then  == IF NotInt \in {c.start, c.stop} THEN Answer(v, Error("range"))
                    ELSE IF bad THEN Answer(v, Error("outflow"))
                    ELSE Commit(after, told)
           s     == Items(d, a)
           m     == Items(tail, a)
           u     == Items(cut, a)
<1>1. /\ c.path \in Path
      /\ c.start \in Int \cup {NotInt} /\ c.stop \in Int \cup {NotInt}
  BY DEF IsCall
<1>2. ArrTrimEffect(c, v) = OnNode(c, v, Number(-1), "array", then)
  BY DEF ArrTrimEffect
<1>3. \A w, x : ~Answer(w, x).sent
  BY DEF Answer
<1>4. Reaches(c, v, "array") /\ ArrTrimEffect(c, v) = then
  <2> HIDE DEF then
  <2> QED BY <1>2, OnNodeSent
<1>5. NotInt \notin {c.start, c.stop} /\ ~bad /\ ArrTrimEffect(c, v) = Commit(after, told)
  <2> HIDE DEF bad, after, told
  <2> QED BY <1>3, <1>4
<1>6. ArrTrimEffect(c, v).val = after
  <2> HIDE DEF after, told
  <2> QED BY <1>5 DEF Commit
<1>7. /\ WellFormed(d) /\ Labelled(d) /\ a \in DOMAIN d /\ d[a].t \in Container /\ n \in Nat
      /\ a \in Address /\ n = size /\ d[a].n = n
  BY <1>1, <1>4, ReachedIs DEF Container, WellFormed, Size
<1>8. /\ c.start \in Nat /\ c.stop \in Nat /\ c.start <= c.stop /\ c.stop < n
      /\ 1 \in Position /\ 1 + c.start - 1 <= n /\ c.start <= n
  BY <1>1, <1>5, <1>7 DEF Position
<1> HIDE DEF a, then, told, bad, size
<1>9. /\ WellFormed(tail) /\ Labelled(tail) /\ a \in DOMAIN tail /\ tail[a].t \in Container
      /\ tail[a].n = n - c.start
  BY <1>7, <1>8, DetachedContainer DEF WellFormed
<1>10. Spelled(m, n - c.start) /\ Thinned(m, s, 1, n, c.start)
  BY <1>7, <1>8, DetachedItems
<1>11. /\ kept + 1 \in Position /\ rest \in Nat /\ kept \in Nat
       /\ (kept + 1) + rest - 1 <= tail[a].n /\ rest <= tail[a].n
       /\ (n - c.start) - rest = kept
  <2> HIDE DEF tail, n
  <2> QED BY <1>7, <1>8, <1>9 DEF Position
<1>12. cut = DetachItems(tail, a, kept + 1, rest)
  OBVIOUS
<1> HIDE DEF tail, cut, kept, rest
<1>13. WellFormed(cut) /\ a \in DOMAIN cut
  BY <1>9, <1>11, <1>12, DetachedContainer
<1>14. Spelled(u, kept) /\ Thinned(u, m, kept + 1, n - c.start, rest)
  <2>1. Spelled(u, tail[a].n - rest) /\ Thinned(u, m, kept + 1, tail[a].n, rest)
    BY <1>9, <1>11, <1>12, DetachedItems
  <2> HIDE DEF u, m, n
  <2> QED BY <1>9, <1>11, <2>1
<1>15. Spelled(s, n) /\ Len(s) = n
  BY <1>7, ItemsAre
<1> HIDE DEF u, m, s, n
<1>16. ASSUME NEW j \in 1..kept PROVE u[j] = s[c.start + 1 + j - 1]
  <2>1. /\ j \in 1..((n - c.start) - rest) /\ ~(j >= kept + 1) /\ j \in 1..(n - c.start) /\ j >= 1
        /\ c.start + 1 + j - 1 = j + c.start
    BY <1>7, <1>8, <1>11
  <2>2. u[j] = m[j]
    BY <1>14, <2>1 DEF Thinned
  <2>3. m[j] = s[j + c.start]
    BY <1>10, <2>1 DEF Thinned
  <2> QED BY <2>1, <2>2, <2>3
<1>17. u = SubSeq(s, c.start + 1, c.stop + 1)
  <2> DEFINE from == c.start + 1
             to   == c.stop + 1
             w    == SubSeq(s, from, to)
  <2>1. kept = to - from + 1 /\ from \in Int /\ to \in Int
    BY <1>8 DEF kept
  <2>2. \A j \in 1..kept : u[j] = s[from + j - 1]
    BY <1>16
  <2> HIDE DEF from, to
  <2>3. /\ w = [j \in 1..kept |-> w[j]]
        /\ \A j \in 1..kept : w[j] = s[from + j - 1]
    BY <1>11, <2>1, CutIs
  <2> HIDE DEF w
  <2>4. u = [j \in 1..kept |-> u[j]]
    BY <1>14 DEF Spelled
  <2>5. u = w
    BY <1>11, <2>2, <2>3, <2>4, ListsEqual
  <2> QED BY <2>5 DEF w, from, to
<1>18. u = Edited(c, s)
  BY <1>17 DEF Edited
<1>19. ASSUME NEW b, ~Under(a, b)
       PROVE  (b \in DOMAIN cut <=> b \in DOMAIN d) /\ (b \in DOMAIN d => cut[b] = d[b])
  <2>1. (b \in DOMAIN tail <=> b \in DOMAIN d) /\ (b \in DOMAIN d => tail[b] = d[b])
    BY <1>7, <1>8, <1>19, DetachOutside DEF tail
  <2>2. (b \in DOMAIN cut <=> b \in DOMAIN tail) /\ (b \in DOMAIN tail => cut[b] = tail[b])
    BY <1>7, <1>9, <1>11, <1>12, <1>19, DetachOutside
  <2> QED BY <2>1, <2>2
<1>20. after # Empty
  BY <1>6, <1>4, TrimKeeps DEF Reaches
<1>21. after = Doc(cut) /\ Doc(cut).root = cut
  BY <1>20 DEF DropIfChildless, Doc
<1> HIDE DEF after
<1> QED BY <1>6, <1>18, <1>19, <1>20, <1>21 DEF EditedBy, a, s, u

\* The array commands do to the elements of their array what is said of
\* sequences (push, insert, pop and trim), and change nothing outside it.
THEOREM ArraysAreSequences == Spec => ArrayCommandsEditSequences
<1>1. TypeOK /\ [Next]_vars =>
        [\A k \in Key, op \in ArrayOps : Acked(op, k) => EditedBy(call', db[k], db'[k])]_vars
  <2> SUFFICES ASSUME TypeOK, Next, NEW k \in Key, NEW op \in ArrayOps, Acked(op, k)
               PROVE  EditedBy(call', db[k], db'[k])
    OBVIOUS
  <2>1. ~ \E c \in Calls : Mget(c)
    BY DEF Mget, Acked
  <2>2. PICK j \in Key, c \in Calls : Write(j, c) \/ Read(j, c)
    BY <2>1 DEF Next
  <2>3. /\ c.op \in KeyOps
        /\ db' = [db EXCEPT ![j] = Effect(c, db[j]).val]
        /\ call' = c /\ sent' = Effect(c, db[j]).sent /\ reply' = Effect(c, db[j]).reply
    BY <2>2, StepIsEffect
  <2>4. on' = {j}
    BY <2>2 DEF Write, Read, Set, Get, Del, Type, StrLen, ArrLen, IncrBy, StrAppend, ArrPush,
                ArrInsert, ArrPop, ArrTrim, Native, Perform
  <2>5. j = k /\ db'[k] = Effect(c, db[k]).val /\ Effect(c, db[k]).sent /\ c.op \in ArrayOps
    BY <2>3, <2>4 DEF TypeOK, Acked
  <2>6. IsCall(c) /\ IsValue(db[k])
    BY CallsAssumption DEF TypeOK
  <2> DEFINE x == Effect(c, db[k])
  <2>7. EditedBy(c, db[k], x.val)
    <3>1. CASE c.op \in {"arrpush", "arrinsert"}
      BY <2>5, <2>6, <3>1, BatchEdits
    <3>2. CASE c.op = "arrpop"
      <4>1. x = ArrPopEffect(c, db[k]) /\ x.sent
        BY <2>5, <3>2 DEF Effect
      <4> HIDE DEF x
      <4> QED BY <2>6, <3>2, <4>1, PopEdits
    <3>3. CASE c.op = "arrtrim"
      <4>1. x = ArrTrimEffect(c, db[k]) /\ x.sent
        BY <2>5, <3>3 DEF Effect
      <4> HIDE DEF x
      <4> QED BY <2>6, <3>3, <4>1, TrimEdits
    <3> QED BY <2>5, <3>1, <3>2, <3>3 DEF ArrayOps
  <2> HIDE DEF x
  <2> QED BY <2>3, <2>5, <2>7 DEF x
<1>2. ArrayCommandsEditSequences <=>
        [][\A k \in Key, op \in ArrayOps : Acked(op, k) => EditedBy(call', db[k], db'[k])]_vars
  BY DEF ArrayCommandsEditSequences, EditedBy
<1> QED BY <1>1, <1>2, TypeCorrect, PTL DEF Spec

(***************************************************************************)
(* What a write through a path does to the children of the container it    *)
(* works on.                                                               *)
(***************************************************************************)

\* Nothing differs that is neither p nor below it.
Beside(d, e, p) ==
  \A b : ~Under(p, b) => /\ b \in DOMAIN e <=> b \in DOMAIN d
                         /\ b \in DOMAIN d => e[b] = d[b]

\* The children of p, but the one at h before and the one at i after, are the
\* same, elements of an array at the same index.
ChildrenKept(d, e, p, h, i) ==
  /\ \A x \in 1..d[p].n : x # h => \E y \in 1..e[p].n :
       y # i /\ Child(e, p, y) = Child(d, p, x) /\ (d[p].t = "array" => y = x)
  /\ \A y \in 1..e[p].n : y # i => \E x \in 1..d[p].n :
       x # h /\ Child(e, p, y) = Child(d, p, x) /\ (d[p].t = "array" => y = x)

\* e is d with a value called name at position i of p, in the place of the
\* child at h, if h is a position.
Placed(d, e, p, h, i, name, value) ==
  /\ WellFormed(e) /\ p \in DOMAIN e /\ e[p].t = d[p].t /\ e[p].name = d[p].name
  /\ i \in 1..e[p].n /\ Child(e, p, i) = [name |-> name, value |-> value]
  /\ ChildrenKept(d, e, p, h, i) /\ Beside(d, e, p) /\ KeptAbove(d, e, p)

\* One document put into a container.
LEMMA OnePut ==
  ASSUME NEW d, WellFormed(d), NEW p \in DOMAIN d, d[p].t \in Container,
         NEW i \in 1..(d[p].n + 1), NEW value, IsTree(value), NEW name,
         IF d[p].t = "object" THEN name \in Name ELSE name \in {NoName, ValueName}
  PROVE  LET e == InsertItems(d, p, i, <<Named(value, name)>>)
         IN /\ WellFormed(e) /\ p \in DOMAIN e /\ e[p].t = d[p].t /\ e[p].name = d[p].name
            /\ e[p].n = d[p].n + 1
            /\ Child(e, p, i) = [name |-> name, value |-> value]
            /\ \A x \in 1..d[p].n : Child(e, p, IF x >= i THEN x + 1 ELSE x) = Child(d, p, x)
            /\ Beside(d, e, p) /\ KeptAbove(d, e, p)
<1> DEFINE item == Named(value, name)
           subs == <<item>>
           e    == InsertItems(d, p, i, subs)
<1>1. /\ WellFormed(value) /\ value = [a \in DOMAIN value |-> value[a]]
      /\ d[p].n \in Nat /\ i \in Position /\ i <= d[p].n + 1 /\ p \in Address /\ Labelled(d)
  BY DEF IsTree, WellFormed, Counted, Labelled, Position
<1>2. Branch(item) /\ item[Root].name = name /\ DOMAIN item = DOMAIN value
  BY <1>1, NamedIsBranch, NameAssumption
<1>3. Labelled(item) /\ Root \in DOMAIN item
  BY <1>2 DEF Branch
<1>4. item = [a \in DOMAIN item |-> item[a]] /\ Named(item, NoName) = value
  <2>1. item = [a \in DOMAIN value |->
                 IF a = Root THEN [value[Root] EXCEPT !.name = name] ELSE value[a]]
    BY <1>1 DEF Named
  <2>2. Named(value, NoName) = value
    BY <1>1, NamedItself
  <2>3. value[Root] \in Label /\ Root \in DOMAIN value
    BY <1>1 DEF WellFormed, Labelled, Rooted
  <2>4. [item[Root] EXCEPT !.name = NoName] = [value[Root] EXCEPT !.name = NoName]
    BY <2>1, <2>3 DEF Label
  <2> DEFINE u == Named(item, NoName)
             w == Named(value, NoName)
  <2>5. DOMAIN u = DOMAIN value /\ DOMAIN w = DOMAIN value
    BY <1>2 DEF Named
  <2>6. \A a \in DOMAIN value : u[a] = w[a]
    BY <1>2, <2>1, <2>3, <2>4 DEF Named
  <2>7. u = [a \in DOMAIN u |-> u[a]] /\ w = [a \in DOMAIN w |-> w[a]]
    BY DEF Named
  <2>8. u = w
    <3> HIDE DEF u, w
    <3> QED BY <2>5, <2>6, <2>7
  <2> QED BY <2>1, <2>2, <2>8
<1>5. WellFormed(e)
  BY <1>1, PutOne
<1>6. PICK k \in Nat : k = 1 /\ k = Len(subs) /\ \A l \in 1..k : subs[l] = item
  OBVIOUS
<1> HIDE DEF item, subs
<1>7. \A l \in 1..k : /\ Labelled(subs[l]) /\ Root \in DOMAIN subs[l]
                      /\ subs[l] = [a \in DOMAIN subs[l] |-> subs[l][a]]
  BY <1>3, <1>4, <1>6
<1>8. Labelled(e)
  BY <1>5 DEF WellFormed
<1>14. k = Len(subs) /\ \A l \in 1..k : Labelled(subs[l])
  BY <1>6, <1>7
<1>15. 1 \in 1..k /\ subs[1] = item
  BY <1>6
<1>9. Child(e, p, i) = [name |-> name, value |-> value]
  <2>0. ASSUME NEW l \in 1..k
        PROVE  Child(e, p, i + l - 1)
                 = [name |-> subs[l][Root].name, value |-> Named(subs[l], NoName)]
    <3>1. subs[l] = [s \in DOMAIN subs[l] |-> subs[l][s]] /\ Root \in DOMAIN subs[l]
      BY <1>7
    <3>2. Labelled(InsertItems(d, p, i, subs))
      BY <1>8
    <3> HIDE DEF e
    <3>3. Child(InsertItems(d, p, i, subs), p, i + l - 1)
            = [name |-> subs[l][Root].name, value |-> Named(subs[l], NoName)]
      BY <1>1, <1>14, <3>1, <3>2, InsertNewChild
    <3> QED BY <3>3 DEF e
  <2>1. Child(e, p, i + 1 - 1) = [name |-> subs[1][Root].name, value |-> Named(subs[1], NoName)]
    BY <1>15, <2>0
  <2>2. i + 1 - 1 = i
    BY <1>1 DEF Position
  <2> QED BY <1>2, <1>4, <1>15, <2>1, <2>2
<1>10. \A x \in 1..d[p].n : Child(e, p, IF x >= i THEN x + 1 ELSE x) = Child(d, p, x)
  <2>1. \A x \in 1..d[p].n : Child(e, p, IF x >= i THEN x + k ELSE x) = Child(d, p, x)
    BY <1>1, <1>8, <1>14, InsertOldChild
  <2> QED BY <1>6, <2>1
<1>11. KeptAbove(d, e, p) /\ e[p].n = d[p].n + 1
  <2>1. KeptAbove(d, e, p) /\ e[p].n = d[p].n + k
    BY <1>1, <1>14, InsertKeepsAbove
  <2> QED BY <1>6, <2>1
<1>12. p \in DOMAIN e /\ e[p].t = d[p].t /\ e[p].name = d[p].name
  <2>1. Len(p) <= Len(p)
    BY <1>1, LenProperties DEF Address
  <2> QED BY <1>11, <2>1 DEF KeptAbove
<1>13. Beside(d, e, p)
  <2>1. ASSUME NEW b, ~Under(p, b)
        PROVE  (b \in DOMAIN e <=> b \in DOMAIN d) /\ (b \in DOMAIN d => e[b] = d[b])
    BY <1>1, <1>14, <2>1, InsertOutside
  <2> QED BY <2>1 DEF Beside
<1> QED BY <1>5, <1>9, <1>10, <1>11, <1>12, <1>13 DEF item, subs

\* One taken out.
LEMMA OneTaken ==
  ASSUME NEW d, WellFormed(d), NEW p \in DOMAIN d, d[p].t \in Container, NEW h \in 1..d[p].n
  PROVE  LET e == Without(d, <<p, h>>)
         IN /\ WellFormed(e) /\ p \in DOMAIN e /\ e[p].t = d[p].t /\ e[p].name = d[p].name
            /\ e[p].n = d[p].n - 1
            /\ \A x \in 1..(d[p].n - 1) :
                 Child(e, p, x) = Child(d, p, IF x >= h THEN x + 1 ELSE x)
            /\ Beside(d, e, p) /\ KeptAbove(d, e, p)
<1> DEFINE e == Without(d, <<p, h>>)
<1>1. d[p].n \in Nat /\ h \in Position /\ h + 1 - 1 <= d[p].n /\ p \in Address /\ Labelled(d)
  BY DEF WellFormed, Counted, Labelled, Position
<1>2. WellFormed(e) /\ p \in DOMAIN e /\ e[p].t = d[p].t /\ e[p].n = d[p].n - 1
  BY WithoutWellFormed
<1>3. e = DetachItems(d, p, h, 1)
  BY DEF Without
<1>4. Labelled(e)
  BY <1>2 DEF WellFormed
<1> HIDE DEF e
<1>5. \A x \in 1..(d[p].n - 1) : Child(e, p, x) = Child(d, p, IF x >= h THEN x + 1 ELSE x)
  BY <1>1, <1>3, <1>4, DetachChild
<1>6. KeptAbove(d, e, p)
  BY <1>1, <1>3, DetachKeepsAbove
<1>7. e[p].name = d[p].name
  <2>1. Len(p) <= Len(p)
    BY <1>1, LenProperties DEF Address
  <2> QED BY <1>6, <2>1 DEF KeptAbove
<1>8. Beside(d, e, p)
  <2>1. ASSUME NEW b, ~Under(p, b)
        PROVE  (b \in DOMAIN e <=> b \in DOMAIN d) /\ (b \in DOMAIN d => e[b] = d[b])
    BY <1>1, <1>3, <2>1, DetachOutside
  <2> QED BY <2>1 DEF Beside
<1> QED BY <1>2, <1>5, <1>6, <1>7, <1>8 DEF e

\* A member is put at the end of an object without one of its name.
LEMMA OnePutPlain ==
  ASSUME NEW M, NEW d, WellFormed(d), Plain(M, d), NEW p \in DOMAIN d, d[p].t \in Container,
         NEW i \in 1..(d[p].n + 1), NEW value, IsTree(value), Plain(M, value), NEW name,
         IF d[p].t = "object" THEN name \in Name ELSE name \in {NoName, ValueName},
         d[p].t = "object" =>
           /\ i = d[p].n + 1 /\ name \in M
           /\ \A x \in 1..d[p].n : d[Append(p, x)].name # name
  PROVE  Plain(M, InsertItems(d, p, i, <<Named(value, name)>>))
<1> DEFINE item == Named(value, name)
           subs == <<item>>
           e    == InsertItems(d, p, i, subs)
           n    == d[p].n
<1>1. /\ WellFormed(e) /\ e[p].n = n + 1
      /\ Child(e, p, i) = [name |-> name, value |-> value]
      /\ \A x \in 1..n : Child(e, p, IF x >= i THEN x + 1 ELSE x) = Child(d, p, x)
  BY OnePut
<1>2. n \in Nat /\ i \in Position /\ WellFormed(value)
  BY DEF IsTree, WellFormed, Counted, Position
<1>3. name \in Name \cup {NoName}
  BY NameAssumption
<1>4. Labelled(item) /\ Plain(M, item)
  BY <1>2, <1>3, NamedIsBranch, NamedPlain DEF Branch
<1>5. PICK k \in Nat : k = 1 /\ k = Len(subs) /\ \A l \in 1..k : subs[l] = item
  OBVIOUS
<1>6. k = Len(subs) /\ \A l \in 1..k : Labelled(subs[l]) /\ Plain(M, subs[l])
  BY <1>4, <1>5
<1>7. ASSUME d[p].t = "object" PROVE Distinct(M, e[p].n, MemberNames(e, p))
  <2>1. Distinct(M, n, MemberNames(d, p))
    BY <1>7 DEF Plain
  <2> HIDE DEF e, subs, item
  <2>2. \A x \in 1..n : MemberNames(e, p)[x] = MemberNames(d, p)[x] /\ MemberNames(d, p)[x] # name
    <3>1. TAKE x \in 1..n
    <3>2. ~(x >= i) /\ x \in 1..(n + 1)
      BY <1>2, <1>7
    <3>3. Child(e, p, x) = Child(d, p, x)
      BY <1>1, <3>2
    <3>4. e[Append(p, x)].name = d[Append(p, x)].name
      BY <3>3 DEF Child
    <3> QED BY <1>1, <1>7, <3>2, <3>4 DEF MemberNames
  <2>3. MemberNames(e, p)[n + 1] = name
    <3>1. n + 1 \in 1..(n + 1) /\ i = n + 1
      BY <1>2, <1>7
    <3>2. e[Append(p, i)].name = name
      BY <1>1 DEF Child
    <3> QED BY <1>1, <3>1, <3>2 DEF MemberNames
  <2> HIDE DEF n
  <2>4. \A x \in 1..(n + 1) : x \in 1..n \/ x = n + 1
    BY <1>2
  <2>5. n + 1 \notin 1..n
    BY <1>2
  <2> DEFINE f == MemberNames(e, p)
             g == MemberNames(d, p)
  <2>6. Distinct(M, n + 1, f)
    <3>1. \A x \in 1..n : g[x] \in M /\ \A y \in 1..n : g[x] = g[y] => x = y
      BY <2>1 DEF Distinct
    <3>2. f[n + 1] = name /\ \A x \in 1..n : f[x] = g[x] /\ g[x] # name
      BY <2>2, <2>3
    <3> HIDE DEF f, g
    <3> QED BY <1>7, <2>4, <2>5, <3>1, <3>2 DEF Distinct
  <2> QED BY <1>1, <2>6
<1> HIDE DEF item, subs, n
<1>8. LET w == InsertItems(d, p, i, subs)
      IN d[p].t = "object" => Distinct(M, w[p].n, MemberNames(w, p))
  BY <1>7
<1>9. Plain(M, InsertItems(d, p, i, subs))
  BY <1>1, <1>2, <1>6, <1>8, InsertPlain
<1> QED BY <1>9 DEF subs, item

\* Kept outside, and kept above, from one document to a third.
LEMMA KeptTwice ==
  ASSUME NEW d, NEW e, NEW f, NEW p,
         Beside(d, e, p), Beside(e, f, p), KeptAbove(d, e, p), KeptAbove(e, f, p)
  PROVE  Beside(d, f, p) /\ KeptAbove(d, f, p)
<1>1. Beside(d, f, p)
  BY DEF Beside
<1>2. KeptAbove(d, f, p)
  BY DEF KeptAbove
<1> QED BY <1>1, <1>2

\* A value is put at the end,
LEMMA PlacedAtEnd ==
  ASSUME NEW d, WellFormed(d), NEW p \in DOMAIN d, d[p].t \in Container,
         NEW value, IsTree(value), NEW name,
         IF d[p].t = "object" THEN name \in Name ELSE name \in {NoName, ValueName}
  PROVE  LET e == AddItems(d, p, <<Named(value, name)>>)
         IN Placed(d, e, p, 0, d[p].n + 1, name, value) /\ e[p].n = d[p].n + 1
<1> DEFINE n == d[p].n
           e == InsertItems(d, p, n + 1, <<Named(value, name)>>)
<1>1. n \in Nat /\ n + 1 \in 1..(n + 1)
  BY DEF WellFormed, Counted
<1>2. /\ WellFormed(e) /\ p \in DOMAIN e /\ e[p].t = d[p].t /\ e[p].name = d[p].name
      /\ e[p].n = n + 1
      /\ Child(e, p, n + 1) = [name |-> name, value |-> value]
      /\ \A x \in 1..n : Child(e, p, IF x >= n + 1 THEN x + 1 ELSE x) = Child(d, p, x)
      /\ Beside(d, e, p) /\ KeptAbove(d, e, p)
  BY <1>1, OnePut
<1>3. AddItems(d, p, <<Named(value, name)>>) = e
  BY DEF AddItems, Size
<1> HIDE DEF e, n
<1>4. \A x \in 1..n : Child(e, p, x) = Child(d, p, x)
  BY <1>1, <1>2
<1>5. ChildrenKept(d, e, p, 0, n + 1)
  <2>1. \A x \in 1..n : x \in 1..(n + 1) /\ x # n + 1 /\ x # 0
    BY <1>1
  <2>2. \A x \in 1..(n + 1) : x # n + 1 => x \in 1..n
    BY <1>1
  <2> QED BY <1>2, <1>4, <2>1, <2>2 DEF ChildrenKept, n
<1> QED BY <1>1, <1>2, <1>3, <1>5 DEF Placed, n

\* or in the place of another one: an element where that was, a member at the
\* end.
LEMMA PlacedAgain ==
  ASSUME NEW d, WellFormed(d), NEW p \in DOMAIN d, d[p].t \in Container,
         NEW h \in 1..d[p].n, NEW i \in {h, d[p].n}, d[p].t = "array" => i = h,
         NEW value, IsTree(value), NEW name,
         IF d[p].t = "object" THEN name \in Name ELSE name \in {NoName, ValueName}
  PROVE  LET e == InsertItems(Without(d, <<p, h>>), p, i, <<Named(value, name)>>)
         IN Placed(d, e, p, h, i, name, value) /\ e[p].n = d[p].n
<1> DEFINE n == d[p].n
           r == Without(d, <<p, h>>)
           e == InsertItems(r, p, i, <<Named(value, name)>>)
<1>1. n \in Nat /\ h \in 1..n /\ i \in 1..n
  BY DEF WellFormed, Counted
<1>2. /\ WellFormed(r) /\ p \in DOMAIN r /\ r[p].t = d[p].t /\ r[p].name = d[p].name
      /\ r[p].n = n - 1
      /\ \A x \in 1..(n - 1) : Child(r, p, x) = Child(d, p, IF x >= h THEN x + 1 ELSE x)
      /\ Beside(d, r, p) /\ KeptAbove(d, r, p)
  BY OneTaken
<1> HIDE DEF r, n
<1>3. i \in 1..(r[p].n + 1)
  BY <1>1, <1>2
<1>4. /\ WellFormed(e) /\ p \in DOMAIN e /\ e[p].t = r[p].t /\ e[p].name = r[p].name
      /\ e[p].n = r[p].n + 1
      /\ Child(e, p, i) = [name |-> name, value |-> value]
      /\ \A x \in 1..r[p].n : Child(e, p, IF x >= i THEN x + 1 ELSE x) = Child(r, p, x)
      /\ Beside(r, e, p) /\ KeptAbove(r, e, p)
  BY <1>2, <1>3, OnePut
<1> HIDE DEF e
<1>5. e[p].n = n
  BY <1>1, <1>2, <1>4
<1>6. \A x \in 1..(n - 1) :
        Child(e, p, IF x >= i THEN x + 1 ELSE x) = Child(d, p, IF x >= h THEN x + 1 ELSE x)
  BY <1>2, <1>4
<1>7. ChildrenKept(d, e, p, h, i)
  <2>1. ASSUME NEW x \in 1..n, x # h
        PROVE  \E y \in 1..n :
                 y # i /\ Child(e, p, y) = Child(d, p, x) /\ (d[p].t = "array" => y = x)
    <3> DEFINE z == IF x > h THEN x - 1 ELSE x
               y == IF z >= i THEN z + 1 ELSE z
    <3>1. z \in 1..(n - 1) /\ x = (IF z >= h THEN z + 1 ELSE z)
      BY <1>1, <2>1
    <3>2. y \in 1..n /\ y # i /\ (i = h => y = x)
      BY <1>1, <2>1
    <3>3. Child(e, p, y) = Child(d, p, x)
      <4> HIDE DEF z
      <4> QED BY <1>6, <3>1
    <3> HIDE DEF y, z
    <3> QED BY <3>2, <3>3
  <2>2. ASSUME NEW y \in 1..n, y # i
        PROVE  \E x \in 1..n :
                 x # h /\ Child(e, p, y) = Child(d, p, x) /\ (d[p].t = "array" => y = x)
    <3> DEFINE z == IF y > i THEN y - 1 ELSE y
               x == IF z >= h THEN z + 1 ELSE z
    <3>1. z \in 1..(n - 1) /\ y = (IF z >= i THEN z + 1 ELSE z)
      BY <1>1, <2>2
    <3>2. x \in 1..n /\ x # h /\ (i = h => y = x)
      BY <1>1, <2>2
    <3>3. Child(e, p, y) = Child(d, p, x)
      <4> HIDE DEF z
      <4> QED BY <1>6, <3>1
    <3> HIDE DEF x, z
    <3> QED BY <3>2, <3>3
  <2> QED BY <1>5, <2>1, <2>2 DEF ChildrenKept, n
<1>8. Beside(d, e, p) /\ KeptAbove(d, e, p)
  BY <1>2, <1>4, KeptTwice
<1>9. e[p].t = d[p].t /\ e[p].name = d[p].name /\ i \in 1..e[p].n
  BY <1>1, <1>2, <1>4, <1>5
<1>10. Placed(d, e, p, h, i, name, value)
  BY <1>4, <1>7, <1>8, <1>9 DEF Placed
<1> QED BY <1>5, <1>10 DEF e, r, n

\* What JSON.SET has done to a document d: the path t, which ends in tok, leads
\* to a place in p where the value now is, at i; h is where the value was that
\* it replaces, or 0.
SetAt(M, d, e, t, tok, value, p, h, i, name) ==
  /\ p \in DOMAIN d /\ d[p].t \in Container /\ Resolves(d, Parent(t), p)
  /\ IF d[p].t = "object" THEN name = SoughtName[tok] ELSE name = ValueName
  /\ Placed(d, e, p, h, i, name, value) /\ Plain(M, e)
  /\ h # 0 => /\ h \in 1..d[p].n /\ Selects(d, p, tok, h)
              /\ i = (IF d[p].t = "array" THEN h ELSE d[p].n) /\ e[p].n = d[p].n
              /\ e = InsertItems(Without(d, <<p, h>>), p, i, <<Named(value, name)>>)
  /\ h = 0 => /\ \A x : ~Selects(d, p, tok, x)
              /\ i = d[p].n + 1 /\ e[p].n = d[p].n + 1
              /\ d[p].t = "array" => tok = Dash \/ Index[tok] = d[p].n
              /\ e = InsertItems(d, p, i, <<Named(value, name)>>)

\* A member with a new name only comes in.
LEMMA PutMemberNew ==
  ASSUME NEW d, NEW p, NEW name, NEW value,
         \A x \in 1..d[p].n : d[Append(p, x)].name # name
  PROVE  PutMember(d, p, name, value) = InsertItems(d, p, d[p].n + 1, <<Named(value, name)>>)
<1>1. FirstNamed(d, p, {name}) = {}
  BY DEF FirstNamed, Size
<1> QED BY <1>1 DEF PutMember, AddItems, Size

\* Replacing.
LEMMA ReplaceSets ==
  ASSUME NEW M, NEW T, ToldApart(M, T), NEW d, WellFormed(d), Plain(M, d),
         NEW ptr \in Pointer, ptr.toks # <<>>, LastTok(ptr) \in T,
         NEW value, IsTree(value), Plain(M, value), PatchReplace(d, ptr, value).status = 0
  PROVE  \E p, h, i, name :
           /\ h # 0
           /\ SetAt(M, d, PatchReplace(d, ptr, value).doc, Aim(ptr), LastTok(ptr), value,
                    p, h, i, name)
<1> DEFINE old == DetachPath(d, ptr)
           pl  == CHOOSE x \in old : TRUE
           tok == LastTok(ptr)
           e   == PatchReplace(d, ptr, value).doc
<1>1. ~IsRoot(ptr)
  BY DEF IsRoot
<1>2. old # {} /\ PatchReplace(d, ptr, value) = AddTo(Without(d, pl), ptr, value)
  BY <1>1 DEF PatchReplace, Patched
<1>3. pl \in old
  BY <1>2
<1> HIDE DEF pl
<1>4. PICK p \in Holder(d, ptr), h \in Nat :
        /\ h \in Detached(d, p, tok)
        /\ pl = <<p, h>> /\ p \in DOMAIN d /\ d[p].t \in Container
        /\ h \in 1..d[p].n /\ d[p].n \in Nat
        /\ d[p].t = "array" => h = Index[tok] + 1
  BY <1>3, DetachPathType
<1>5. Selects(d, p, tok, h)
  BY <1>4, SelectsIs
<1> DEFINE r == Without(d, <<p, h>>)
           n == d[p].n
<1>6. /\ WellFormed(r) /\ p \in DOMAIN r /\ r[p].t = d[p].t /\ r[p].n = n - 1
      /\ \A x \in 1..(n - 1) : Child(r, p, x) = Child(d, p, IF x >= h THEN x + 1 ELSE x)
  BY <1>4, OneTaken
<1>7. Plain(M, r)
  <2>1. h \in Position /\ 1 \in Nat /\ h + 1 - 1 <= n /\ 1 <= n
    BY <1>4 DEF Position
  <2>2. Plain(M, DetachItems(d, p, h, 1))
    BY <1>4, <2>1, DetachPlain
  <2>3. r = DetachItems(d, p, h, 1)
    BY DEF Without
  <2> QED BY <2>2, <2>3
<1>8. p \in Holder(r, ptr)
  BY <1>4, HolderKept
<1>9. (CHOOSE a \in Holder(r, ptr) : TRUE) = p /\ Holder(r, ptr) # {}
  <2>1. (CHOOSE a \in Holder(r, ptr) : TRUE) \in Holder(r, ptr)
    BY <1>8
  <2> HIDE DEF r
  <2> QED BY <1>6, <1>8, <2>1, HolderOnce
<1>10. /\ tok \in Tok /\ Index[tok] \in Nat \cup {-1} /\ SoughtName[tok] \in M
       /\ ChildName[tok] = SoughtName[tok] /\ SoughtName[tok] \in Name
  BY TokAssumption DEF ToldApart
<1>11. /\ Resolves(d, Parent(Aim(ptr)), p)
  BY <1>4, HolderIs
<1>12. e = AddTo(r, ptr, value).doc
  BY <1>2, <1>4
<1> HIDE DEF e, tok
<1>13. CASE d[p].t = "array"
  <2>1. tok # Dash /\ Index[tok] = h - 1 /\ Index[tok] # -1 /\ ~(Index[tok] > n - 1)
    BY <1>4, <1>10, <1>13, TokAssumption
  <2>2. e = InsertItems(r, p, h, <<Named(value, ValueName)>>)
    <3> HIDE DEF r, n
    <3>1. AddTo(r, ptr, value) = AddToArray(r, p, tok, value)
      BY <1>6, <1>9, <1>13 DEF AddTo, tok
    <3>2. AddToArray(r, p, tok, value)
            = Patched(InsertItems(r, p, Index[tok] + 1, <<Named(value, ValueName)>>), 0)
      BY <1>6, <2>1 DEF AddToArray, Size
    <3>3. Index[tok] + 1 = h
      BY <1>4, <1>13
    <3> QED BY <1>12, <3>1, <3>2, <3>3 DEF Patched
  <2>3. Placed(d, e, p, h, h, ValueName, value) /\ e[p].n = n
    <3>1. h \in {h, d[p].n} /\ d[p].t # "object" /\ ValueName \in {NoName, ValueName}
      BY <1>13
    <3>2. e = InsertItems(Without(d, <<p, h>>), p, h, <<Named(value, ValueName)>>)
      BY <2>2
    <3> HIDE DEF n
    <3> QED BY <1>4, <1>13, <3>1, <3>2, PlacedAgain DEF n
  <2>4. Plain(M, e)
    <3>1. h \in 1..(r[p].n + 1)
      BY <1>4, <1>6
    <3>2. r[p].t = "array" /\ r[p].t \in Container /\ r[p].t # "object"
      BY <1>6, <1>13 DEF Container
    <3> HIDE DEF r
    <3> QED BY <1>6, <1>7, <2>2, <3>1, <3>2, OnePutPlain
  <2>5. SetAt(M, d, e, Aim(ptr), tok, value, p, h, h, ValueName) /\ h # 0
    BY <1>4, <1>5, <1>11, <1>13, <2>2, <2>3, <2>4 DEF SetAt
  <2> QED BY <2>5 DEF e, tok
<1>14. CASE d[p].t = "object"
  <2> DEFINE name == SoughtName[tok]
  <2>1. \A x \in 1..(n - 1) : r[Append(p, x)].name # name
    <3>1. TAKE x \in 1..(n - 1)
    <3> DEFINE y == IF x >= h THEN x + 1 ELSE x
    <3>2. y \in 1..n /\ y # h
      BY <1>4
    <3>3. r[Append(p, x)].name = d[Append(p, y)].name
      BY <1>6 DEF Child
    <3> HIDE DEF y, r, name
    <3>4. d[Append(p, h)].name = name
      BY <1>4, <1>5, <1>14, SelectsIs DEF name, tok
    <3>5. Distinct(M, n, MemberNames(d, p))
      BY <1>4, <1>14 DEF Plain
    <3>6. d[Append(p, y)].name # d[Append(p, h)].name
      BY <1>4, <3>2, <3>5 DEF Distinct, MemberNames
    <3> QED BY <3>3, <3>4, <3>6
  <2>2. e = InsertItems(r, p, n, <<Named(value, name)>>)
    <3> HIDE DEF r
    <3>1. AddTo(r, ptr, value) = Patched(PutMember(r, p, name, value), 0)
      BY <1>6, <1>9, <1>10, <1>14 DEF AddTo, tok
    <3>2. PutMember(r, p, name, value) = InsertItems(r, p, r[p].n + 1, <<Named(value, name)>>)
      BY <1>6, <2>1, PutMemberNew
    <3>3. r[p].n + 1 = n
      BY <1>4, <1>6
    <3> QED BY <1>12, <3>1, <3>2, <3>3 DEF Patched
  <2>3. Placed(d, e, p, h, n, name, value) /\ e[p].n = n
    <3> HIDE DEF r
    <3> QED BY <1>4, <1>10, <1>14, <2>2, PlacedAgain DEF r
  <2>4. Plain(M, e)
    <3>1. n \in 1..(r[p].n + 1) /\ n = r[p].n + 1
      BY <1>4, <1>6
    <3>2. r[p].t = "object" /\ r[p].t \in Container
      BY <1>6, <1>14 DEF Container
    <3>3. \A x \in 1..r[p].n : r[Append(p, x)].name # name
      BY <1>6, <2>1
    <3> HIDE DEF r, n
    <3> QED BY <1>6, <1>7, <1>10, <2>2, <3>1, <3>2, <3>3, OnePutPlain
  <2>5. SetAt(M, d, e, Aim(ptr), tok, value, p, h, n, name) /\ h # 0
    BY <1>4, <1>5, <1>11, <1>14, <2>2, <2>3, <2>4 DEF SetAt
  <2> QED BY <2>5 DEF e, tok
<1> QED BY <1>4, <1>13, <1>14 DEF Container

\* Adding, where the path leads to nothing.
LEMMA AddSets ==
  ASSUME NEW M, NEW T, ToldApart(M, T), NEW d, WellFormed(d), Plain(M, d),
         NEW ptr \in Pointer, ptr.toks # <<>>, LastTok(ptr) \in T,
         \A p \in Holder(d, ptr) : \A x : ~Selects(d, p, LastTok(ptr), x),
         NEW value, IsTree(value), Plain(M, value), PatchAdd(d, ptr, value).status = 0
  PROVE  \E p, i, name :
           SetAt(M, d, PatchAdd(d, ptr, value).doc, Aim(ptr), LastTok(ptr), value, p, 0, i, name)
<1> DEFINE tok == LastTok(ptr)
           e   == PatchAdd(d, ptr, value).doc
           p   == CHOOSE a \in Holder(d, ptr) : TRUE
           n   == d[p].n
<1>1. PatchAdd(d, ptr, value) = AddTo(d, ptr, value)
  BY DEF PatchAdd, IsRoot
<1>2. Holder(d, ptr) # {}
  BY <1>1 DEF AddTo, Patched
<1>3. p \in Holder(d, ptr)
  BY <1>2
<1>4. d[p].t \in Container
  BY <1>1, <1>2 DEF AddTo, Patched, Container
<1> HIDE DEF p
<1>5. p \in DOMAIN d /\ Resolves(d, Parent(Aim(ptr)), p) /\ \A x : ~Selects(d, p, tok, x)
  BY <1>3, HolderIs
<1>6. /\ tok \in Tok /\ Index[tok] \in Nat \cup {-1} /\ SoughtName[tok] \in M
      /\ ChildName[tok] = SoughtName[tok] /\ SoughtName[tok] \in Name
  BY TokAssumption DEF ToldApart
<1>7. n \in Nat
  BY <1>4, <1>5 DEF WellFormed, Counted
<1> DEFINE Item(name) == <<Named(value, name)>>
<1>8. ASSUME NEW name,
             IF d[p].t = "object" THEN name = SoughtName[tok] ELSE name = ValueName,
             e = AddItems(d, p, Item(name)), Plain(M, e),
             d[p].t = "array" => tok = Dash \/ Index[tok] = n
      PROVE  SetAt(M, d, e, Aim(ptr), tok, value, p, 0, n + 1, name)
  <2>1. Placed(d, e, p, 0, n + 1, name, value) /\ e[p].n = n + 1
    <3>1. IF d[p].t = "object" THEN name \in Name ELSE name \in {NoName, ValueName}
      BY <1>6, <1>8
    <3> HIDE DEF e
    <3> QED BY <1>4, <1>5, <1>8, <3>1, PlacedAtEnd
  <2>2. e = InsertItems(d, p, n + 1, Item(name))
    BY <1>8 DEF AddItems, Size
  <2> HIDE DEF e, tok
  <2> QED BY <1>4, <1>5, <1>8, <2>1, <2>2 DEF SetAt
<1>9. CASE d[p].t = "array"
  <2>1. AddTo(d, ptr, value) = AddToArray(d, p, tok, value)
    BY <1>2, <1>9 DEF AddTo, p
  <2>2. ~(Index[tok] >= 0 /\ Index[tok] + 1 <= n)
    BY <1>5, <1>6, <1>9 DEF Selects, Size
  <2>3. tok = Dash \/ Index[tok] = n
    BY <1>1, <1>6, <1>7, <2>1, <2>2 DEF AddToArray, Patched, Size
  <2>4. e = AddItems(d, p, Item(ValueName))
    <3>1. CASE tok = Dash
      BY <1>1, <2>1, <3>1 DEF AddToArray, Patched
    <3>2. CASE tok # Dash /\ Index[tok] = n
      <4>1. Index[tok] # -1 /\ ~(Index[tok] > n)
        BY <1>7, <3>2
      <4> QED BY <1>1, <2>1, <3>2, <4>1 DEF AddToArray, AddItems, Patched, Size
    <3> QED BY <2>3, <3>1, <3>2
  <2>5. Plain(M, e)
    <3>1. n + 1 \in 1..(n + 1) /\ d[p].t # "object"
      BY <1>7, <1>9
    <3>2. e = InsertItems(d, p, n + 1, Item(ValueName))
      BY <2>4 DEF AddItems, Size
    <3> HIDE DEF e
    <3> QED BY <1>4, <1>5, <3>1, <3>2, OnePutPlain
  <2>6. d[p].t # "object"
    BY <1>9
  <2> QED BY <1>8, <2>3, <2>4, <2>5, <2>6
<1>10. CASE d[p].t = "object"
  <2> DEFINE name == SoughtName[tok]
  <2>1. \A x \in 1..n : d[Append(p, x)].name # name
    <3>1. \A x \in 1..n : d[Append(p, x)].name = name => Selects(d, p, tok, x)
      <4>1. d[p].t # "array"
        BY <1>10
      <4> QED BY <1>4, <1>5, <4>1, SelectsIs
    <3> QED BY <1>5, <3>1
  <2>2. AddTo(d, ptr, value) = Patched(PutMember(d, p, name, value), 0)
    BY <1>2, <1>6, <1>10 DEF AddTo, p
  <2>3. e = AddItems(d, p, Item(name))
    <3>1. PutMember(d, p, name, value) = InsertItems(d, p, n + 1, Item(name))
      BY <2>1, PutMemberNew
    <3> QED BY <1>1, <2>2, <3>1 DEF Patched, AddItems, Size
  <2>4. Plain(M, e)
    <3>1. n + 1 \in 1..(n + 1)
      BY <1>7
    <3>2. e = InsertItems(d, p, n + 1, Item(name))
      BY <2>3 DEF AddItems, Size
    <3> HIDE DEF e, name
    <3> QED BY <1>4, <1>5, <1>6, <1>10, <2>1, <3>1, <3>2, OnePutPlain DEF name
  <2>5. d[p].t # "array"
    BY <1>10
  <2> QED BY <1>8, <1>10, <2>3, <2>4, <2>5
<1> QED BY <1>4, <1>9, <1>10 DEF Container

(***************************************************************************)
(* The documents of usual calls are plain.                                 *)
(***************************************************************************)

\* The value of a document.
LEMMA DocIs == \A d : Doc(d).root = d /\ Doc(d) # Empty /\ Doc(d) # Foreign
BY DEF Doc, Empty, Foreign

\* The path of a call as a pointer.
LEMMA PointerIs ==
  ASSUME NEW c, c.path \in Path, NEW M, NEW T, UsualCall(M, T, c)
  PROVE  LET ptr == PathToPointer(c.path)
         IN /\ ptr \in Pointer /\ ptr.toks = c.path.toks /\ Aim(ptr) = Target(c.path)
            /\ ptr.toks # <<>> => LastTok(ptr) \in T /\ LastTok(ptr) \in Tok
<1> DEFINE ptr == PathToPointer(c.path)
<1>1. ptr \in Pointer /\ ptr.toks = c.path.toks
  BY PathType DEF PathToPointer
<1>2. Aim(ptr) = Target(c.path)
  BY <1>1 DEF Aim, Target, LastTok
<1>3. ASSUME ptr.toks # <<>>
      PROVE  LastTok(ptr) \in T /\ LastTok(ptr) \in Tok
  <2>1. Len(ptr.toks) \in 1..Len(ptr.toks)
    BY <1>1, <1>3, EmptySeq, LenProperties DEF Pointer
  <2>2. LastTok(ptr) \in Tok
    BY <1>1, <1>3, PointerParts
  <2> QED BY <1>1, <2>1, <2>2 DEF UsualCall, LastTok
<1> QED BY <1>1, <1>2, <1>3

\* What an acknowledged JSON.SET has done.
LEMMA SetIs ==
  ASSUME NEW M, NEW T, ToldApart(M, T),
         NEW c, IsCall(c), c.op = "set", UsualCall(M, T, c),
         NEW v, IsValue(v), PlainValue(M, v), SetEffect(c, v).sent
  PROVE  LET ptr == PathToPointer(c.path)
             w   == SetEffect(c, v).val
         IN /\ c.path.style # "broken" /\ c.flag # "junk" /\ c.json # BadJson
            /\ IsTree(c.json) /\ Plain(M, c.json) /\ w = Doc(w.root)
            /\ \/ IsRoot(ptr) /\ w = Doc(c.json)
               \/ /\ ptr.toks # <<>> /\ v = Doc(v.root) /\ WellFormed(v.root) /\ Plain(M, v.root)
                  /\ \E p, h, i, name :
                       SetAt(M, v.root, w.root, Aim(ptr), LastTok(ptr), c.json, p, h, i, name)
<1> DEFINE ptr   == PathToPointer(c.path)
           d     == v.root
           found == GetPointer(d, ptr) # {}
           patch == IF found THEN PatchReplace(d, ptr, c.json) ELSE PatchAdd(d, ptr, c.json)
           w     == SetEffect(c, v).val
<1>1. \A x, r : ~Answer(x, r).sent /\ Commit(x, r).sent /\ Commit(x, r).val = x
  BY DEF Answer, Commit
<1>2. /\ c.path.style # "broken" /\ c.flag # "junk" /\ c.json # BadJson /\ v # Foreign
      /\ IF v = Empty THEN IsRoot(ptr) /\ w = Doc(c.json)
         ELSE patch.status = 0 /\ w = Doc(patch.doc)
  <2> HIDE DEF ptr, patch, found
  <2>1. SetEffect(c, v) =
          IF c.path.style = "broken"           THEN Answer(v, Error("path"))
          ELSE IF c.flag = "junk"              THEN Answer(v, Error("syntax"))
          ELSE IF v = Empty /\ c.flag = "xx"   THEN Answer(v, Nil)
          ELSE IF v = Foreign                  THEN Answer(v, Error("wrongtype"))
          ELSE IF c.json = BadJson             THEN Answer(v, Error("json"))
          ELSE IF v = Empty /\ IsRoot(ptr)     THEN Commit(Doc(c.json), Ok)
          ELSE IF v = Empty                    THEN Answer(v, Error("new"))
          ELSE IF c.flag = "xx" /\ ~found      THEN Answer(v, Nil)
          ELSE IF c.flag = "nx" /\ found       THEN Answer(v, Nil)
          ELSE IF patch.status # 0 THEN Answer(Doc(patch.doc), PatchError(patch.status))
          ELSE Commit(Doc(patch.doc), Ok)
    BY Zenon DEF SetEffect, ptr, found, patch
  <2>2. Empty # Foreign
    BY DEF Empty, Foreign
  <2>3. c.path.style # "broken"
    BY <1>1, <2>1, Zenon
  <2>4. c.flag # "junk"
    BY <1>1, <2>1, <2>3, Zenon
  <2>5. ~(v = Empty /\ c.flag = "xx")
    BY <1>1, <2>1, <2>3, <2>4, Zenon
  <2>6. v # Foreign
    BY <1>1, <2>1, <2>3, <2>4, <2>5, Zenon
  <2>7. c.json # BadJson
    BY <1>1, <2>1, <2>3, <2>4, <2>5, <2>6, Zenon
  <2>8. v = Empty => IsRoot(ptr) /\ w = Doc(c.json)
    BY <1>1, <2>1, <2>3, <2>4, <2>5, <2>6, <2>7, Zenon
  <2>9. v # Empty => patch.status = 0
    BY <1>1, <2>1, <2>3, <2>4, <2>5, <2>6, <2>7, Zenon
  <2>10. v # Empty => w = Doc(patch.doc)
    BY <1>1, <2>1, <2>3, <2>4, <2>5, <2>6, <2>7, <2>9, Zenon
  <2> QED BY <2>3, <2>4, <2>6, <2>7, <2>8, <2>9, <2>10
<1>3. IsTree(c.json) /\ Plain(M, c.json) /\ c.path \in Path
  BY <1>2 DEF IsCall, IsJson, IsTree, UsualCall
<1>4. /\ ptr \in Pointer
      /\ ptr.toks # <<>> => LastTok(ptr) \in T /\ LastTok(ptr) \in Tok
  BY <1>3, PointerIs
<1>5. w = Doc(w.root)
  BY <1>2, DocIs
<1>6. ASSUME v # Empty, ~IsRoot(ptr)
      PROVE  /\ ptr.toks # <<>> /\ v = Doc(v.root) /\ WellFormed(v.root) /\ Plain(M, v.root)
             /\ \E p, h, i, name :
                  SetAt(M, d, w.root, Aim(ptr), LastTok(ptr), c.json, p, h, i, name)
  <2>1. v = Doc(d) /\ WellFormed(d) /\ Plain(M, d)
    BY <1>2, <1>6, ValueIsDoc DEF PlainValue
  <2>2. patch.status = 0 /\ w.root = patch.doc
    BY <1>2, <1>6, DocIs
  <2> HIDE DEF ptr, d, w
  <2>3. CASE found
    <3>1. ptr.toks # <<>>
      <4>1. PatchReplace(d, ptr, c.json).status = 0
        BY <2>2, <2>3
      <4>2. DetachPath(d, ptr) # {}
        BY <1>6, <4>1 DEF PatchReplace, Patched
      <4> QED BY <4>2 DEF DetachPath, Holder
    <3>2. patch = PatchReplace(d, ptr, c.json)
      BY <2>3
    <3> HIDE DEF patch, found
    <3>3. LastTok(ptr) \in T /\ PatchReplace(d, ptr, c.json).status = 0
      BY <1>4, <2>2, <3>1, <3>2
    <3>4. \E p, h, i, name :
            /\ h # 0
            /\ SetAt(M, d, PatchReplace(d, ptr, c.json).doc, Aim(ptr), LastTok(ptr), c.json,
                     p, h, i, name)
      BY <1>3, <1>4, <2>1, <3>1, <3>3, ReplaceSets, Zenon
    <3> QED BY <2>1, <2>2, <3>1, <3>2, <3>4 DEF d
  <2>4. CASE ~found
    <3>1. ~ptr.lead /\ ptr.toks # <<>>
      BY <1>6, <2>4 DEF GetPointer, IsRoot
    <3>2. Aim(ptr) = ptr.toks
      BY <3>1 DEF Aim
    <3>3. ASSUME NEW p \in Holder(d, ptr), NEW x, Selects(d, p, LastTok(ptr), x)
          PROVE  FALSE
      <4>1. /\ Aim(ptr) \in Seq(Tok) /\ Len(Aim(ptr)) \in Nat \ {0}
            /\ Aim(ptr)[Len(Aim(ptr))] = LastTok(ptr)
            /\ \A q : q \in Holder(d, ptr) <=> q \in DOMAIN d /\ Resolves(d, Parent(Aim(ptr)), q)
        BY <1>4, <2>1, <3>1, HolderIs, Zenon
      <4>5. /\ ptr.toks \in Seq(Tok) /\ Len(ptr.toks) \in Nat \ {0}
            /\ ptr.toks[Len(ptr.toks)] = LastTok(ptr)
            /\ p \in DOMAIN d /\ Resolves(d, Parent(ptr.toks), p)
        BY <3>2, <3>3, <4>1
      <4>2. x \in Position /\ Append(p, x) \in DOMAIN d /\ p \in Address
        BY <1>4, <2>1, <3>1, <3>3, <4>5, SelectedIsChild DEF WellFormed, Labelled
      <4>3. Resolves(d, ptr.toks, Append(p, x))
        BY <3>3, <4>5, <4>2, ResolvesStep
      <4> QED BY <2>4, <3>1, <4>2, <4>3 DEF GetPointer
    <3>4. patch = PatchAdd(d, ptr, c.json)
      BY <2>4
    <3> HIDE DEF patch, found
    <3>5. LastTok(ptr) \in T /\ PatchAdd(d, ptr, c.json).status = 0
      BY <1>4, <2>2, <3>1, <3>4
    <3>6. \A p \in Holder(d, ptr) : \A x : ~Selects(d, p, LastTok(ptr), x)
      BY <3>3
    <3>7. \E p, i, name :
            SetAt(M, d, PatchAdd(d, ptr, c.json).doc, Aim(ptr), LastTok(ptr), c.json, p, 0, i, name)
      BY <1>3, <1>4, <2>1, <3>1, <3>5, <3>6, AddSets, Zenon
    <3> QED BY <2>1, <2>2, <3>1, <3>4, <3>7 DEF d
  <2> QED BY <2>3, <2>4
<1>7. ASSUME v # Empty, IsRoot(ptr)
      PROVE  w = Doc(c.json)
  <2>1. patch = Patched(c.json, 0)
    BY <1>7 DEF PatchReplace, PatchAdd
  <2> HIDE DEF patch, w
  <2> QED BY <1>2, <1>7, <2>1 DEF Patched
<1> HIDE DEF w, ptr, d
<1>8. v = Empty => w = Doc(c.json) /\ IsRoot(ptr)
  BY <1>2
<1> QED BY <1>2, <1>3, <1>5, <1>6, <1>7, <1>8 DEF w, ptr, d

\* A call that is answered leaves the value it found, which is plain.
LEMMA OnNodePlain ==
  ASSUME NEW M, NEW c, NEW v, PlainValue(M, v), NEW missing, NEW t, NEW then,
         Reaches(c, v, t) => PlainValue(M, then.val)
  PROVE  PlainValue(M, OnNode(c, v, missing, t, then).val)
<1>1. CASE Reaches(c, v, t)
  BY <1>1, OnNodeCases
<1>2. CASE ~Reaches(c, v, t)
  <2>1. PICK r : OnNode(c, v, missing, t, then) = Answer(v, r)
    BY <1>2, OnNodeCases
  <2> QED BY <2>1 DEF Answer
<1> QED BY <1>1, <1>2

\* The value of a plain document, and what is left of it after a deletion.
LEMMA DocPlain ==
  ASSUME NEW M, NEW d, Plain(M, d)
  PROVE  PlainValue(M, Doc(d)) /\ PlainValue(M, DropIfChildless(d))
BY DEF PlainValue, Doc, DropIfChildless, Empty

\* Changing a scalar keeps a document plain.
LEMMA NumberPlain ==
  ASSUME NEW M, NEW d, WellFormed(d), Plain(M, d), NEW a \in DOMAIN d, d[a].t \notin Container,
         NEW n
  PROVE  Plain(M, WithNumber(d, a, n))
<1> DEFINE e == WithNumber(d, a, n)
<1>1. /\ DOMAIN e = DOMAIN d
      /\ \A b \in DOMAIN d : /\ e[b].t = d[b].t /\ e[b].name = d[b].name
                             /\ b # a => e[b] = d[b]
  BY DEF WithNumber, WellFormed, Labelled, Label
<1> HIDE DEF e
<1>2. ASSUME NEW b \in DOMAIN e, e[b].t = "object"
      PROVE  Distinct(M, e[b].n, MemberNames(e, b))
  <2>1. b \in DOMAIN d /\ d[b].t = "object" /\ e[b].n = d[b].n
    BY <1>1, <1>2 DEF Container
  <2>2. \A j \in 1..d[b].n : Append(b, j) \in DOMAIN d
    BY <2>1 DEF WellFormed, Counted, Container
  <2>3. \A j \in 1..d[b].n : e[Append(b, j)].name = d[Append(b, j)].name
    BY <1>1, <2>2
  <2> QED BY <2>1, <2>3, SameNames
<1>3. e = [b \in DOMAIN e |-> e[b]]
  BY DEF Plain, WithNumber, e
<1> QED BY <1>2, <1>3 DEF Plain, e

\* So does putting plain documents in an array.
LEMMA BatchPlain ==
  ASSUME NEW M, NEW T, NEW c, IsCall(c), c.op \in {"arrpush", "arrinsert"}, UsualCall(M, T, c),
         NEW d, WellFormed(d), Plain(M, d), NEW p \in DOMAIN d, d[p].t = "array",
         NEW i \in 1..(d[p].n + 1)
  PROVE  Plain(M, InsertItems(d, p, i, Parsed(c.jsons)))
<1> DEFINE s == Parsed(c.jsons)
<1>1. /\ c.jsons = [l \in 1..Len(c.jsons) |-> c.jsons[l]] /\ Len(c.jsons) \in Nat
      /\ \A l \in 1..Len(c.jsons) : IsJson(c.jsons[l])
  BY DEF IsCall
<1>2. WellFormed(InsertItems(d, p, i, s))
  BY <1>1, BatchWellFormed
<1>3. Len(s) \in 0..Len(c.jsons) /\ \A l \in 1..Len(s) : s[l] = c.jsons[l] /\ c.jsons[l] # BadJson
  BY <1>1, ParsedType
<1> HIDE DEF s
<1>4. Len(s) \in Nat /\ \A l \in 1..Len(s) : l \in 1..Len(c.jsons)
  BY <1>1, <1>3
<1>5. \A l \in 1..Len(s) : Labelled(s[l]) /\ Plain(M, s[l])
  BY <1>1, <1>3, <1>4 DEF UsualCall, IsJson, WellFormed
<1>6. PICK k \in Nat : k = Len(s) /\ \A l \in 1..k : Labelled(s[l]) /\ Plain(M, s[l])
  BY <1>4, <1>5
<1>7. i \in Position /\ d[p].t # "object" /\ d[p].t \in Container
  <2>1. d[p].n \in Nat
    BY DEF WellFormed, Counted, Container
  <2> QED BY <2>1 DEF Position, Container
<1> QED BY <1>2, <1>6, <1>7, InsertPlain DEF s

\* Every command leaves a plain value.
LEMMA DelPlain ==
  ASSUME NEW M, NEW c, c.path \in Path, NEW v, IsValue(v), PlainValue(M, v)
  PROVE  PlainValue(M, DelEffect(c, v).val)
<1> DEFINE ptr   == PathToPointer(c.path)
           patch == PatchRemove(v.root, ptr)
           old   == DetachPath(v.root, ptr)
           pl    == CHOOSE x \in old : TRUE
<1>1. CASE v = Empty \/ v = Foreign
  BY <1>1 DEF DelEffect, OnDoc, Answer
<1>2. CASE v # Empty /\ v # Foreign
  <2>1. ptr \in Pointer /\ WellFormed(v.root) /\ Plain(M, v.root) /\ v = Doc(v.root)
    BY <1>2, PathType, ValueIsDoc DEF PlainValue
  <2>2. DelEffect(c, v) =
        IF c.path.style = "broken"    THEN Answer(v, Error("path"))
        ELSE IF IsRoot(ptr)           THEN Commit(Empty, Number(1))
        ELSE IF patch.status # 0      THEN Answer(Doc(patch.doc), PatchError(patch.status))
        ELSE Commit(DropIfChildless(patch.doc), Number(1))
    BY <1>2 DEF DelEffect, OnDoc
  <2>3. Plain(M, patch.doc)
    <3>1. CASE old = {}
      BY <2>1, <3>1 DEF PatchRemove, Patched
    <3>2. CASE old # {}
      <4>1. patch.doc = Without(v.root, pl) /\ pl \in old
        BY <3>2 DEF PatchRemove, Patched
      <4> HIDE DEF pl, ptr, patch
      <4>2. PICK p \in DOMAIN v.root, i \in Int :
              /\ pl = <<p, i>> /\ i \in 1..v.root[p].n
              /\ v.root[p].t \in Container /\ v.root[p].n \in Nat
        BY <2>1, <4>1, DetachPathType
      <4>3. i \in Position /\ i + 1 - 1 <= v.root[p].n /\ 1 <= v.root[p].n
        BY <4>2 DEF Position
      <4>4. patch.doc = DetachItems(v.root, p, i, 1)
        BY <4>1, <4>2 DEF Without
      <4> QED BY <2>1, <4>2, <4>3, <4>4, DetachPlain
    <3> QED BY <3>1, <3>2
  <2>4. PlainValue(M, Empty)
    BY DEF PlainValue
  <2> HIDE DEF ptr, patch
  <2> QED BY <2>2, <2>3, <2>4, DocPlain DEF Answer, Commit
<1> QED BY <1>1, <1>2

\* The reads keep it plain, and so do the commands on scalars.
LEMMA ScalarsPlain ==
  ASSUME NEW M, NEW c, c.path \in Path, NEW v, IsValue(v), PlainValue(M, v)
  PROVE  /\ PlainValue(M, GetEffect(c, v).val) /\ PlainValue(M, TypeEffect(c, v).val)
         /\ PlainValue(M, StrLenEffect(c, v).val) /\ PlainValue(M, ArrLenEffect(c, v).val)
         /\ PlainValue(M, IncrByEffect(c, v).val) /\ PlainValue(M, StrAppendEffect(c, v).val)
<1> DEFINE a == Node(c, v)
<1>1. \A r : PlainValue(M, Answer(v, r).val)
  BY DEF Answer
<1>2. PlainValue(M, GetEffect(c, v).val) /\ PlainValue(M, TypeEffect(c, v).val)
  BY DEF GetEffect, TypeEffect, OnDoc, Answer
<1>3. PlainValue(M, StrLenEffect(c, v).val) /\ PlainValue(M, ArrLenEffect(c, v).val)
  BY <1>1, OnNodePlain DEF StrLenEffect, ArrLenEffect
<1>4. ASSUME NEW t \in Scalar, Reaches(c, v, t), NEW n, NEW r
      PROVE  PlainValue(M, Commit(Doc(WithNumber(v.root, a, n)), r).val)
  <2>1. WellFormed(v.root) /\ Plain(M, v.root) /\ a \in DOMAIN v.root /\ v.root[a].t = t
    BY <1>4, ReachedIs DEF PlainValue, Reaches
  <2>2. v.root[a].t \notin Container
    BY <1>4, <2>1 DEF Scalar, Container
  <2> HIDE DEF a
  <2>3. Plain(M, WithNumber(v.root, a, n))
    BY <2>1, <2>2, NumberPlain
  <2> QED BY <2>3, DocPlain DEF Commit
<1>5. PlainValue(M, IncrByEffect(c, v).val)
  <2> DEFINE total == v.root[a].n + c.by
             after == WithNumber(v.root, a, total)
             out   == ~(Finite(v.root[a].n) /\ Finite(c.by) /\ Finite(total))
             done  == Commit(Doc(after), Bulk(Subtree(after, a)))
             then  == IF out THEN Answer(v, Error("overflow")) ELSE done
  <2>1. Reaches(c, v, "number") => PlainValue(M, then.val)
    <3>1. Reaches(c, v, "number") => PlainValue(M, done.val)
      <4>1. "number" \in Scalar
        BY DEF Scalar
      <4> HIDE DEF a, total
      <4> QED BY <1>4, <4>1 DEF a
    <3> HIDE DEF out, done
    <3> QED BY <1>1, <3>1
  <2>2. IncrByEffect(c, v) = IF c.by = NotInt THEN Answer(v, Error("range"))
                             ELSE OnNode(c, v, Error("no key"), "number", then)
    BY DEF IncrByEffect
  <2> HIDE DEF then
  <2>3. PlainValue(M, OnNode(c, v, Error("no key"), "number", then).val)
    BY <2>1, OnNodePlain, Zenon
  <2> QED BY <1>1, <2>2, <2>3, Zenon
<1>6. PlainValue(M, StrAppendEffect(c, v).val)
  <2> DEFINE total == v.root[a].n + c.seen
             then  == Commit(Doc(WithNumber(v.root, a, total)), Number(v.root[a].n + c.len))
  <2>1. Reaches(c, v, "string") => PlainValue(M, then.val)
    <3>1. "string" \in Scalar
      BY DEF Scalar
    <3> HIDE DEF a, total
    <3> QED BY <1>4, <3>1 DEF a
  <2>2. StrAppendEffect(c, v) = OnNode(c, v, Number(-1), "string", then)
    BY DEF StrAppendEffect
  <2> HIDE DEF then
  <2> QED BY <2>1, <2>2, OnNodePlain
<1> QED BY <1>2, <1>3, <1>5, <1>6

\* The calls that add elements.
LEMMA BatchesPlain ==
  ASSUME NEW M, NEW T, NEW c, IsCall(c), c.op \in {"arrpush", "arrinsert"}, UsualCall(M, T, c),
         NEW v, IsValue(v), PlainValue(M, v)
  PROVE  PlainValue(M, Effect(c, v).val)
<1> DEFINE a     == Node(c, v)
           d     == v.root
           n     == v.root[Node(c, v)].n
           index == FromEnd(c.index, n)
           put(i) == Doc(InsertItems(d, a, i, Parsed(c.jsons)))
           short == Len(Parsed(c.jsons)) < Len(c.jsons)
           told  == Number(n + Len(c.jsons))
<1>1. c.path \in Path
  BY DEF IsCall
<1>2. \A w, r : Answer(w, r).val = w /\ Commit(w, r).val = w
  BY DEF Answer, Commit
<1>3. ASSUME Reaches(c, v, "array"), NEW i \in 1..(n + 1)
      PROVE  PlainValue(M, put(i))
  <2>1. WellFormed(d) /\ Plain(M, d) /\ a \in DOMAIN d /\ d[a].t = "array"
    BY <1>1, <1>3, ReachedIs DEF PlainValue, Reaches
  <2> HIDE DEF a
  <2>2. i \in 1..(d[a].n + 1)
    BY <1>3 DEF a
  <2>3. Plain(M, InsertItems(d, a, i, Parsed(c.jsons)))
    BY <2>1, <2>2, BatchPlain
  <2> QED BY <2>3, DocPlain
<1>4. Reaches(c, v, "array") => n \in Nat
  BY <1>1, ReachedIs DEF Container
<1>5. CASE c.op = "arrpush"
  <2> DEFINE then == IF short THEN Answer(put(n + 1), Error("json")) ELSE Commit(put(n + 1), told)
  <2>1. Effect(c, v) = OnNode(c, v, Number(-1), "array", then)
    BY <1>5 DEF Effect, ArrPushEffect, AddItems, Size
  <2>2. Reaches(c, v, "array") => PlainValue(M, then.val)
    <3>1. Reaches(c, v, "array") => n + 1 \in 1..(n + 1)
      BY <1>4
    <3>2. then.val = put(n + 1)
      BY <1>2
    <3> HIDE DEF n, put, then
    <3> QED BY <1>3, <3>1, <3>2
  <2> HIDE DEF then
  <2> QED BY <2>1, <2>2, OnNodePlain
<1>6. CASE c.op = "arrinsert"
  <2> DEFINE then == IF c.index = NotInt THEN Answer(v, Error("range"))
                     ELSE IF index \notin 0..n THEN Answer(v, Error("outflow"))
                     ELSE IF short THEN Answer(put(index + 1), Error("json"))
                     ELSE Commit(put(index + 1), told)
  <2>1. Effect(c, v) = OnNode(c, v, Number(-1), "array", then)
    BY <1>6 DEF Effect, ArrInsertEffect, Size
  <2>2. Reaches(c, v, "array") => PlainValue(M, then.val)
    <3>1. Reaches(c, v, "array") /\ index \in 0..n => index + 1 \in 1..(n + 1)
      <4> HIDE DEF index
      <4> QED BY <1>4
    <3>2. then.val \in {v, put(index + 1)}
      BY <1>2
    <3>3. index \notin 0..n => then.val = v
      BY <1>2
    <3> HIDE DEF n, put, then, index
    <3> QED BY <1>3, <3>1, <3>2, <3>3
  <2> HIDE DEF then
  <2> QED BY <2>1, <2>2, OnNodePlain
<1> QED BY <1>5, <1>6

\* Popping.
LEMMA PopPlain ==
  ASSUME NEW M, NEW c, IsCall(c), c.op = "arrpop", NEW v, IsValue(v), PlainValue(M, v)
  PROVE  PlainValue(M, ArrPopEffect(c, v).val)
<1> DEFINE a     == Node(c, v)
           index == FromEnd(c.index, Size(v.root, a))
           left  == DetachItems(v.root, a, index + 1, 1)
           then  == IF c.index = NotInt THEN Answer(v, Error("range"))
                    ELSE IF index \notin 0..(Size(v.root, a) - 1) THEN Answer(v, Error("outflow"))
                    ELSE Commit(DropIfChildless(left), Bulk(Subtree(v.root, Append(a, index + 1))))
<1>1. c.path \in Path
  BY DEF IsCall
<1>2. ArrPopEffect(c, v) = OnNode(c, v, Error("no key"), "array", then)
  BY DEF ArrPopEffect
<1>3. ASSUME Reaches(c, v, "array")
      PROVE  PlainValue(M, then.val)
  <2>1. WellFormed(v.root) /\ Plain(M, v.root) /\ a \in DOMAIN v.root /\ v.root[a].t = "array"
    BY <1>1, <1>3, ReachedIs DEF PlainValue, Reaches
  <2>2. v.root[a].t \in Container /\ v.root[a].n \in Nat /\ Size(v.root, a) = v.root[a].n
    BY <2>1 DEF WellFormed, Counted, Container, Size
  <2>3. index \in 0..(Size(v.root, a) - 1) => PlainValue(M, DropIfChildless(left))
    <3> HIDE DEF a, index
    <3>1. ASSUME index \in 0..(Size(v.root, a) - 1)
          PROVE  /\ index + 1 \in Position /\ index + 1 + 1 - 1 <= v.root[a].n
                 /\ 1 <= v.root[a].n
      BY <2>2, <3>1 DEF Position
    <3>2. index \in 0..(Size(v.root, a) - 1) => Plain(M, left)
      BY <2>1, <2>2, <3>1, DetachPlain
    <3> HIDE DEF left
    <3> QED BY <3>2, DocPlain
  <2>4. then.val = IF c.index = NotInt \/ index \notin 0..(Size(v.root, a) - 1) THEN v
                   ELSE DropIfChildless(left)
    BY DEF Answer, Commit
  <2> HIDE DEF then, left, index
  <2> QED BY <2>3, <2>4
<1> HIDE DEF then
<1> QED BY <1>2, <1>3, OnNodePlain, Zenon

\* Trimming.
LEMMA TrimPlain ==
  ASSUME NEW M, NEW c, IsCall(c), c.op = "arrtrim", NEW v, IsValue(v), PlainValue(M, v)
  PROVE  PlainValue(M, ArrTrimEffect(c, v).val)
<1> DEFINE a     == Node(c, v)
           size  == Size(v.root, a)
           kept  == c.stop - c.start + 1
           tail  == DetachItems(v.root, a, 1, c.start)
           cut   == DetachItems(tail, a, kept + 1, size - c.start - kept)
           after == DropIfChildless(cut)
           then  == IF NotInt \in {c.start, c.stop} THEN Answer(v, Error("range"))
                    ELSE IF ~(0 <= c.start /\ c.start <= c.stop /\ c.stop < size)
                         THEN Answer(v, Error("outflow"))
                    ELSE Commit(after, IF after = Empty THEN Garbage
                                        ELSE Number(Size(after.root, a)))
<1>1. c.path \in Path /\ c.start \in Int \cup {NotInt} /\ c.stop \in Int \cup {NotInt}
  BY DEF IsCall
<1>2. ASSUME Reaches(c, v, "array") PROVE PlainValue(M, then.val)
  <2>1. WellFormed(v.root) /\ Plain(M, v.root) /\ a \in DOMAIN v.root /\ v.root[a].t = "array"
    BY <1>1, <1>2, ReachedIs DEF PlainValue, Reaches
  <2>2. v.root[a].t \in Container /\ size \in Nat /\ size = v.root[a].n
    BY <2>1 DEF WellFormed, Counted, Container, Size
  <2>3. ASSUME NotInt \notin {c.start, c.stop}, 0 <= c.start, c.start <= c.stop, c.stop < size
        PROVE  PlainValue(M, after)
    <3>1. /\ c.start \in Nat /\ c.stop \in Nat /\ 1 \in Position
          /\ 1 + c.start - 1 <= v.root[a].n /\ c.start <= v.root[a].n
      BY <1>1, <2>2, <2>3 DEF Position
    <3>2. /\ WellFormed(tail) /\ a \in DOMAIN tail /\ tail[a].t \in Container
          /\ tail[a].n = size - c.start
      <4> HIDE DEF a
      <4> QED BY <2>1, <2>2, <3>1, DetachedContainer
    <3>3. Plain(M, tail)
      <4> HIDE DEF a
      <4> QED BY <2>1, <2>2, <3>1, DetachPlain
    <3>4. /\ kept + 1 \in Position /\ size - c.start - kept \in Nat
          /\ (kept + 1) + (size - c.start - kept) - 1 <= tail[a].n
          /\ size - c.start - kept <= tail[a].n
      BY <2>2, <2>3, <3>1, <3>2 DEF Position
    <3> HIDE DEF tail, kept, size, a
    <3>5. Plain(M, cut)
      BY <3>2, <3>3, <3>4, DetachPlain
    <3> HIDE DEF cut
    <3> QED BY <3>5, DocPlain
  <2>4. then.val = IF NotInt \in {c.start, c.stop}
                        \/ ~(0 <= c.start /\ c.start <= c.stop /\ c.stop < size)
                   THEN v ELSE after
    BY DEF Answer, Commit
  <2> HIDE DEF after, size, then
  <2> QED BY <2>3, <2>4
<1>3. ArrTrimEffect(c, v) = OnNode(c, v, Number(-1), "array", then)
  BY DEF ArrTrimEffect
<1> HIDE DEF then
<1> QED BY <1>2, <1>3, OnNodePlain

\* Every command on a key leaves a plain value.
LEMMA EffectPlain ==
  ASSUME NEW M, NEW T, ToldApart(M, T), NEW c, IsCall(c), c.op \in KeyOps, UsualCall(M, T, c),
         NEW v, IsValue(v), PlainValue(M, v)
  PROVE  PlainValue(M, Effect(c, v).val)
<1>1. c.path \in Path
  BY DEF IsCall
<1>2. CASE c.op = "set"
  <2>1. Effect(c, v) = SetEffect(c, v)
    BY <1>2 DEF Effect
  <2>2. CASE SetEffect(c, v).sent
    <3> DEFINE w == SetEffect(c, v).val
    <3>1. w = Doc(w.root) /\ ((w = Doc(c.json) /\ Plain(M, c.json)) \/ Plain(M, w.root))
      <4> DEFINE ptr == PathToPointer(c.path)
      <4>1. /\ Plain(M, c.json) /\ w = Doc(w.root)
            /\ \/ w = Doc(c.json)
               \/ \E p, h, i, name :
                    SetAt(M, v.root, w.root, Aim(ptr), LastTok(ptr), c.json, p, h, i, name)
        <5> HIDE DEF ptr, w
        <5> QED BY <1>2, <2>2, SetIs DEF ptr, w
      <4> HIDE DEF ptr, w
      <4> QED BY <4>1 DEF SetAt
    <3> HIDE DEF w
    <3>2. PlainValue(M, w)
      BY <3>1, DocPlain
    <3> QED BY <2>1, <3>2 DEF w
  <2>3. CASE ~SetEffect(c, v).sent
    BY <1>2, <2>1, <2>3, EffectSound
  <2> QED BY <2>2, <2>3
<1>3. CASE c.op \in {"get", "type", "strlen", "arrlen", "incrby", "strappend"}
  BY <1>1, <1>3, ScalarsPlain DEF Effect
<1>4. CASE c.op \in {"arrpush", "arrinsert"}
  BY <1>4, BatchesPlain
<1>5. CASE c.op = "del"
  BY <1>1, <1>5, DelPlain DEF Effect
<1>6. CASE c.op = "arrpop"
  BY <1>6, PopPlain DEF Effect
<1>7. CASE c.op = "arrtrim"
  BY <1>7, TrimPlain DEF Effect
<1>8. CASE c.op = "native"
  BY <1>8 DEF Effect, NativeEffect, Commit, IsCall, PlainValue
<1> QED BY <1>2, <1>3, <1>4, <1>5, <1>6, <1>7, <1>8 DEF KeyOps

\* So does every step.
LEMMA NextPlain ==
  ASSUME NEW M, NEW T, ToldApart(M, T), \A c \in Calls : UsualCall(M, T, c),
         TypeOK, DocsPlain(M), [Next]_vars
  PROVE  DocsPlain(M)'
<1>1. ASSUME NEW k \in Key, NEW c \in Calls, Write(k, c) \/ Read(k, c)
      PROVE  DocsPlain(M)'
  <2>1. /\ c.op \in KeyOps /\ IsCall(c) /\ UsualCall(M, T, c)
        /\ db' = [db EXCEPT ![k] = Effect(c, db[k]).val]
    BY <1>1, StepIsEffect, CallsAssumption
  <2>2. IsValue(db[k]) /\ PlainValue(M, db[k]) /\ DOMAIN db = Key
    BY DEF TypeOK, DocsPlain
  <2>3. PlainValue(M, Effect(c, db[k]).val)
    BY <2>1, <2>2, EffectPlain
  <2>4. \A j \in Key : db'[j] = IF j = k THEN Effect(c, db[k]).val ELSE db[j]
    BY <2>1, <2>2
  <2> QED BY <2>3, <2>4 DEF DocsPlain
<1>2. CASE UNCHANGED vars
  BY <1>2 DEF vars, DocsPlain
<1>3. ASSUME NEW c \in Calls, Mget(c)
      PROVE  DocsPlain(M)'
  BY <1>3 DEF Mget, DocsPlain
<1> QED BY <1>1, <1>2, <1>3 DEF Next

\* So every document there ever is is plain.
LEMMA AlwaysPlain ==
  ASSUME NEW M, NEW T, ToldApart(M, T), \A c \in Calls : UsualCall(M, T, c)
  PROVE  Spec => [](TypeOK /\ DocsPlain(M))
<1>1. Init => TypeOK /\ DocsPlain(M)
  BY InitTypeOK DEF Init, DocsPlain, PlainValue
<1>2. TypeOK /\ DocsPlain(M) /\ [Next]_vars => (TypeOK /\ DocsPlain(M))'
  BY NextTypeOK, NextPlain
<1> QED BY <1>1, <1>2, PTL DEF Spec

\* The step that a call on a key makes.
LEMMA AckedStep ==
  ASSUME TypeOK, Next, NEW op \in {"set", "del"}, NEW k \in Key, Acked(op, k)
  PROVE  /\ call' \in Calls /\ call'.op = op /\ IsCall(call') /\ IsValue(db[k])
         /\ Effect(call', db[k]).sent /\ db'[k] = Effect(call', db[k]).val
<1>1. ASSUME NEW c \in Calls, Mget(c)
      PROVE  FALSE
  BY <1>1 DEF Mget, Acked
<1>2. PICK j \in Key, c \in Calls : Write(j, c) \/ Read(j, c)
  BY <1>1 DEF Next
<1>3. /\ db' = [db EXCEPT ![j] = Effect(c, db[j]).val]
      /\ call' = c /\ sent' = Effect(c, db[j]).sent
  BY <1>2, StepIsEffect
<1>4. on' = {j}
  BY <1>2 DEF Write, Read, Set, Get, Del, Type, StrLen, ArrLen, IncrBy, StrAppend, ArrPush,
              ArrInsert, ArrPop, ArrTrim, Native, Perform
<1>5. j = k /\ sent' /\ call'.op = op
  BY <1>4 DEF Acked
<1>6. DOMAIN db = Key /\ IsValue(db[k]) /\ IsCall(c)
  BY CallsAssumption DEF TypeOK
<1> QED BY <1>3, <1>5, <1>6

(***************************************************************************)
(* JSON.SET is read back.                                                  *)
(***************************************************************************)

\* The document of its own at the root is the document itself.
LEMMA RootSubtree ==
  ASSUME NEW d, IsTree(d)
  PROVE  Subtree(d, Root) = d
<1> DEFINE s == Subtree(d, Root)
<1>1. Labelled(d) /\ Root \in DOMAIN d /\ d[Root].name = NoName /\ d = [a \in DOMAIN d |-> d[a]]
  BY DEF IsTree, WellFormed, Rooted
<1>2. /\ s = [a \in DOMAIN s |-> s[a]]
      /\ \A a : a \in DOMAIN s <=> a \in Address /\ Root \o a \in DOMAIN d
      /\ \A a \in DOMAIN s :
           s[a] = IF a = Root THEN [d[Root] EXCEPT !.name = NoName] ELSE d[Root \o a]
  BY <1>1, SubtreeIs
<1> HIDE DEF s
<1>3. \A a \in Address : Root \o a = a
  BY DEF Address, Root
<1>4. d[Root] = [d[Root] EXCEPT !.name = NoName]
  BY <1>1 DEF Labelled, Label
<1>5. DOMAIN s = DOMAIN d
  <2>1. \A a : a \in DOMAIN s <=> a \in DOMAIN d
    BY <1>1, <1>2, <1>3 DEF Labelled
  <2> QED BY <2>1
<1>6. \A a \in DOMAIN d : s[a] = d[a]
  BY <1>1, <1>2, <1>3, <1>4, <1>5 DEF Labelled
<1> QED BY <1>1, <1>2, <1>5, <1>6 DEF s

\* What a path leads to is one document or none.
LEMMA ValueIs ==
  ASSUME NEW d, WellFormed(d), NEW t \in Seq(Tok), NEW a \in DOMAIN d, Resolves(d, t, a)
  PROVE  ValueAt(d, t) = {Subtree(d, a)}
<1>1. \A b \in DOMAIN d : Resolves(d, t, b) => b = a
  BY ResolvesOnce
<1>2. {b \in DOMAIN d : Resolves(d, t, b)} = {a}
  BY <1>1
<1> QED BY <1>2 DEF ValueAt

\* The empty path leads to the root.
LEMMA RootValue ==
  ASSUME NEW d, IsTree(d)
  PROVE  ValueAt(d, <<>>) = {d}
<1>1. WellFormed(d) /\ Root \in DOMAIN d /\ <<>> \in Seq(Tok)
  BY DEF IsTree, WellFormed, Rooted
<1>2. Resolves(d, <<>>, Root)
  BY DEF Resolves, Root
<1> QED BY <1>1, <1>2, ValueIs, RootSubtree

\* Where SetAt has put the value: at the path, or at the end of an array.
LEMMA SetIsRead ==
  ASSUME NEW M, NEW T, ToldApart(M, T), NEW d, WellFormed(d), Plain(M, d),
         NEW ptr \in Pointer, ptr.toks # <<>>, LastTok(ptr) \in T,
         NEW e, NEW value, NEW p, NEW h, NEW i, NEW name,
         SetAt(M, d, e, Aim(ptr), LastTok(ptr), value, p, h, i, name)
  PROVE  LET t == Aim(ptr)
         IN /\ WellFormed(e) /\ p \in DOMAIN e /\ e[p].t = d[p].t /\ p \in Address
            /\ Resolves(e, Parent(t), p)
            /\ Appends(e, t) <=> LastTok(ptr) = Dash /\ d[p].t = "array"
            /\ Appends(e, t) => h = 0 /\ Subtree(e, Append(p, Size(e, p))) = value
            /\ ~Appends(e, t) =>
                 /\ Selects(e, p, LastTok(ptr), i) /\ i \in 1..e[p].n
                 /\ Append(p, i) \in DOMAIN e
                 /\ Resolves(e, t, Append(p, i)) /\ Subtree(e, Append(p, i)) = value
<1> DEFINE t   == Aim(ptr)
           tok == LastTok(ptr)
<1>1. /\ t \in Seq(Tok) /\ Len(t) \in Nat \ {0} /\ t[Len(t)] = tok /\ Parent(t) \in Seq(Tok)
  BY HolderIs, Zenon
<1> HIDE DEF t, tok
<1>2. /\ p \in DOMAIN d /\ d[p].t \in Container /\ Resolves(d, Parent(t), p)
      /\ IF d[p].t = "object" THEN name = SoughtName[tok] ELSE name = ValueName
      /\ Placed(d, e, p, h, i, name, value) /\ Plain(M, e)
  BY DEF SetAt, t, tok
<1>3. h # 0 => /\ h \in 1..d[p].n /\ Selects(d, p, tok, h)
               /\ i = (IF d[p].t = "array" THEN h ELSE d[p].n) /\ e[p].n = d[p].n
  BY DEF SetAt, tok
<1>4. h = 0 => /\ i = d[p].n + 1 /\ e[p].n = d[p].n + 1
               /\ d[p].t = "array" => tok = Dash \/ Index[tok] = d[p].n
  BY DEF SetAt, tok
<1>5. /\ WellFormed(e) /\ p \in DOMAIN e /\ e[p].t = d[p].t /\ i \in 1..e[p].n
      /\ Child(e, p, i) = [name |-> name, value |-> value] /\ KeptAbove(d, e, p)
  BY <1>2 DEF Placed
<1>6. /\ e[Append(p, i)].name = name /\ Subtree(e, Append(p, i)) = value
  BY <1>5 DEF Child
<1>7. Resolves(e, Parent(t), p) /\ p \in Address
  BY <1>2, <1>5, PathKept DEF WellFormed, Labelled
<1>8. i \in Position /\ d[p].n \in Nat /\ e[p].n \in Nat /\ Append(p, i) \in DOMAIN e
  BY <1>2, <1>5 DEF Position, WellFormed, Counted
<1>9. Appends(e, t) <=> tok = Dash /\ d[p].t = "array"
  <2>1. t # <<>>
    BY <1>1
  <2>2. \A q \in DOMAIN e : Resolves(e, Parent(t), q) => q = p
    BY <1>1, <1>5, <1>7, ResolvesOnce
  <2> QED BY <1>1, <1>5, <1>7, <2>1, <2>2 DEF Appends
<1>10. ASSUME tok = Dash, d[p].t = "array"
       PROVE  h = 0 /\ i = Size(e, p)
  <2>1. ~Selects(d, p, tok, h)
    BY <1>10, TokAssumption DEF Selects
  <2> QED BY <1>3, <1>4, <2>1 DEF Size
<1>11. ASSUME ~(tok = Dash /\ d[p].t = "array")
       PROVE  Selects(e, p, tok, i)
  <2>1. CASE d[p].t = "array"
    <3>1. h # 0 => Index[tok] >= 0 /\ i = Index[tok] + 1
      BY <1>3, <2>1 DEF Selects
    <3>2. h = 0 => Index[tok] >= 0 /\ i = Index[tok] + 1
      BY <1>4, <1>8, <1>11, <2>1
    <3> QED BY <1>5, <2>1, <3>1, <3>2, <1>8 DEF Selects, Size
  <2>2. CASE d[p].t = "object"
    <3>1. name = SoughtName[tok] /\ e[p].t \in Container /\ tok \in T /\ e[p].t = "object"
      BY <1>2, <1>5, <2>2 DEF tok
    <3> QED BY <1>2, <1>5, <1>6, <3>1, SelectsIs
  <2> QED BY <1>2, <2>1, <2>2 DEF Container
<1>12. ASSUME ~(tok = Dash /\ d[p].t = "array")
       PROVE  Resolves(e, t, Append(p, i))
  BY <1>1, <1>7, <1>8, <1>11, <1>12, ResolvesStep
<1> QED BY <1>5, <1>6, <1>7, <1>8, <1>9, <1>10, <1>11, <1>12 DEF t, tok

\* An acknowledged JSON.SET is read back.
LEMMA SetReads ==
  ASSUME NEW M, NEW T, ToldApart(M, T),
         NEW c, IsCall(c), c.op = "set", UsualCall(M, T, c),
         NEW v, IsValue(v), PlainValue(M, v), SetEffect(c, v).sent
  PROVE  LET d == SetEffect(c, v).val.root
             t == Target(c.path)
         IN IF Appends(d, t)
            THEN \E p \in DOMAIN d : /\ Resolves(d, Parent(t), p)
                                     /\ Subtree(d, Append(p, Size(d, p))) = c.json
            ELSE ValueAt(d, t) = {c.json}
<1> DEFINE ptr == PathToPointer(c.path)
           w   == SetEffect(c, v).val
           d   == SetEffect(c, v).val.root
           t   == Target(c.path)
<1>1. /\ IsTree(c.json)
      /\ \/ IsRoot(ptr) /\ w = Doc(c.json)
         \/ /\ ptr.toks # <<>> /\ WellFormed(v.root) /\ Plain(M, v.root)
            /\ \E p, h, i, name :
                 SetAt(M, v.root, d, Aim(ptr), LastTok(ptr), c.json, p, h, i, name)
  <2> HIDE DEF ptr, w
  <2> QED BY SetIs DEF ptr, w
<1>2. c.path \in Path
  BY DEF IsCall
<1>3. /\ ptr \in Pointer /\ Aim(ptr) = t
  BY <1>2, PointerIs
<1>4. ptr.toks # <<>> => LastTok(ptr) \in T
  BY <1>2, PointerIs
<1>5. CASE IsRoot(ptr) /\ w = Doc(c.json)
  <2>1. t = <<>> /\ d = c.json
    BY <1>3, <1>5, DocIs DEF IsRoot, Aim
  <2> HIDE DEF t, d, ptr
  <2>2. ~Appends(d, t)
    BY <2>1 DEF Appends
  <2>3. ValueAt(d, t) = {c.json}
    BY <1>1, <2>1, RootValue
  <2> QED BY <2>2, <2>3 DEF t, d
<1>6. CASE /\ ptr.toks # <<>> /\ WellFormed(v.root) /\ Plain(M, v.root)
           /\ \E p, h, i, name :
                SetAt(M, v.root, d, Aim(ptr), LastTok(ptr), c.json, p, h, i, name)
  <2>1. PICK p, h, i, name :
          SetAt(M, v.root, d, Aim(ptr), LastTok(ptr), c.json, p, h, i, name)
    BY <1>6
  <2> HIDE DEF d, ptr, t
  <2>2. /\ WellFormed(d) /\ p \in DOMAIN d
        /\ Resolves(d, Parent(t), p)
        /\ Appends(d, t) => Subtree(d, Append(p, Size(d, p))) = c.json
        /\ ~Appends(d, t) => /\ Append(p, i) \in DOMAIN d
                             /\ Resolves(d, t, Append(p, i)) /\ Subtree(d, Append(p, i)) = c.json
    BY <1>3, <1>4, <1>6, <2>1, SetIsRead
  <2>3. t \in Seq(Tok)
    BY <1>3, <1>6, HolderIs
  <2>4. ~Appends(d, t) => ValueAt(d, t) = {c.json}
    BY <2>2, <2>3, ValueIs
  <2> QED BY <2>2, <2>4 DEF d, t
<1> QED BY <1>1, <1>5, <1>6

\* JSON.SET that answers OK has stored its argument where a reader of the same
\* path finds it, whenever the path becomes a pointer.
THEOREM SetThenRead ==
  ASSUME NEW M, NEW T, ToldApart(M, T), \A c \in Calls : UsualCall(M, T, c)
  PROVE  Spec => SetReadsBack
<1> DEFINE Read1 == \A k \in Key : Acked("set", k) /\ ~PathToPointer(call'.path).lead =>
                      ReadsBack(db'[k].root, call')
<1>1. TypeOK /\ DocsPlain(M) /\ [Next]_vars => [Read1]_vars
  <2> SUFFICES ASSUME TypeOK, DocsPlain(M), Next, NEW k \in Key,
                      Acked("set", k), ~PathToPointer(call'.path).lead
               PROVE  ReadsBack(db'[k].root, call')
    OBVIOUS
  <2>1. /\ call' \in Calls /\ call'.op = "set" /\ IsCall(call') /\ IsValue(db[k])
        /\ Effect(call', db[k]).sent /\ db'[k] = Effect(call', db[k]).val
    BY AckedStep
  <2>2. Effect(call', db[k]) = SetEffect(call', db[k])
    BY <2>1 DEF Effect
  <2>3. PlainValue(M, db[k]) /\ UsualCall(M, T, call')
    BY <2>1 DEF DocsPlain
  <2>4. Target(call'.path) = call'.path.toks
    BY DEF Target
  <2> QED BY <2>1, <2>2, <2>3, <2>4, SetReads DEF ReadsBack
<1>2. SetReadsBack <=> [][Read1]_vars
  BY DEF SetReadsBack
<1> HIDE DEF Read1
<1> QED BY <1>1, <1>2, AlwaysPlain, PTL DEF Spec

(***************************************************************************)
(* JSON.SET twice is JSON.SET once.                                        *)
(***************************************************************************)

\* What one item put in, or taken out, makes of the nodes.
LEMMA PutNodes ==
  ASSUME NEW d, Labelled(d), NEW p \in Address, NEW i \in Position, NEW x, Labelled(x),
         NEW e, e = InsertItems(d, p, i, <<x>>)
  PROVE  /\ e = [b \in DOMAIN e |-> e[b]]
         /\ \A b : b \in DOMAIN e <=>
              /\ b \in Address
              /\ IF InBlock(p, i, 1, b) THEN Rest(p, b) \in DOMAIN x
                 ELSE Shift(p, i, -1, b) \in DOMAIN d
         /\ \A b \in DOMAIN e : e[b] = IF b = p THEN Resized(d[p], 1)
                                       ELSE IF InBlock(p, i, 1, b) THEN x[Rest(p, b)]
                                       ELSE d[Shift(p, i, -1, b)]
<1> DEFINE subs == <<x>>
<1>1. PICK k \in Nat : k = 1 /\ k = Len(subs) /\ \A l \in 1..k : subs[l] = x
  OBVIOUS
<1>2. e = [b \in DOMAIN e |-> e[b]]
  BY DEF InsertItems
<1> HIDE DEF subs
<1>3. \A l \in 1..k : Labelled(subs[l])
  BY <1>1
<1>4. /\ \A b : b \in DOMAIN e <=>
           /\ b \in Address
           /\ IF InBlock(p, i, k, b) THEN Rest(p, b) \in DOMAIN subs[Turn(p, b) - i + 1]
              ELSE Shift(p, i, -k, b) \in DOMAIN d
      /\ \A b \in DOMAIN e : e[b] = IF b = p THEN Resized(d[p], k)
                                    ELSE IF InBlock(p, i, k, b)
                                    THEN subs[Turn(p, b) - i + 1][Rest(p, b)]
                                    ELSE d[Shift(p, i, -k, b)]
  <2>1. /\ Labelled(d) /\ p \in Address /\ i \in Position
        /\ k \in Nat /\ k = Len(subs) /\ \A m \in 1..k : Labelled(subs[m])
    BY <1>1, <1>3
  <2> DEFINE g == InsertItems(d, p, i, subs)
  <2>2. /\ \A b : b \in DOMAIN g <=>
             /\ b \in Address
             /\ IF InBlock(p, i, k, b) THEN Rest(p, b) \in DOMAIN subs[Turn(p, b) - i + 1]
                ELSE Shift(p, i, -k, b) \in DOMAIN d
        /\ \A b \in DOMAIN g : g[b] = IF b = p THEN Resized(d[p], k)
                                      ELSE IF InBlock(p, i, k, b)
                                      THEN subs[Turn(p, b) - i + 1][Rest(p, b)]
                                      ELSE d[Shift(p, i, -k, b)]
    BY ONLY <2>1, InsertDomain, SMTT(30)
  <2>3. e = g
    BY DEF subs
  <2> HIDE DEF g
  <2> QED BY <2>2, <2>3
<1>5. \A b \in Address : InBlock(p, i, 1, b) => subs[Turn(p, b) - i + 1] = x
  <2>1. TAKE b \in Address
  <2>2. InBlock(p, i, 1, b) => Turn(p, b) \in i..(i + 1 - 1)
    BY <2>1, BlockAddress
  <2>3. InBlock(p, i, 1, b) => Turn(p, b) - i + 1 = 1
    BY <2>2 DEF Position
  <2>4. 1 \in 1..k
    BY <1>1
  <2> QED BY <1>1, <2>3, <2>4
<1>6. ASSUME NEW b
      PROVE  b \in DOMAIN e <=>
               /\ b \in Address
               /\ IF InBlock(p, i, 1, b) THEN Rest(p, b) \in DOMAIN x
                  ELSE Shift(p, i, -1, b) \in DOMAIN d
  <2>1. k = 1
    BY <1>1
  <2> QED BY <1>4, <1>5, <2>1
<1>7. ASSUME NEW b \in DOMAIN e
      PROVE  e[b] = IF b = p THEN Resized(d[p], 1)
                    ELSE IF InBlock(p, i, 1, b) THEN x[Rest(p, b)]
                    ELSE d[Shift(p, i, -1, b)]
  <2>1. k = 1
    BY <1>1
  <2> QED BY <1>4, <1>5, <2>1
<1> QED BY <1>2, <1>6, <1>7

\* The nodes there are once a child is taken.
LEMMA TakenNodes ==
  ASSUME NEW d, Labelled(d), NEW p \in Address, NEW i \in Position,
         NEW e, e = Without(d, <<p, i>>)
  PROVE  /\ e = [b \in DOMAIN e |-> e[b]]
         /\ \A b : b \in DOMAIN e <=> b \in Address /\ Shift(p, i, 1, b) \in DOMAIN d
         /\ \A b \in DOMAIN e :
              e[b] = IF b = p THEN Resized(d[p], -1) ELSE d[Shift(p, i, 1, b)]
<1>1. e = DetachItems(d, p, i, 1)
  BY DEF Without
<1>2. e = [b \in DOMAIN e |-> e[b]]
  BY <1>1 DEF DetachItems
<1>3. 1 \in Nat
  OBVIOUS
<1>4. /\ \A b : b \in DOMAIN e <=> b \in Address /\ Shift(p, i, 1, b) \in DOMAIN d
      /\ \A b \in DOMAIN e : e[b] = IF b = p THEN Resized(d[p], -1) ELSE d[Shift(p, i, 1, b)]
  <2> DEFINE g == DetachItems(d, p, i, 1)
  <2>1. /\ \A b : b \in DOMAIN g <=> b \in Address /\ Shift(p, i, 1, b) \in DOMAIN d
        /\ \A b \in DOMAIN g : g[b] = IF b = p THEN Resized(d[p], -1) ELSE d[Shift(p, i, 1, b)]
    BY <1>3, DetachDomain
  <2> HIDE DEF g
  <2> QED BY <1>1, <2>1 DEF g
<1> QED BY <1>2, <1>4

\* A label made longer and shorter again is the same.
LEMMA ResizedBack ==
  ASSUME NEW label \in Label
  PROVE  Resized(Resized(label, -1), 1) = label /\ Resized(Resized(label, 1), -1) = label
<1>1. \A u, w \in Label : u.t = w.t /\ u.n = w.n /\ u.name = w.name => u = w
  BY DEF Label
<1>2. \A u \in Label, k \in Int : /\ Resized(u, k) \in Label /\ Resized(u, k).t = u.t
                                 /\ Resized(u, k).n = u.n + k /\ Resized(u, k).name = u.name
  BY ResizedLabel
<1>3. label.n \in Int /\ 1 \in Int /\ -1 \in Int
  BY DEF Label
<1> DEFINE up   == Resized(label, 1)
           down == Resized(label, -1)
<1>4. /\ up \in Label /\ up.t = label.t /\ up.n = label.n + 1 /\ up.name = label.name
      /\ down \in Label /\ down.t = label.t /\ down.n = label.n + (-1) /\ down.name = label.name
  BY <1>2, <1>3
<1> HIDE DEF up, down
<1>5. /\ Resized(up, -1) \in Label /\ Resized(up, -1).t = up.t
      /\ Resized(up, -1).n = up.n + (-1) /\ Resized(up, -1).name = up.name
  BY <1>2, <1>3, <1>4
<1>6. /\ Resized(down, 1) \in Label /\ Resized(down, 1).t = down.t
      /\ Resized(down, 1).n = down.n + 1 /\ Resized(down, 1).name = down.name
  BY <1>2, <1>3, <1>4
<1>7. Resized(up, -1).n = label.n /\ Resized(down, 1).n = label.n
  BY <1>3, <1>4, <1>5, <1>6
<1>8. Resized(up, -1) = label
  BY <1>1, <1>4, <1>5, <1>7
<1>9. Resized(down, 1) = label
  BY <1>1, <1>4, <1>6, <1>7
<1> QED BY <1>8, <1>9 DEF up, down

\* Taking out what was put in gives the document back.
LEMMA TakeBack ==
  ASSUME NEW d, WellFormed(d), d = [a \in DOMAIN d |-> d[a]], NEW p \in DOMAIN d,
         NEW i \in Position, NEW x, Labelled(x), Labelled(InsertItems(d, p, i, <<x>>))
  PROVE  Without(InsertItems(d, p, i, <<x>>), <<p, i>>) = d
<1> DEFINE e == InsertItems(d, p, i, <<x>>)
           f == Without(e, <<p, i>>)
<1>1. Labelled(d) /\ p \in Address /\ d[p] \in Label /\ d = [a \in DOMAIN d |-> d[a]]
  BY DEF WellFormed, Labelled
<1>2. /\ \A b : b \in DOMAIN e <=>
           /\ b \in Address
           /\ IF InBlock(p, i, 1, b) THEN Rest(p, b) \in DOMAIN x
              ELSE Shift(p, i, -1, b) \in DOMAIN d
      /\ \A b \in DOMAIN e : e[b] = IF b = p THEN Resized(d[p], 1)
                                    ELSE IF InBlock(p, i, 1, b) THEN x[Rest(p, b)]
                                    ELSE d[Shift(p, i, -1, b)]
  <2>1. e = InsertItems(d, p, i, <<x>>)
    OBVIOUS
  <2> HIDE DEF e
  <2> QED BY <1>1, <2>1, PutNodes
<1>3. Labelled(e)
  OBVIOUS
<1> HIDE DEF e
<1>4. /\ f = [b \in DOMAIN f |-> f[b]]
      /\ \A b : b \in DOMAIN f <=> b \in Address /\ Shift(p, i, 1, b) \in DOMAIN e
      /\ \A b \in DOMAIN f : f[b] = IF b = p THEN Resized(e[p], -1) ELSE e[Shift(p, i, 1, b)]
  <2>1. f = Without(e, <<p, i>>)
    OBVIOUS
  <2> HIDE DEF f
  <2> QED BY <1>1, <1>3, <2>1, TakenNodes
<1> HIDE DEF f
<1>5. \A b \in Address : LET s == Shift(p, i, 1, b)
                         IN s \in Address /\ ~InBlock(p, i, 1, s) /\ Shift(p, i, -1, s) = b
  BY <1>1, ShiftUp
<1>6. Shift(p, i, 1, p) = p /\ Shift(p, i, -1, p) = p /\ ~InBlock(p, i, 1, p)
  BY <1>1, <1>5, ItselfOutside, ShiftAppend DEF Position
<1>7. \A b : b \in DOMAIN f <=> b \in DOMAIN d
  <2>1. ASSUME NEW b \in Address
        PROVE  b \in DOMAIN f <=> b \in DOMAIN d
    <3> DEFINE s == Shift(p, i, 1, b)
    <3>1. s \in Address /\ ~InBlock(p, i, 1, s) /\ Shift(p, i, -1, s) = b
      BY <1>5
    <3>2. b \in DOMAIN f <=> s \in DOMAIN e
      BY <1>4
    <3> HIDE DEF s
    <3> QED BY <1>2, <3>1, <3>2
  <2> QED BY <1>1, <1>4, <2>1 DEF Labelled
<1>8. ASSUME NEW b \in DOMAIN d
      PROVE  f[b] = d[b]
  <2>1. b \in Address /\ b \in DOMAIN f
    BY <1>1, <1>7 DEF Labelled
  <2>2. CASE b = p
    <3>1. p \in DOMAIN e /\ e[p] = Resized(d[p], 1)
      BY <1>1, <1>2, <1>6
    <3> QED BY <1>1, <1>4, <2>1, <2>2, <3>1, ResizedBack
  <2>3. CASE b # p
    <3> DEFINE s == Shift(p, i, 1, b)
    <3>1. s \in Address /\ ~InBlock(p, i, 1, s) /\ Shift(p, i, -1, s) = b
      BY <1>5, <2>1
    <3>2. f[b] = e[s] /\ s \in DOMAIN e
      BY <1>4, <2>1, <2>3
    <3> HIDE DEF s
    <3>3. s # p
      BY <1>6, <2>3, <3>1
    <3> QED BY <1>2, <3>1, <3>2, <3>3
  <2> QED BY <2>2, <2>3
<1>9. DOMAIN f = DOMAIN d
  BY <1>7
<1>10. f = d
  BY <1>1, <1>4, <1>8, <1>9
<1> QED BY <1>10 DEF e, f

\* Putting back what was taken out gives the document back.
LEMMA PutBack ==
  ASSUME NEW d, WellFormed(d), d = [a \in DOMAIN d |-> d[a]], NEW p \in DOMAIN d,
         NEW i \in Position, Append(p, i) \in DOMAIN d, Labelled(Without(d, <<p, i>>)),
         NEW value, IsTree(value), NEW name,
         Child(d, p, i) = [name |-> name, value |-> value]
  PROVE  InsertItems(Without(d, <<p, i>>), p, i, <<Named(value, name)>>) = d
<1> DEFINE e == Without(d, <<p, i>>)
           x == Named(value, name)
           f == InsertItems(e, p, i, <<x>>)
           c == Append(p, i)
<1>1. /\ Labelled(d) /\ p \in Address /\ d[p] \in Label /\ d = [a \in DOMAIN d |-> d[a]]
      /\ c \in DOMAIN d /\ c \in Address /\ d[c] \in Label /\ Labelled(e)
  BY DEF WellFormed, Labelled
<1>2. /\ \A b : b \in DOMAIN e <=> b \in Address /\ Shift(p, i, 1, b) \in DOMAIN d
      /\ \A b \in DOMAIN e : e[b] = IF b = p THEN Resized(d[p], -1) ELSE d[Shift(p, i, 1, b)]
  <2>1. e = Without(d, <<p, i>>)
    OBVIOUS
  <2> HIDE DEF e
  <2> QED BY <1>1, <2>1, TakenNodes
<1>3. name = d[c].name /\ value = Subtree(d, c) /\ name \in Name \cup {NoName}
  BY <1>1 DEF Child, Label
<1> HIDE DEF c
<1>4. /\ \A s : s \in DOMAIN value <=> s \in Address /\ c \o s \in DOMAIN d
      /\ \A s \in DOMAIN value : value[s] = IF s = Root THEN [d[c] EXCEPT !.name = NoName]
                                            ELSE d[c \o s]
  BY <1>1, <1>3, SubtreeIs
<1>5. Labelled(x) /\ DOMAIN x = DOMAIN value
  BY <1>3, NamedIsBranch DEF IsTree, Branch
<1>6. \A s \in DOMAIN value : x[s] = IF s = Root THEN d[c] ELSE d[c \o s]
  <2>1. \A s \in DOMAIN value :
          x[s] = IF s = Root THEN [value[Root] EXCEPT !.name = name] ELSE value[s]
    BY DEF Named, IsTree
  <2>2. [[d[c] EXCEPT !.name = NoName] EXCEPT !.name = name] = d[c]
    <3> DEFINE u == d[c]
    <3>1. u = [t |-> u.t, n |-> u.n, name |-> name]
      BY <1>1, <1>3 DEF Label
    <3> HIDE DEF u
    <3>2. [u EXCEPT !.name = NoName] = [t |-> u.t, n |-> u.n, name |-> NoName]
      BY <3>1
    <3>3. [[t |-> u.t, n |-> u.n, name |-> NoName] EXCEPT !.name = name]
            = [t |-> u.t, n |-> u.n, name |-> name]
      OBVIOUS
    <3>4. [[u EXCEPT !.name = NoName] EXCEPT !.name = name]
            = [t |-> u.t, n |-> u.n, name |-> name]
      BY <3>2, <3>3, Zenon
    <3>5. [[u EXCEPT !.name = NoName] EXCEPT !.name = name] = u
      BY <3>1, <3>4, Zenon
    <3> QED BY <3>5 DEF u
  <2> HIDE DEF x
  <2> QED BY <1>4, <2>1, <2>2
<1> HIDE DEF e, x
<1>7. /\ f = [b \in DOMAIN f |-> f[b]]
      /\ \A b : b \in DOMAIN f <=>
           /\ b \in Address
           /\ IF InBlock(p, i, 1, b) THEN Rest(p, b) \in DOMAIN x
              ELSE Shift(p, i, -1, b) \in DOMAIN e
      /\ \A b \in DOMAIN f : f[b] = IF b = p THEN Resized(e[p], 1)
                                    ELSE IF InBlock(p, i, 1, b) THEN x[Rest(p, b)]
                                    ELSE e[Shift(p, i, -1, b)]
  <2>1. f = InsertItems(e, p, i, <<x>>)
    OBVIOUS
  <2> HIDE DEF f
  <2>2. Labelled(e) /\ p \in Address /\ i \in Position /\ Labelled(x)
    BY <1>1, <1>5
  <2> QED BY ONLY <2>1, <2>2, PutNodes, SMTT(30)
<1> HIDE DEF f
<1>8. \A b \in Address : ~InBlock(p, i, 1, b) =>
        LET s == Shift(p, i, -1, b) IN s \in Address /\ Shift(p, i, 1, s) = b
  BY <1>1, ShiftDown
<1>9. \A b \in Address : InBlock(p, i, 1, b) =>
        /\ Rest(p, b) \in Address /\ c \o Rest(p, b) = b
        /\ Rest(p, b) = Root => b = c
  <2>1. TAKE b \in Address
  <2>2. SUFFICES ASSUME InBlock(p, i, 1, b)
                 PROVE  /\ Rest(p, b) \in Address /\ c \o Rest(p, b) = b
                        /\ Rest(p, b) = Root => b = c
    OBVIOUS
  <2>3. /\ Rest(p, b) \in Address /\ Turn(p, b) \in i..(i + 1 - 1)
        /\ Below(p, Turn(p, b), Rest(p, b)) = b
    BY <1>1, <2>1, <2>2, BlockAddress
  <2>4. Turn(p, b) = i
    BY <2>3 DEF Position
  <2>5. c \o Rest(p, b) = b
    BY <2>3, <2>4 DEF Below, c
  <2>6. c \o Root = c
    BY <1>1 DEF Root, Address
  <2> QED BY <2>3, <2>5, <2>6
<1>10. Shift(p, i, 1, p) = p /\ Shift(p, i, -1, p) = p /\ ~InBlock(p, i, 1, p)
  <2>1. ~FromChild(p, i, p)
    BY <1>1, LenProperties DEF FromChild, Address
  <2> QED BY <2>1 DEF Shift, InBlock
<1>11. ASSUME NEW b \in Address
       PROVE  /\ b \in DOMAIN f <=> b \in DOMAIN d
              /\ b \in DOMAIN d => f[b] = d[b]
  <2>1. CASE b = p
    <3>1. p \in DOMAIN e /\ e[p] = Resized(d[p], -1)
      BY <1>1, <1>2, <1>10
    <3>2. p \in DOMAIN f /\ f[p] = Resized(e[p], 1)
      BY <1>1, <1>7, <1>10, <3>1
    <3> QED BY <1>1, <2>1, <3>1, <3>2, ResizedBack
  <2>2. CASE b # p /\ InBlock(p, i, 1, b)
    <3> DEFINE s == Rest(p, b)
    <3>1. s \in Address /\ c \o s = b /\ (s = Root => b = c)
      BY <1>9, <2>2
    <3>2. /\ b \in DOMAIN f <=> s \in DOMAIN x
          /\ b \in DOMAIN f => f[b] = x[s]
      BY <1>7, <2>2
    <3> HIDE DEF s
    <3>3. b \in DOMAIN f <=> b \in DOMAIN d
      BY <1>4, <1>5, <3>1, <3>2
    <3> QED BY <1>4, <1>5, <1>6, <3>1, <3>2, <3>3
  <2>3. CASE b # p /\ ~InBlock(p, i, 1, b)
    <3> DEFINE s == Shift(p, i, -1, b)
    <3>1. s \in Address /\ Shift(p, i, 1, s) = b
      BY <1>8, <2>3
    <3>2. /\ b \in DOMAIN f <=> s \in DOMAIN e
          /\ b \in DOMAIN f => f[b] = e[s]
      BY <1>7, <2>3
    <3> HIDE DEF s
    <3>3. s # p
      BY <1>10, <2>3, <3>1
    <3> QED BY <1>2, <3>1, <3>2, <3>3
  <2> QED BY <2>1, <2>2, <2>3
<1>12. DOMAIN f = DOMAIN d
  <2>1. \A b : b \in DOMAIN f <=> b \in DOMAIN d
    BY <1>1, <1>7, <1>11 DEF Labelled
  <2> QED BY <2>1
<1>13. \A b \in DOMAIN d : f[b] = d[b]
  BY <1>1, <1>11 DEF Labelled
<1>14. f = d
  BY <1>1, <1>7, <1>12, <1>13
<1> QED BY <1>14 DEF e, x, f

\* Replacing what JSON.SET has just put changes nothing.
LEMMA ReplaceAgain ==
  ASSUME NEW M, NEW T, ToldApart(M, T), NEW d, WellFormed(d), Plain(M, d),
         NEW ptr \in Pointer, ptr.toks # <<>>, LastTok(ptr) \in T,
         NEW e, NEW value, IsTree(value), Plain(M, value), NEW p, NEW h, NEW i, NEW name,
         SetAt(M, d, e, Aim(ptr), LastTok(ptr), value, p, h, i, name), ~Appends(e, Aim(ptr))
  PROVE  PatchReplace(e, ptr, value).doc = e
<1> DEFINE t   == Aim(ptr)
           tok == LastTok(ptr)
           f   == PatchReplace(e, ptr, value).doc
<1>1. /\ WellFormed(e) /\ p \in DOMAIN e /\ e[p].t = d[p].t /\ p \in Address
      /\ Resolves(e, Parent(t), p)
      /\ Selects(e, p, tok, i) /\ i \in 1..e[p].n /\ Append(p, i) \in DOMAIN e
  BY SetIsRead
<1>2. /\ t \in Seq(Tok) /\ Len(t) \in Nat \ {0} /\ t[Len(t)] = tok /\ Parent(t) \in Seq(Tok)
  BY HolderIs, Zenon
<1>3. /\ d[p].t \in Container /\ Plain(M, e) /\ Child(e, p, i) = [name |-> name, value |-> value]
      /\ IF d[p].t = "object" THEN name = SoughtName[tok] ELSE name = ValueName
      /\ d[p].t = "object" => i = e[p].n
  <2>1. /\ d[p].t \in Container /\ Plain(M, e) /\ Placed(d, e, p, h, i, name, value)
        /\ IF d[p].t = "object" THEN name = SoughtName[tok] ELSE name = ValueName
        /\ h # 0 => i = (IF d[p].t = "array" THEN h ELSE d[p].n) /\ e[p].n = d[p].n
        /\ h = 0 => i = d[p].n + 1 /\ e[p].n = d[p].n + 1
    BY DEF SetAt
  <2> QED BY <2>1 DEF Placed
<1>4. tok \in Tok
  BY PointerParts
<1>5. CASE PatchReplace(e, ptr, value).status # 0
  BY <1>1, <1>5, ReplaceIsSafe DEF IsTree
<1>6. CASE PatchReplace(e, ptr, value).status = 0
  <2>1. PICK q, g, j, nm : g # 0 /\ SetAt(M, e, f, t, tok, value, q, g, j, nm)
    <3> HIDE DEF t, tok, f
    <3>1. \E q, g, j, nm :
            /\ g # 0
            /\ SetAt(M, e, PatchReplace(e, ptr, value).doc, Aim(ptr), LastTok(ptr), value,
                      q, g, j, nm)
      BY <1>1, <1>3, <1>6, ReplaceSets
    <3> QED BY <3>1 DEF t, tok, f
  <2> HIDE DEF t, tok, f
  <2>2. /\ q \in DOMAIN e /\ Resolves(e, Parent(t), q) /\ Selects(e, q, tok, g)
        /\ IF e[q].t = "object" THEN nm = SoughtName[tok] ELSE nm = ValueName
        /\ j = (IF e[q].t = "array" THEN g ELSE e[q].n)
        /\ f = InsertItems(Without(e, <<q, g>>), q, j, <<Named(value, nm)>>)
    BY <2>1 DEF SetAt
  <2>3. q = p
    BY <1>1, <1>2, <2>2, ResolvesOnce
  <2>4. g = i
    BY <1>1, <1>4, <2>2, <2>3, SelectsOne
  <2>5. j = i /\ nm = name
    BY <1>1, <1>3, <2>2, <2>3, <2>4 DEF Container
  <2>6. f = InsertItems(Without(e, <<p, i>>), p, i, <<Named(value, name)>>)
    BY <2>2, <2>3, <2>4, <2>5
  <2>7. i \in Position /\ Labelled(Without(e, <<p, i>>)) /\ e[p].t \in Container
    <3>1. WellFormed(Without(e, <<p, i>>))
      BY <1>1, <1>3, WithoutWellFormed
    <3> QED BY <1>1, <1>3, <3>1 DEF WellFormed, Counted, Position
  <2>8. e = [a \in DOMAIN e |-> e[a]]
    BY <1>3 DEF Plain
  <2> QED BY <1>1, <1>3, <2>6, <2>7, <2>8, PutBack DEF f
<1> QED BY <1>5, <1>6

\* A second JSON.SET leaves the document or patches it.
LEMMA SetVal ==
  ASSUME NEW c, NEW d
  PROVE  LET ptr   == PathToPointer(c.path)
             patch == IF GetPointer(d, ptr) # {} THEN PatchReplace(d, ptr, c.json)
                      ELSE PatchAdd(d, ptr, c.json)
         IN SetEffect(c, Doc(d)).val \in {Doc(d), Doc(patch.doc)}
<1> DEFINE v     == Doc(d)
           ptr   == PathToPointer(c.path)
           found == GetPointer(d, ptr) # {}
           patch == IF found THEN PatchReplace(d, ptr, c.json) ELSE PatchAdd(d, ptr, c.json)
<1>1. v.root = d /\ v # Empty /\ v # Foreign
  BY DocIs
<1> HIDE DEF v
<1>2. /\ found <=> GetPointer(v.root, ptr) # {}
      /\ patch = IF GetPointer(v.root, ptr) # {} THEN PatchReplace(v.root, ptr, c.json)
                 ELSE PatchAdd(v.root, ptr, c.json)
  BY <1>1
<1> HIDE DEF ptr, patch, found
<1>3. SetEffect(c, v) =
        IF c.path.style = "broken"           THEN Answer(v, Error("path"))
        ELSE IF c.flag = "junk"              THEN Answer(v, Error("syntax"))
        ELSE IF v = Empty /\ c.flag = "xx"   THEN Answer(v, Nil)
        ELSE IF v = Foreign                  THEN Answer(v, Error("wrongtype"))
        ELSE IF c.json = BadJson             THEN Answer(v, Error("json"))
        ELSE IF v = Empty /\ IsRoot(ptr)     THEN Commit(Doc(c.json), Ok)
        ELSE IF v = Empty                    THEN Answer(v, Error("new"))
        ELSE IF c.flag = "xx" /\ ~found      THEN Answer(v, Nil)
        ELSE IF c.flag = "nx" /\ found       THEN Answer(v, Nil)
        ELSE IF patch.status # 0 THEN Answer(Doc(patch.doc), PatchError(patch.status))
        ELSE Commit(Doc(patch.doc), Ok)
  BY <1>2 DEF SetEffect, ptr
<1>4. SetEffect(c, v) \in {Answer(v, Error("path")), Answer(v, Error("syntax")), Answer(v, Nil),
                           Answer(v, Error("json")),
                           Answer(Doc(patch.doc), PatchError(patch.status)),
                           Commit(Doc(patch.doc), Ok)}
  <2> DEFINE a == Answer(v, Error("path"))
             b == Answer(v, Error("syntax"))
             n == Answer(v, Nil)
             j == Answer(v, Error("json"))
             f == Answer(Doc(patch.doc), PatchError(patch.status))
             g == Commit(Doc(patch.doc), Ok)
             x == Answer(v, Error("wrongtype"))
             y == Answer(v, Error("new"))
             z == Commit(Doc(c.json), Ok)
  <2>1. SetEffect(c, v) =
          IF c.path.style = "broken"           THEN a
          ELSE IF c.flag = "junk"              THEN b
          ELSE IF v = Empty /\ c.flag = "xx"   THEN n
          ELSE IF v = Foreign                  THEN x
          ELSE IF c.json = BadJson             THEN j
          ELSE IF v = Empty /\ IsRoot(ptr)     THEN z
          ELSE IF v = Empty                    THEN y
          ELSE IF c.flag = "xx" /\ ~found      THEN n
          ELSE IF c.flag = "nx" /\ found       THEN n
          ELSE IF patch.status # 0 THEN f
          ELSE g
    BY <1>3
  <2> HIDE DEF a, b, n, j, f, g, x, y, z
  <2>2. SetEffect(c, v) \in {a, b, n, j, f, g}
    BY <1>1, <2>1
  <2> QED BY <2>2 DEF a, b, n, j, f, g
<1>5. \A w, r : Answer(w, r).val = w /\ Commit(w, r).val = w
  BY DEF Answer, Commit
<1>6. SetEffect(c, v).val \in {v, Doc(patch.doc)}
  BY <1>4, <1>5, Zenon
<1> QED BY <1>6 DEF v, ptr, patch, found

\* A JSON.SET repeated changes nothing more.
LEMMA SetAgain ==
  ASSUME NEW M, NEW T, ToldApart(M, T),
         NEW c, IsCall(c), c.op = "set", UsualCall(M, T, c),
         NEW v, IsValue(v), PlainValue(M, v), SetEffect(c, v).sent
  PROVE  LET w == SetEffect(c, v).val
         IN Appends(w.root, Target(c.path)) \/ SetEffect(c, w).val = w
<1> DEFINE ptr   == PathToPointer(c.path)
           w     == SetEffect(c, v).val
           e     == SetEffect(c, v).val.root
           t     == Target(c.path)
           patch == IF GetPointer(e, ptr) # {} THEN PatchReplace(e, ptr, c.json)
                    ELSE PatchAdd(e, ptr, c.json)
<1>1. /\ IsTree(c.json) /\ Plain(M, c.json) /\ w = Doc(e)
      /\ \/ IsRoot(ptr) /\ w = Doc(c.json)
         \/ /\ ptr.toks # <<>> /\ WellFormed(v.root) /\ Plain(M, v.root)
            /\ \E p, h, i, name :
                 SetAt(M, v.root, e, Aim(ptr), LastTok(ptr), c.json, p, h, i, name)
  <2> HIDE DEF ptr, w
  <2> QED BY SetIs DEF ptr, w
<1>2. c.path \in Path
  BY DEF IsCall
<1>3. /\ ptr \in Pointer /\ Aim(ptr) = t /\ ptr.toks = c.path.toks
  BY <1>2, PointerIs
<1>4. ptr.toks # <<>> => LastTok(ptr) \in T
  BY <1>2, PointerIs
<1>5. SetEffect(c, Doc(e)).val \in {Doc(e), Doc(patch.doc)}
  <2> HIDE DEF e
  <2> QED BY SetVal
<1>6. CASE IsRoot(ptr) /\ w = Doc(c.json)
  <2>1. e = c.json
    BY <1>6, DocIs
  <2>2. patch.doc = c.json
    BY <1>6 DEF PatchReplace, PatchAdd, Patched
  <2> HIDE DEF w, e, patch
  <2>3. SetEffect(c, w).val = w
    BY <1>1, <1>5, <2>1, <2>2
  <2> QED BY <2>3 DEF w
<1>7. CASE /\ ptr.toks # <<>> /\ WellFormed(v.root) /\ Plain(M, v.root)
           /\ \E p, h, i, name :
                SetAt(M, v.root, e, Aim(ptr), LastTok(ptr), c.json, p, h, i, name)
  <2>1. PICK p, h, i, name :
          SetAt(M, v.root, e, Aim(ptr), LastTok(ptr), c.json, p, h, i, name)
    BY <1>7
  <2> HIDE DEF e, w, ptr, t, patch
  <2>2. SUFFICES ASSUME ~Appends(e, t)
                 PROVE  SetEffect(c, w).val = w
    BY DEF e, w, t
  <2>3. /\ Append(p, i) \in DOMAIN e /\ Resolves(e, t, Append(p, i))
    BY <1>3, <1>4, <1>7, <2>1, <2>2, SetIsRead
  <2>4. PatchReplace(e, ptr, c.json).doc = e
    BY <1>1, <1>3, <1>4, <1>7, <2>1, <2>2, ReplaceAgain
  <2>5. GetPointer(e, ptr) # {}
    <3>1. CASE ptr.lead
      BY <3>1 DEF GetPointer
    <3>2. CASE ~ptr.lead
      <4>1. t = ptr.toks
        BY <1>3, <3>2 DEF Aim
      <4> QED BY <2>3, <3>2, <4>1 DEF GetPointer
    <3> QED BY <3>1, <3>2
  <2>6. patch.doc = e
    BY <2>4, <2>5 DEF patch
  <2> QED BY <1>1, <1>5, <2>6
<1> QED BY <1>1, <1>6, <1>7

\* A client that repeats a JSON.SET it has had acknowledged changes nothing
\* more, unless it appends.
THEOREM SetTwice ==
  ASSUME NEW M, NEW T, ToldApart(M, T), \A c \in Calls : UsualCall(M, T, c)
  PROVE  Spec => SetIsIdempotent
<1> DEFINE Again == \A k \in Key : Acked("set", k) =>
                       \/ Appends(db'[k].root, Target(call'.path))
                       \/ SetEffect(call', db'[k]).val = db'[k]
<1>1. TypeOK /\ DocsPlain(M) /\ [Next]_vars => [Again]_vars
  <2> SUFFICES ASSUME TypeOK, DocsPlain(M), Next, NEW k \in Key, Acked("set", k)
               PROVE  \/ Appends(db'[k].root, Target(call'.path))
                      \/ SetEffect(call', db'[k]).val = db'[k]
    OBVIOUS
  <2>1. /\ call' \in Calls /\ call'.op = "set" /\ IsCall(call') /\ IsValue(db[k])
        /\ Effect(call', db[k]).sent /\ db'[k] = Effect(call', db[k]).val
    BY AckedStep
  <2>2. Effect(call', db[k]) = SetEffect(call', db[k])
    BY <2>1 DEF Effect
  <2>3. PlainValue(M, db[k]) /\ UsualCall(M, T, call')
    BY <2>1 DEF DocsPlain
  <2> QED BY <2>1, <2>2, <2>3, SetAgain
<1>2. SetIsIdempotent <=> [][Again]_vars
  BY DEF SetIsIdempotent
<1> HIDE DEF Again
<1> QED BY <1>1, <1>2, AlwaysPlain, PTL DEF Spec

(***************************************************************************)
(* JSON.DEL undoes the JSON.SET that added.                                *)
(***************************************************************************)

\* Removing takes out the one item the last token selects.
LEMMA RemoveTakes ==
  ASSUME NEW M, NEW T, ToldApart(M, T), NEW d, WellFormed(d), Plain(M, d),
         NEW ptr \in Pointer, ptr.toks # <<>>, LastTok(ptr) \in T
  PROVE  /\ \A pl \in DetachPath(d, ptr) : \E p \in DOMAIN d : \E i \in 1..d[p].n :
              /\ pl = <<p, i>> /\ d[p].t \in Container /\ d[p].n \in Nat
              /\ Resolves(d, Parent(Aim(ptr)), p) /\ Selects(d, p, LastTok(ptr), i)
         /\ \A p \in DOMAIN d : \A i : /\ d[p].t \in Container /\ Resolves(d, Parent(Aim(ptr)), p)
                                      /\ Selects(d, p, LastTok(ptr), i)
              => PatchRemove(d, ptr) = Patched(Without(d, <<p, i>>), 0)
<1> DEFINE t   == Aim(ptr)
           tok == LastTok(ptr)
           old == DetachPath(d, ptr)
<1>1. /\ Parent(t) \in Seq(Tok)
      /\ \A p : p \in Holder(d, ptr) <=> p \in DOMAIN d /\ Resolves(d, Parent(t), p)
  BY HolderIs, Zenon
<1>2. tok \in T /\ tok \in Tok
  BY PointerParts
<1> HIDE DEF t, tok
<1>3. ASSUME NEW pl \in old
      PROVE  \E p \in DOMAIN d : \E i \in 1..d[p].n :
               /\ pl = <<p, i>> /\ d[p].t \in Container /\ d[p].n \in Nat
               /\ Resolves(d, Parent(t), p) /\ Selects(d, p, tok, i)
  <2>1. PICK p \in Holder(d, ptr) : \E i \in Detached(d, p, LastTok(ptr)) :
          /\ pl = <<p, i>> /\ p \in DOMAIN d /\ d[p].t \in Container
          /\ i \in 1..d[p].n /\ d[p].n \in Nat
    BY DetachPathType
  <2>2. PICK i \in Detached(d, p, tok) :
          /\ pl = <<p, i>> /\ p \in DOMAIN d /\ d[p].t \in Container
          /\ i \in 1..d[p].n /\ d[p].n \in Nat
    BY <2>1 DEF tok
  <2>3. Selects(d, p, tok, i)
    BY <1>2, <2>2, SelectsIs
  <2> QED BY <1>1, <2>1, <2>2, <2>3
<1>4. ASSUME NEW p \in DOMAIN d, NEW i, d[p].t \in Container, Resolves(d, Parent(t), p),
             Selects(d, p, tok, i)
      PROVE  PatchRemove(d, ptr) = Patched(Without(d, <<p, i>>), 0)
  <2>1. p \in Holder(d, ptr) /\ i \in Detached(d, p, LastTok(ptr))
    BY <1>1, <1>2, <1>4, SelectsIs DEF tok
  <2>2. <<p, i>> \in old
    BY <2>1 DEF DetachPath
  <2>3. \A pl \in old : pl = <<p, i>>
    <3>1. TAKE pl \in old
    <3>2. PICK q \in DOMAIN d, j \in Int :
            pl = <<q, j>> /\ Resolves(d, Parent(t), q) /\ Selects(d, q, tok, j)
      BY <1>3, <3>1
    <3>3. q = p
      BY <1>1, <1>4, <3>2, ResolvesOnce
    <3>4. j = i
      BY <1>2, <1>4, <3>2, <3>3, SelectsOne
    <3> QED BY <3>2, <3>3, <3>4
  <2> HIDE DEF old
  <2>4. old # {} /\ (CHOOSE pl \in old : TRUE) = <<p, i>>
    BY <2>2, <2>3
  <2> QED BY <2>4 DEF PatchRemove, old
<1> QED BY <1>3, <1>4 DEF t, tok, old

\* JSON.DEL of what JSON.SET has added gives the document back.
LEMMA AddedIsDeleted ==
  ASSUME NEW M, NEW T, ToldApart(M, T),
         NEW c, IsCall(c), c.op = "set", UsualCall(M, T, c),
         NEW v, IsValue(v), v # Empty, v # Foreign, PlainValue(M, v), SetEffect(c, v).sent,
         ~PathToPointer(c.path).lead, ~Appends(v.root, c.path.toks),
         ValueAt(v.root, c.path.toks) = {},
         NEW r, r.path = c.path
  PROVE  DelEffect(r, SetEffect(c, v).val).val = DropIfChildless(v.root)
<1> DEFINE ptr == PathToPointer(c.path)
           w   == SetEffect(c, v).val
           d   == v.root
           e   == SetEffect(c, v).val.root
           tok == LastTok(ptr)
           t   == c.path.toks
<1>1. /\ c.path.style # "broken" /\ IsTree(c.json) /\ w = Doc(e)
      /\ \/ IsRoot(ptr)
         \/ /\ ptr.toks # <<>>
            /\ \E p, h, i, name : SetAt(M, d, e, Aim(ptr), tok, c.json, p, h, i, name)
  <2> HIDE DEF ptr, w
  <2> QED BY SetIs DEF ptr, w
<1>2. WellFormed(d) /\ Plain(M, d) /\ IsTree(d)
  BY ValueIsDoc DEF PlainValue, Plain, IsTree
<1>3. c.path \in Path /\ ~ptr.lead /\ ptr.toks = t
  BY PointerIs DEF IsCall
<1>4. ptr \in Pointer /\ Aim(ptr) = t
  BY <1>3, PointerIs DEF Aim
<1>5. ptr.toks # <<>> => tok \in T /\ tok \in Tok
  BY <1>3, PointerIs
<1> HIDE DEF ptr, w, d, e, tok, t
<1>6. ValueAt(d, t) = {} /\ ~Appends(d, t)
  BY DEF d, t
<1>7. ptr.toks # <<>> /\ ~IsRoot(ptr)
  BY <1>2, <1>3, <1>6, RootValue DEF IsRoot
<1>8. PICK p, h, i, name : SetAt(M, d, e, Aim(ptr), tok, c.json, p, h, i, name)
  BY <1>1, <1>7
<1>9. /\ t \in Seq(Tok) /\ Len(t) \in Nat \ {0} /\ t[Len(t)] = tok /\ Parent(t) \in Seq(Tok)
  <2>1. /\ Aim(ptr) \in Seq(Tok) /\ Len(Aim(ptr)) \in Nat \ {0}
        /\ Aim(ptr)[Len(Aim(ptr))] = LastTok(ptr) /\ Parent(Aim(ptr)) \in Seq(Tok)
    BY <1>2, <1>4, <1>7, HolderIs, Zenon
  <2> QED BY <1>4, <2>1 DEF tok
<1>10. /\ p \in DOMAIN d /\ d[p].t \in Container /\ Resolves(d, Parent(t), p) /\ Plain(M, e)
       /\ IF d[p].t = "object" THEN name = SoughtName[tok] ELSE name = ValueName
       /\ h # 0 => Selects(d, p, tok, h)
       /\ h = 0 => /\ i = d[p].n + 1
                   /\ e = InsertItems(d, p, i, <<Named(c.json, name)>>)
  BY <1>4, <1>8 DEF SetAt
<1>11. h = 0
  <2>1. SUFFICES ASSUME h # 0 PROVE FALSE
    OBVIOUS
  <2>2. Selects(d, p, tok, h)
    BY <1>10, <2>1
  <2>3. h \in Position /\ Append(p, h) \in DOMAIN d /\ p \in Address
    BY <1>2, <1>5, <1>7, <1>10, <2>2, SelectedIsChild DEF WellFormed, Labelled
  <2>4. Resolves(d, t, Append(p, h))
    BY <1>9, <1>10, <2>2, <2>3, ResolvesStep
  <2>5. ValueAt(d, t) = {Subtree(d, Append(p, h))}
    BY <1>2, <1>9, <2>3, <2>4, ValueIs
  <2> QED BY <1>6, <2>5
<1>12. /\ WellFormed(e) /\ p \in DOMAIN e /\ e[p].t = d[p].t /\ p \in Address
       /\ Resolves(e, Parent(t), p)
       /\ Appends(e, t) <=> tok = Dash /\ d[p].t = "array"
       /\ ~Appends(e, t) => Selects(e, p, tok, i)
  <2>1. SetAt(M, d, e, Aim(ptr), LastTok(ptr), c.json, p, h, i, name)
    BY <1>8 DEF tok
  <2>2. LastTok(ptr) \in T
    BY <1>5, <1>7 DEF tok
  <2> QED BY <1>2, <1>4, <1>7, <2>1, <2>2, SetIsRead DEF tok
<1>13. Selects(e, p, tok, i)
  <2>1. t # <<>>
    BY <1>9
  <2>2. ~(tok = Dash /\ d[p].t = "array")
    BY <1>6, <1>9, <1>10, <2>1 DEF Appends
  <2> QED BY <1>12, <2>2
<1>14. PatchRemove(e, ptr) = Patched(Without(e, <<p, i>>), 0)
  <2>1. LastTok(ptr) \in T /\ Selects(e, p, LastTok(ptr), i) /\ Resolves(e, Parent(Aim(ptr)), p)
    BY <1>4, <1>5, <1>7, <1>12, <1>13 DEF tok
  <2>2. e[p].t \in Container /\ Plain(M, e)
    BY <1>10, <1>12
  <2> QED BY <1>4, <1>7, <1>12, <2>1, <2>2, RemoveTakes
<1>15. Without(e, <<p, i>>) = d
  <2> DEFINE x == Named(c.json, name)
  <2>1. i \in Position /\ d = [a \in DOMAIN d |-> d[a]]
    BY <1>2, <1>10, <1>11 DEF Position, WellFormed, Counted, Plain
  <2>2. name \in Name \cup {NoName}
    BY <1>5, <1>7, <1>10, NameAssumption, TokAssumption
  <2>3. Labelled(x)
    BY <1>1, <2>2, NamedIsBranch DEF IsTree, Branch
  <2>4. e = InsertItems(d, p, i, <<x>>)
    BY <1>10, <1>11
  <2>5. Labelled(InsertItems(d, p, i, <<x>>))
    BY <1>12, <2>4 DEF WellFormed
  <2> HIDE DEF x
  <2>6. Without(InsertItems(d, p, i, <<x>>), <<p, i>>) = d
    BY <1>2, <1>10, <2>1, <2>3, <2>5, TakeBack
  <2> QED BY <2>4, <2>6
<1>16. w # Empty /\ w # Foreign /\ w.root = e
  BY <1>1, DocIs
<1>17. PatchRemove(w.root, ptr) = [doc |-> d, status |-> 0]
  BY <1>14, <1>15, <1>16 DEF Patched
<1>18. DelEffect(r, w) = Commit(DropIfChildless(d), Number(1))
  <2>1. PathToPointer(r.path) = ptr /\ r.path.style # "broken"
    BY <1>1 DEF ptr
  <2> DEFINE then == IF IsRoot(ptr)             THEN Commit(Empty, Number(1))
                     ELSE IF PatchRemove(w.root, ptr).status # 0
                     THEN Answer(Doc(PatchRemove(w.root, ptr).doc),
                                 PatchError(PatchRemove(w.root, ptr).status))
                     ELSE Commit(DropIfChildless(PatchRemove(w.root, ptr).doc), Number(1))
  <2>2. DelEffect(r, w) = OnDoc(r, w, Number(0), then)
    BY <2>1, Zenon DEF DelEffect
  <2>3. then = Commit(DropIfChildless(d), Number(1))
    BY <1>7, <1>17
  <2> HIDE DEF then
  <2> QED BY <1>16, <2>1, <2>2, <2>3 DEF OnDoc
<1> QED BY <1>18 DEF Commit, w, d

\* JSON.DEL of a member or element that JSON.SET has just added gives back the
\* document there was.
THEOREM AddThenDel ==
  ASSUME NEW M, NEW T, ToldApart(M, T), \A c \in Calls : UsualCall(M, T, c)
  PROVE  Spec => DelUndoesAdd
<1> DEFINE Undo == \A k \in Key : Acked("set", k) /\ WasDoc(k) =>
                     LET d == db[k].root
                         c == call'
                     IN ~PathToPointer(c.path).lead /\ ~Appends(d, c.path.toks)
                        /\ ValueAt(d, c.path.toks) = {}
                          => DelEffect([op |-> "del", path |-> c.path], db'[k]).val
                               = DropIfChildless(d)
<1>1. TypeOK /\ DocsPlain(M) /\ [Next]_vars => [Undo]_vars
  <2> SUFFICES ASSUME TypeOK, DocsPlain(M), Next, NEW k \in Key, Acked("set", k), WasDoc(k),
                      ~PathToPointer(call'.path).lead, ~Appends(db[k].root, call'.path.toks),
                      ValueAt(db[k].root, call'.path.toks) = {}
               PROVE  DelEffect([op |-> "del", path |-> call'.path], db'[k]).val
                        = DropIfChildless(db[k].root)
    OBVIOUS
  <2>1. /\ call' \in Calls /\ call'.op = "set" /\ IsCall(call') /\ IsValue(db[k])
        /\ Effect(call', db[k]).sent /\ db'[k] = Effect(call', db[k]).val
    BY AckedStep
  <2>2. Effect(call', db[k]) = SetEffect(call', db[k])
    BY <2>1 DEF Effect
  <2>3. PlainValue(M, db[k]) /\ UsualCall(M, T, call') /\ db[k] # Empty /\ db[k] # Foreign
    BY <2>1 DEF DocsPlain, WasDoc
  <2> DEFINE r == [op |-> "del", path |-> call'.path]
  <2>4. r.path = call'.path
    OBVIOUS
  <2> HIDE DEF r
  <2>5. DelEffect(r, SetEffect(call', db[k]).val).val = DropIfChildless(db[k].root)
    BY <2>1, <2>2, <2>3, <2>4, AddedIsDeleted
  <2> QED BY <2>1, <2>2, <2>5 DEF r
<1>2. DelUndoesAdd <=> [][Undo]_vars
  BY DEF DelUndoesAdd
<1> HIDE DEF Undo
<1> QED BY <1>1, <1>2, AlwaysPlain, PTL DEF Spec

(***************************************************************************)
(* What a write leaves alone.                                              *)
(***************************************************************************)

\* A path whose tokens are told apart.
TokensIn(T, u) == \A j \in 1..Len(u) : u[j] \in T

\* Two tokens that select the same child are the same.
LEMMA SameToken ==
  ASSUME NEW M, NEW T, ToldApart(M, T), NEW d, WellFormed(d), Plain(M, d), NEW q \in DOMAIN d,
         NEW s \in T, NEW u \in T, NEW x, Selects(d, q, s, x), Selects(d, q, u, x)
  PROVE  s = u
<1>1. d[q].t \in Container
  BY SelectedIsChild DEF ToldApart
<1>2. IF d[q].t = "array" THEN Index[s] >= 0 /\ x = Index[s] + 1
      ELSE d[Append(q, x)].name = SoughtName[s]
  BY <1>1, SelectsIs
<1>3. IF d[q].t = "array" THEN Index[u] >= 0 /\ x = Index[u] + 1
      ELSE d[Append(q, x)].name = SoughtName[u]
  BY <1>1, SelectsIs
<1>4. Index[s] \in Int /\ Index[u] \in Int
  BY TokAssumption DEF ToldApart
<1> QED BY <1>2, <1>3, <1>4 DEF ToldApart

\* So a node below another is reached by a longer path only.
LEMMA PathBelow ==
  ASSUME NEW M, NEW T, ToldApart(M, T), NEW d, WellFormed(d), Plain(M, d),
         NEW p \in DOMAIN d, NEW s, TokensIn(T, s), Resolves(d, s, p),
         NEW b \in DOMAIN d, NEW u, TokensIn(T, u), Resolves(d, u, b), Under(p, b)
  PROVE  Under(s, u)
<1>1. /\ p \in Address /\ b \in Address /\ Len(p) \in Nat /\ Len(b) \in Nat
      /\ Len(s) = Len(p) /\ Len(u) = Len(b) /\ Len(p) <= Len(b)
      /\ \A j \in 1..Len(p) : b[j] = p[j]
  BY LenProperties DEF WellFormed, Labelled, Address, Resolves, Under
<1>2. ASSUME NEW j \in 1..Len(p)
      PROVE  s[j] = u[j]
  <2> DEFINE q == Prefix(p, j - 1)
  <2>1. j - 1 \in 0..Len(p) /\ j \in 1..Len(b)
    BY <1>1
  <2>2. q \in DOMAIN d
    BY <2>1, PrefixInTree
  <2>3. Prefix(b, j - 1) = q
    BY <1>1, <2>1 DEF Prefix
  <2>4. Selects(d, q, s[j], p[j]) /\ Selects(d, q, u[j], p[j])
    BY <1>1, <2>1, <2>3 DEF Resolves
  <2>5. s[j] \in T /\ u[j] \in T
    BY <1>1, <2>1 DEF TokensIn
  <2> HIDE DEF q
  <2> QED BY <2>2, <2>4, <2>5, SameToken
<1> QED BY <1>1, <1>2 DEF Under

\* A node that is neither above nor below p is still reached, and reads as
\* before, when only what is below p changes.
LEMMA KeptBeside ==
  ASSUME NEW M, NEW T, ToldApart(M, T), NEW d, WellFormed(d), Plain(M, d),
         NEW e, WellFormed(e), Plain(M, e), NEW p \in Address, Beside(d, e, p),
         NEW b \in DOMAIN d, ~Under(p, b), ~Under(b, p),
         NEW u, TokensIn(T, u), Resolves(d, u, b)
  PROVE  b \in DOMAIN e /\ Resolves(e, u, b) /\ Subtree(e, b) = Subtree(d, b)
<1>1. /\ b \in Address /\ Len(b) \in Nat /\ Len(u) = Len(b) /\ Labelled(d) /\ Labelled(e)
      /\ Len(p) \in Nat
  BY LenProperties DEF WellFormed, Labelled, Address, Resolves
<1>2. ASSUME NEW j \in 0..Len(b)
      PROVE  /\ Prefix(b, j) \in DOMAIN d /\ Prefix(b, j) \in DOMAIN e
             /\ e[Prefix(b, j)] = d[Prefix(b, j)]
  <2>1. Prefix(b, j) \in DOMAIN d
    BY PrefixInTree
  <2>2. Len(Prefix(b, j)) = j /\ \A l \in 1..j : Prefix(b, j)[l] = b[l]
    BY <1>1 DEF Prefix
  <2>3. ~Under(p, Prefix(b, j))
    <3>1. SUFFICES ASSUME Len(p) <= j, \A l \in 1..Len(p) : Prefix(b, j)[l] = p[l]
                   PROVE  FALSE
      BY <2>2 DEF Under
    <3>2. \A l \in 1..Len(p) : b[l] = p[l]
      BY <1>1, <2>2, <3>1
    <3> QED BY <1>1, <3>1, <3>2 DEF Under
  <2> QED BY <2>1, <2>3 DEF Beside
<1>3. ASSUME NEW j \in 1..Len(b)
      PROVE  Selects(e, Prefix(b, j - 1), u[j], b[j])
  <2> DEFINE q == Prefix(b, j - 1)
  <2>1. j - 1 \in 0..Len(b) /\ j \in 0..Len(b) /\ u[j] \in T
    BY <1>1 DEF TokensIn
  <2>2. q \in DOMAIN d /\ q \in DOMAIN e /\ e[q] = d[q] /\ Selects(d, q, u[j], b[j])
    BY <1>2, <2>1 DEF Resolves
  <2>3. Append(q, b[j]) = Prefix(b, j)
    <3>1. q \in Address /\ b[j] \in Position
      BY <1>1, <2>2, ElementOfSeq DEF Labelled, Address
    <3>2. Prefix(b, j) \in Address /\ Len(Prefix(b, j)) = j /\ Len(q) = j - 1
      <4>1. Prefix(b, j) \in DOMAIN d
        BY <1>2, <2>1
      <4> QED BY <1>1, <2>1, <4>1 DEF Labelled, Prefix
    <3>3. /\ Append(q, b[j]) \in Address /\ Len(Append(q, b[j])) = j
          /\ Append(q, b[j])[j] = b[j] /\ \A l \in 1..(j - 1) : Append(q, b[j])[l] = q[l]
      BY <2>1, <3>1, <3>2, AppendProperties DEF Address
    <3>4. \A l \in 1..j : Append(q, b[j])[l] = Prefix(b, j)[l]
      BY <2>1, <3>3 DEF Prefix
    <3> HIDE DEF q
    <3> QED BY <3>2, <3>3, <3>4, AddressEqual
  <2>4. Append(q, b[j]) \in DOMAIN d /\ e[Append(q, b[j])] = d[Append(q, b[j])]
    BY <1>2, <2>1, <2>3
  <2>5. d[q].t \in Container
    <3> HIDE DEF q
    <3> QED BY <2>1, <2>2, SelectedIsChild DEF ToldApart
  <2> HIDE DEF q
  <2>6. /\ b[j] \in 1..d[q].n
        /\ IF d[q].t = "array" THEN Index[u[j]] >= 0 /\ b[j] = Index[u[j]] + 1
           ELSE d[Append(q, b[j])].name = SoughtName[u[j]]
    BY <2>1, <2>2, <2>5, SelectsIs
  <2>7. /\ b[j] \in 1..e[q].n
        /\ IF e[q].t = "array" THEN Index[u[j]] >= 0 /\ b[j] = Index[u[j]] + 1
           ELSE e[Append(q, b[j])].name = SoughtName[u[j]]
    BY <2>2, <2>4, <2>6
  <2>8. e[q].t \in Container
    BY <2>2, <2>5
  <2>9. Selects(e, q, u[j], b[j])
    BY <2>1, <2>2, <2>7, <2>8, SelectsIs
  <2> QED BY <2>9 DEF q
<1>4. \A s \in Address : /\ b \o s \in DOMAIN d <=> b \o s \in DOMAIN e
                         /\ b \o s \in DOMAIN d => d[b \o s] = e[b \o s]
  <2>1. TAKE s \in Address
  <2>2. /\ Len(b \o s) = Len(b) + Len(s) /\ Len(s) \in Nat
        /\ \A l \in 1..Len(b) : (b \o s)[l] = b[l]
    BY <1>1, ConcatAddress, LenProperties DEF Address
  <2>3. ~Under(p, b \o s)
    <3>1. SUFFICES ASSUME \A l \in 1..Len(p) : (b \o s)[l] = p[l]
                   PROVE  FALSE
      BY DEF Under
    <3>2. CASE Len(p) <= Len(b)
      <4>1. \A l \in 1..Len(p) : b[l] = p[l]
        BY <1>1, <2>2, <3>1, <3>2
      <4> QED BY <3>2, <4>1 DEF Under
    <3>3. CASE Len(b) <= Len(p)
      <4>1. \A l \in 1..Len(b) : p[l] = b[l]
        BY <1>1, <2>2, <3>1, <3>3
      <4> QED BY <3>3, <4>1 DEF Under
    <3> QED BY <1>1, <3>2, <3>3
  <2> QED BY <2>3 DEF Beside
<1>5. b \in DOMAIN e /\ Subtree(e, b) = Subtree(d, b)
  BY <1>1, <1>4, SameBelow
<1>6. Resolves(e, u, b)
  BY <1>1, <1>3 DEF Resolves
<1> QED BY <1>5, <1>6

\* What an unrelated path reads stays.
LEMMA ValueKept ==
  ASSUME NEW M, NEW T, ToldApart(M, T), NEW d, WellFormed(d), Plain(M, d),
         NEW e, WellFormed(e), Plain(M, e), NEW p, p \in DOMAIN d, p \in DOMAIN e,
         Beside(d, e, p), NEW s, TokensIn(T, s), Resolves(d, s, p), Resolves(e, s, p),
         NEW u, TokensIn(T, u), Unrelated(s, u)
  PROVE  ValueAt(e, u) = ValueAt(d, u)
<1>1. p \in Address /\ Beside(e, d, p)
  BY DEF WellFormed, Labelled, Beside
<1>2. ASSUME NEW b \in DOMAIN d, Resolves(d, u, b)
      PROVE  b \in DOMAIN e /\ Resolves(e, u, b) /\ Subtree(e, b) = Subtree(d, b)
  <2>1. ~Under(p, b) /\ ~Under(b, p)
    BY <1>2, PathBelow DEF Unrelated
  <2> QED BY <1>1, <1>2, <2>1, KeptBeside
<1>3. ASSUME NEW b \in DOMAIN e, Resolves(e, u, b)
      PROVE  b \in DOMAIN d /\ Resolves(d, u, b) /\ Subtree(d, b) = Subtree(e, b)
  <2>1. ~Under(p, b) /\ ~Under(b, p)
    BY <1>3, PathBelow DEF Unrelated
  <2> QED BY <1>1, <1>3, <2>1, KeptBeside
<1> QED BY <1>2, <1>3 DEF ValueAt

\* The tokens of a call's target are among those of its path.
LEMMA TargetTokens ==
  ASSUME NEW M, NEW T, NEW c, c.path \in Path, UsualCall(M, T, c)
  PROVE  /\ TokensIn(T, c.path.toks) /\ TokensIn(T, Target(c.path))
         /\ Target(c.path) \in Seq(Tok) /\ TokensIn(T, Parent(Target(c.path)))
<1> DEFINE u == c.path.toks
           t == Target(c.path)
<1>1. u \in Seq(Tok) /\ TokensIn(T, u) /\ Len(u) \in Nat
  BY LenProperties DEF Path, UsualCall, TokensIn
<1>2. t = u \/ (u # <<>> /\ t = <<u[Len(u)]>>)
  BY DEF Target
<1>3. ASSUME u # <<>>, t = <<u[Len(u)]>>
      PROVE  t \in Seq(Tok) /\ TokensIn(T, t) /\ Len(t) \in Nat
  <2>1. Len(u) \in 1..Len(u)
    BY <1>1, <1>3, EmptySeq
  <2>2. u[Len(u)] \in Tok /\ u[Len(u)] \in T
    BY <1>1, <2>1, ElementOfSeq DEF TokensIn
  <2> HIDE DEF t
  <2>3. Len(t) = 1 /\ t[1] = u[Len(u)]
    BY <1>3
  <2> QED BY <1>3, <2>2, <2>3 DEF TokensIn
<1>4. t \in Seq(Tok) /\ TokensIn(T, t) /\ Len(t) \in Nat
  BY <1>1, <1>2, <1>3
<1> HIDE DEF t, u
<1>5. TokensIn(T, Parent(t))
  <2>1. CASE Len(t) = 0
    BY <1>4, <2>1 DEF TokensIn, Parent, Prefix
  <2>2. CASE Len(t) # 0
    <3>1. Len(t) - 1 \in Nat
      BY <1>4, <2>2
    <3>2. Len(Parent(t)) = Len(t) - 1 /\ \A j \in 1..(Len(t) - 1) : Parent(t)[j] = t[j]
      BY <3>1 DEF Parent, Prefix
    <3> QED BY <1>4, <3>1, <3>2 DEF TokensIn
  <2> QED BY <2>1, <2>2
<1> QED BY <1>1, <1>4, <1>5 DEF t, u

\* JSON.DEL takes one item out of its container.
LEMMA DelTakes ==
  ASSUME NEW M, NEW T, ToldApart(M, T),
         NEW c, IsCall(c), UsualCall(M, T, c),
         NEW v, IsValue(v), PlainValue(M, v),
         NEW e, DelEffect(c, v).sent, DelEffect(c, v).val = Doc(e)
  PROVE  LET d == v.root
             t == Target(c.path)
         IN \E a \in DOMAIN d :
              /\ Resolves(d, t, a)
              /\ Items(e, Parent(a)) = SeqExt!RemoveAt(Items(d, Parent(a)), a[Len(a)])
              /\ \A u : TokensIn(T, u) /\ Unrelated(Parent(t), u) => ValueAt(e, u) = ValueAt(d, u)
<1> DEFINE ptr   == PathToPointer(c.path)
           d     == v.root
           t     == Target(c.path)
           tok   == LastTok(ptr)
           patch == PatchRemove(v.root, ptr)
           old   == DetachPath(v.root, ptr)
           pl    == CHOOSE x \in old : TRUE
<1>1. v # Empty /\ v # Foreign
  BY DEF DelEffect, OnDoc, Answer
<1>2. WellFormed(d) /\ Plain(M, d) /\ c.path \in Path
  BY <1>1, ValueIsDoc DEF PlainValue, IsCall
<1>3. ptr \in Pointer /\ Aim(ptr) = t
  BY <1>2, PointerIs
<1>4. ptr.toks # <<>> => tok \in T /\ tok \in Tok
  BY <1>2, PointerIs
<1>5. ~IsRoot(ptr) /\ patch.status = 0 /\ DropIfChildless(patch.doc) = Doc(e)
  <2>1. DelEffect(c, v) =
        IF c.path.style = "broken"    THEN Answer(v, Error("path"))
        ELSE IF IsRoot(ptr)           THEN Commit(Empty, Number(1))
        ELSE IF patch.status # 0      THEN Answer(Doc(patch.doc), PatchError(patch.status))
        ELSE Commit(DropIfChildless(patch.doc), Number(1))
    BY <1>1 DEF DelEffect, OnDoc
  <2>2. \A x, r : ~Answer(x, r).sent /\ Commit(x, r).val = x
    BY DEF Answer, Commit
  <2>3. Doc(e) # Empty
    BY DocIs
  <2> HIDE DEF ptr, patch
  <2>4. c.path.style # "broken"
    BY <2>1, <2>2, Zenon
  <2>5. ~IsRoot(ptr)
    BY <2>1, <2>2, <2>3, <2>4, Zenon
  <2>6. patch.status = 0
    BY <2>1, <2>2, <2>4, <2>5, Zenon
  <2>7. DelEffect(c, v) = Commit(DropIfChildless(patch.doc), Number(1))
    BY <2>1, <2>4, <2>5, <2>6, Zenon
  <2>8. DelEffect(c, v).val = DropIfChildless(patch.doc)
    BY <2>7 DEF Commit
  <2> QED BY <2>5, <2>6, <2>8
<1>6. old # {} /\ patch.doc = Without(d, pl) /\ pl \in old
  <2>1. old # {} /\ patch.doc = Without(d, pl)
    BY <1>5 DEF PatchRemove, Patched
  <2> QED BY <2>1
<1>7. e = patch.doc
  <2>1. DropIfChildless(patch.doc) = Doc(patch.doc)
    BY <1>5, DocIs DEF DropIfChildless
  <2> HIDE DEF patch
  <2> QED BY <1>5, <2>1, DocIs
<1>8. ptr.toks # <<>>
  <2> HIDE DEF ptr, pl
  <2> QED BY <1>2, <1>3, <1>6, DetachPathType
<1> HIDE DEF ptr, d, t, tok, patch, pl
<1>9. PICK p \in DOMAIN d : \E i \in 1..d[p].n :
        /\ pl = <<p, i>> /\ d[p].t \in Container /\ d[p].n \in Nat
        /\ Resolves(d, Parent(t), p) /\ Selects(d, p, tok, i)
  <2>1. LastTok(ptr) \in T /\ pl \in DetachPath(d, ptr)
    BY <1>4, <1>6, <1>8 DEF tok, d
  <2>2. \E p \in DOMAIN d : \E i \in 1..d[p].n :
          /\ pl = <<p, i>> /\ d[p].t \in Container /\ d[p].n \in Nat
          /\ Resolves(d, Parent(Aim(ptr)), p) /\ Selects(d, p, LastTok(ptr), i)
    BY <1>2, <1>3, <1>8, <2>1, RemoveTakes
  <2> QED BY <1>3, <2>2 DEF tok
<1>10. PICK i \in 1..d[p].n :
        /\ pl = <<p, i>> /\ d[p].t \in Container /\ d[p].n \in Nat
        /\ Resolves(d, Parent(t), p) /\ Selects(d, p, tok, i)
  BY <1>9
<1>11. e = Without(d, <<p, i>>) /\ e = DetachItems(d, p, i, 1)
  BY <1>6, <1>7, <1>10 DEF Without
<1>12. /\ i \in Position /\ p \in Address /\ Append(p, i) \in DOMAIN d
       /\ i + 1 - 1 <= d[p].n /\ 1 <= d[p].n
  BY <1>2, <1>10 DEF WellFormed, Labelled, Counted, Position
<1>13. /\ t \in Seq(Tok) /\ Len(t) \in Nat \ {0} /\ t[Len(t)] = tok
  <2>1. /\ Aim(ptr) \in Seq(Tok) /\ Len(Aim(ptr)) \in Nat \ {0}
        /\ Aim(ptr)[Len(Aim(ptr))] = LastTok(ptr)
    BY <1>2, <1>3, <1>8, HolderIs, Zenon
  <2> QED BY <1>3, <2>1 DEF tok
<1>14. Resolves(d, t, Append(p, i))
  BY <1>10, <1>12, <1>13, ResolvesStep
<1>15. Parent(Append(p, i)) = p /\ Append(p, i)[Len(Append(p, i))] = i
  BY <1>12, AppendParent
<1>16. Items(e, p) = SeqExt!RemoveAt(Items(d, p), i)
  <2> DEFINE s == Items(d, p)
             u == Items(e, p)
             n == d[p].n
  <2>1. n \in Nat /\ i \in 1..n
    BY <1>10
  <2>2. Spelled(u, n - 1) /\ Thinned(u, s, i, n, 1)
    BY <1>2, <1>10, <1>11, <1>12, DetachedItems
  <2>3. Spelled(s, n)
    BY <1>10, ItemsAre
  <2>4. u = SeqExt!RemoveAt(s, i)
    <3> HIDE DEF s, u, n
    <3> QED BY <2>1, <2>2, <2>3, RemoveIs
  <2> QED BY <2>4
<1>17. WellFormed(e) /\ Plain(M, e) /\ p \in DOMAIN e /\ Beside(d, e, p) /\ KeptAbove(d, e, p)
  <2>1. /\ WellFormed(Without(d, <<p, i>>)) /\ p \in DOMAIN Without(d, <<p, i>>)
        /\ Beside(d, Without(d, <<p, i>>), p) /\ KeptAbove(d, Without(d, <<p, i>>), p)
    BY <1>2, <1>10, OneTaken
  <2>2. Plain(M, DetachItems(d, p, i, 1))
    BY <1>2, <1>10, <1>12, DetachPlain
  <2> QED BY <1>11, <2>1, <2>2
<1>18. Resolves(e, Parent(t), p)
  BY <1>2, <1>10, <1>17, PathKept
<1>19. ASSUME NEW u, TokensIn(T, u), Unrelated(Parent(t), u)
       PROVE  ValueAt(e, u) = ValueAt(d, u)
  <2>1. TokensIn(T, Parent(t))
    BY <1>2, TargetTokens DEF t
  <2> QED BY <1>2, <1>10, <1>17, <1>18, <1>19, <2>1, ValueKept
<1> QED BY <1>12, <1>14, <1>15, <1>16, <1>19 DEF d, t

\* JSON.DEL that answers 1 takes the one item its path leads to out of its
\* container, and changes no unrelated container.
THEOREM DelIsLocal ==
  ASSUME NEW M, NEW T, ToldApart(M, T), \A c \in Calls : UsualCall(M, T, c)
  PROVE  Spec => DelTakesOneItem
<1> DEFINE Takes == \A k \in Key : Acked("del", k) /\ IsDoc(k) =>
             LET d == db[k].root
                 e == db'[k].root
                 t == Target(call'.path)
             IN \E a \in DOMAIN d :
                  /\ Resolves(d, t, a)
                  /\ Items(e, Parent(a)) = SeqExt!RemoveAt(Items(d, Parent(a)), a[Len(a)])
                  /\ \A u \in Probes :
                       Unrelated(Parent(t), u) => ValueAt(e, u) = ValueAt(d, u)
<1>1. TypeOK /\ DocsPlain(M) /\ [Next]_vars => [Takes]_vars
  <2> SUFFICES ASSUME TypeOK, DocsPlain(M), Next, NEW k \in Key, Acked("del", k), IsDoc(k)
               PROVE  LET d == db[k].root
                          e == db'[k].root
                          t == Target(call'.path)
                      IN \E a \in DOMAIN d :
                           /\ Resolves(d, t, a)
                           /\ Items(e, Parent(a)) = SeqExt!RemoveAt(Items(d, Parent(a)), a[Len(a)])
                           /\ \A u \in Probes :
                                Unrelated(Parent(t), u) => ValueAt(e, u) = ValueAt(d, u)
    OBVIOUS
  <2>1. /\ call' \in Calls /\ call'.op = "del" /\ IsCall(call') /\ IsValue(db[k])
        /\ Effect(call', db[k]).sent /\ db'[k] = Effect(call', db[k]).val
    BY AckedStep
  <2>2. Effect(call', db[k]) = DelEffect(call', db[k]) /\ call'.op \in KeyOps
    BY <2>1 DEF Effect, KeyOps
  <2>3. PlainValue(M, db[k]) /\ UsualCall(M, T, call')
    BY <2>1 DEF DocsPlain
  <2>4. DelEffect(call', db[k]).val = Doc(db'[k].root)
    <3>1. IsValue(db'[k])
      BY <2>1, <2>2, EffectSound
    <3> QED BY <2>1, <2>2, <3>1, ValueIsDoc DEF IsDoc
  <2>5. \A u \in Probes : TokensIn(T, u)
    BY DEF Probes, UsualCall, TokensIn
  <2> DEFINE e == db'[k].root
             c == call'
             v == db[k]
             t == Target(call'.path)
  <2>6. \E a \in DOMAIN v.root :
          /\ Resolves(v.root, t, a)
          /\ Items(e, Parent(a)) = SeqExt!RemoveAt(Items(v.root, Parent(a)), a[Len(a)])
          /\ \A u : TokensIn(T, u) /\ Unrelated(Parent(t), u) => ValueAt(e, u) = ValueAt(v.root, u)
    <3>1. /\ IsCall(c) /\ UsualCall(M, T, c) /\ IsValue(v) /\ PlainValue(M, v)
          /\ DelEffect(c, v).sent /\ DelEffect(c, v).val = Doc(e) /\ t = Target(c.path)
      BY <2>1, <2>2, <2>3, <2>4
    <3> HIDE DEF e, c, v, t
    <3> QED BY <3>1, DelTakes
  <2> QED BY <2>5, <2>6
<1>2. DelTakesOneItem <=> [][Takes]_vars
  BY DEF DelTakesOneItem
<1> HIDE DEF Takes
<1> QED BY <1>1, <1>2, AlwaysPlain, PTL DEF Spec

\* What a path reads below a node, its rest reads in the copy of the node.
LEMMA ValueThrough ==
  ASSUME NEW d, WellFormed(d), NEW a \in DOMAIN d,
         NEW s \in Seq(Tok), Resolves(d, s, a), NEW u \in Seq(Tok), Under(s, u)
  PROVE  ValueAt(d, u) = ValueAt(Subtree(d, a), Suffix(u, Len(a)))
<1> DEFINE c == Subtree(d, a)
           w == Suffix(u, Len(a))
<1>1. /\ a \in Address /\ Labelled(d) /\ Len(a) \in Nat /\ Len(s) = Len(a) /\ Len(a) <= Len(u)
      /\ \A j \in 1..Len(a) : u[j] = s[j]
  BY LenProperties DEF WellFormed, Labelled, Address, Resolves, Under
<1>2. ASSUME NEW b \in DOMAIN d, Resolves(d, u, b)
      PROVE  \E r \in DOMAIN c : Resolves(c, w, r) /\ Subtree(c, r) = Subtree(d, b)
  <2> DEFINE q == Prefix(b, Len(a))
  <2>1. b \in Address /\ Len(b) = Len(u) /\ Len(b) \in Nat /\ Len(a) \in 0..Len(b)
    BY <1>1, <1>2, LenProperties DEF Labelled, Address, Resolves
  <2>2. q \in DOMAIN d
    BY <2>1, PrefixInTree
  <2>3. Resolves(d, s, q)
    <3>1. Len(q) = Len(a)
      BY <1>1 DEF Prefix
    <3>2. ASSUME NEW j \in 1..Len(a)
          PROVE  Selects(d, Prefix(q, j - 1), s[j], q[j])
      <4>1. j \in 1..Len(b) /\ \A l \in 1..(j - 1) : l \in 1..Len(a)
        BY <1>1, <2>1
      <4>2. Prefix(q, j - 1) = Prefix(b, j - 1) /\ q[j] = b[j]
        BY <4>1 DEF Prefix
      <4> QED BY <1>1, <1>2, <4>1, <4>2 DEF Resolves
    <3> HIDE DEF q
    <3> QED BY <1>1, <3>1, <3>2 DEF Resolves
  <2>4. q = a
    <3> HIDE DEF q
    <3> QED BY <2>2, <2>3, ResolvesOnce
  <2>5. Under(a, b)
    BY <2>1, <2>4 DEF Under, Prefix
  <2> DEFINE r == Suffix(b, Len(a))
  <2>6. r \in Address /\ a \o r = b
    BY <1>1, <2>1, <2>5, UnderIs
  <2> HIDE DEF q, r, c, w
  <2>7. r \in DOMAIN c
    BY <1>1, <2>6, SubtreeIs DEF c
  <2>8. Resolves(c, w, r)
    BY <1>2, <2>6, SubtreeResolves DEF c, w
  <2>9. Subtree(c, r) = Subtree(d, b)
    BY <2>6, SubtreeTwice DEF c
  <2> QED BY <2>7, <2>8, <2>9
<1>3. ASSUME NEW r \in DOMAIN c, Resolves(c, w, r)
      PROVE  \E b \in DOMAIN d : Resolves(d, u, b) /\ Subtree(d, b) = Subtree(c, r)
  <2>1. r \in Address /\ a \o r \in DOMAIN d
    BY <1>1, SubtreeIs
  <2>2. Resolves(d, u, a \o r)
    BY <1>3, <2>1, SubtreeResolves
  <2>3. Subtree(c, r) = Subtree(d, a \o r)
    BY <2>1, SubtreeTwice
  <2> QED BY <2>1, <2>2, <2>3
<1> HIDE DEF c, w
<1> QED BY <1>2, <1>3 DEF ValueAt, c, w

\* What a path that goes on below p reads is decided by the child of p that its
\* next token selects.
LEMMA ValueBelow ==
  ASSUME NEW d, WellFormed(d), NEW p \in DOMAIN d, NEW s \in Seq(Tok), Resolves(d, s, p),
         NEW u \in Seq(Tok), Under(s, u), Len(s) < Len(u)
  PROVE  LET n == Len(s) + 1
         IN /\ \A x : Selects(d, p, u[n], x) =>
                 ValueAt(d, u) = ValueAt(Subtree(d, Append(p, x)), Suffix(u, n))
            /\ (\A x : ~Selects(d, p, u[n], x)) => ValueAt(d, u) = {}
<1> DEFINE n == Len(s) + 1
           v == Prefix(u, n)
<1>1. /\ p \in Address /\ Len(p) \in Nat /\ Len(s) \in Nat /\ Len(u) \in Nat
      /\ Len(s) = Len(p) /\ Len(s) < Len(u) /\ \A j \in 1..Len(s) : u[j] = s[j]
  BY LenProperties DEF WellFormed, Labelled, Address, Resolves, Under
<1>2. n \in 1..Len(u) /\ n - 1 = Len(p) /\ n - 1 = Len(s) /\ n \in Nat \ {0}
  BY <1>1
<1>3. /\ v \in Seq(Tok) /\ Len(v) = n /\ v[n] = u[n] /\ Parent(v) = s /\ Under(v, u)
  <2>1. n \in Nat /\ \A l \in 1..n : u[l] \in Tok /\ l \in 1..Len(u)
    BY <1>1, <1>2, ElementOfSeq
  <2>2. v = [j \in 1..n |-> u[j]] /\ v \in Seq(Tok) /\ Len(v) = n
    <3> HIDE DEF n
    <3> QED BY <2>1 DEF Prefix
  <2>3. Parent(v) = s
    <3>1. Parent(v) = [j \in 1..(n - 1) |-> v[j]]
      BY <2>2 DEF Parent, Prefix
    <3>2. \A j \in 1..(n - 1) : v[j] = s[j]
      <4>1. \A j \in 1..(n - 1) : j \in 1..n /\ j \in 1..Len(s)
        BY <1>1, <1>2
      <4> QED BY <1>1, <2>2, <4>1
    <3>3. s = [j \in 1..Len(s) |-> s[j]]
      BY LenProperties
    <3> HIDE DEF n, v
    <3> QED BY <1>2, <3>1, <3>2, <3>3
  <2>4. v[n] = u[n]
    BY <1>2, <2>2
  <2>5. Under(v, u)
    <3> HIDE DEF n, v
    <3> QED BY <1>2, <2>2 DEF Under
  <2> QED BY <2>2, <2>3, <2>4, <2>5
<1>4. u[n] \in Tok
  BY <1>2, ElementOfSeq
<1> HIDE DEF n, v
<1>5. ASSUME NEW x, Selects(d, p, u[n], x)
      PROVE  ValueAt(d, u) = ValueAt(Subtree(d, Append(p, x)), Suffix(u, n))
  <2>1. x \in Position /\ Append(p, x) \in DOMAIN d
    BY <1>4, <1>5, SelectedIsChild
  <2>2. Len(Append(p, x)) = n
    BY <1>1, <1>2, <2>1, AppendProperties DEF Address
  <2>3. Resolves(d, v, Append(p, x))
    <3>1. Resolves(d, Parent(v), p) /\ Selects(d, p, v[Len(v)], x) /\ Len(v) \in Nat \ {0}
      BY <1>2, <1>3, <1>5
    <3> QED BY <1>1, <1>3, <2>1, <3>1, ResolvesStep
  <2> DEFINE a == Append(p, x)
  <2> HIDE DEF a
  <2>4. a \in DOMAIN d /\ Resolves(d, v, a) /\ Len(a) = n
    BY <2>1, <2>2, <2>3 DEF a
  <2>5. ValueAt(d, u) = ValueAt(Subtree(d, a), Suffix(u, Len(a)))
    BY <1>3, <2>4, ValueThrough
  <2> QED BY <2>4, <2>5 DEF a
<1>6. ASSUME NEW b \in DOMAIN d, Resolves(d, u, b)
      PROVE  \E x : Selects(d, p, u[n], x)
  <2> DEFINE q == Prefix(b, n - 1)
  <2>1. b \in Address /\ Len(b) = Len(u) /\ Len(b) \in Nat /\ n - 1 \in 0..Len(b) /\ n \in 1..Len(b)
    BY <1>1, <1>2, <1>6, LenProperties DEF WellFormed, Labelled, Address, Resolves
  <2>2. q \in DOMAIN d
    BY <2>1, PrefixInTree
  <2>3. Resolves(d, s, q)
    <3>1. Len(q) = Len(s)
      BY <1>2 DEF Prefix
    <3>2. ASSUME NEW j \in 1..Len(s)
          PROVE  Selects(d, Prefix(q, j - 1), s[j], q[j])
      <4>1. j \in 1..Len(b) /\ j \in 1..(n - 1) /\ \A l \in 1..(j - 1) : l \in 1..(n - 1)
        BY <1>1, <1>2, <2>1
      <4>2. Prefix(q, j - 1) = Prefix(b, j - 1) /\ q[j] = b[j]
        BY <4>1 DEF Prefix
      <4> QED BY <1>1, <1>6, <4>1, <4>2 DEF Resolves
    <3> HIDE DEF q
    <3> QED BY <3>1, <3>2 DEF Resolves
  <2>4. q = p
    <3> HIDE DEF q
    <3> QED BY <2>2, <2>3, ResolvesOnce
  <2>5. Selects(d, q, u[n], b[n])
    BY <1>6, <2>1 DEF Resolves
  <2> QED BY <2>4, <2>5
<1>7. (\A x : ~Selects(d, p, u[n], x)) => ValueAt(d, u) = {}
  BY <1>6 DEF ValueAt
<1> QED BY <1>5, <1>7 DEF n

\* A path that is unrelated to t but not to the way there parts from t at its
\* last token.
LEMMA PartsAtLast ==
  ASSUME NEW t \in Seq(Tok), Len(t) \in Nat \ {0}, NEW u \in Seq(Tok), Unrelated(t, u)
  PROVE  \/ Unrelated(Parent(t), u)
         \/ /\ Under(Parent(t), u) /\ Len(Parent(t)) < Len(u) /\ Len(Parent(t)) + 1 = Len(t)
            /\ u[Len(t)] # t[Len(t)] /\ Len(t) \in 1..Len(u)
<1> DEFINE s == Parent(t)
           n == Len(t)
           m == Len(u)
<1>1. Len(s) = n - 1 /\ \A j \in 1..(n - 1) : s[j] = t[j]
  BY DEF Parent, Prefix
<1>2. n \in Nat \ {0} /\ m \in Nat
  BY LenProperties
<1>3. /\ Under(t, u) <=> n <= m /\ \A j \in 1..n : u[j] = t[j]
      /\ Under(u, t) <=> m <= n /\ \A j \in 1..m : t[j] = u[j]
      /\ ~Under(t, u) /\ ~Under(u, t)
  BY DEF Under, Unrelated
<1>4. /\ Under(s, u) <=> n - 1 <= m /\ \A j \in 1..(n - 1) : u[j] = s[j]
      /\ Under(u, s) <=> m <= n - 1 /\ \A j \in 1..m : s[j] = u[j]
      /\ Unrelated(s, u) <=> ~Under(s, u) /\ ~Under(u, s)
  BY <1>1 DEF Under, Unrelated
<1> HIDE DEF s, n, m
<1>5. ~Under(u, s)
  <2>1. SUFFICES ASSUME m <= n - 1, \A j \in 1..m : s[j] = u[j]
                 PROVE  FALSE
    BY <1>4
  <2>2. m <= n /\ \A j \in 1..m : j \in 1..(n - 1)
    BY <1>2, <2>1
  <2>3. \A j \in 1..m : t[j] = u[j]
    BY <1>1, <2>1, <2>2
  <2> QED BY <1>3, <2>2, <2>3
<1>6. ASSUME Under(s, u)
      PROVE  n \in 1..m /\ u[n] # t[n]
  <2>1. n - 1 <= m /\ \A j \in 1..(n - 1) : u[j] = t[j]
    BY <1>1, <1>4, <1>6
  <2>2. n <= m
    <3>1. SUFFICES ASSUME m = n - 1 PROVE FALSE
      BY <1>2, <2>1
    <3>2. m <= n /\ \A j \in 1..m : j \in 1..(n - 1)
      BY <1>2, <3>1
    <3>3. \A j \in 1..m : t[j] = u[j]
      BY <2>1, <3>2
    <3> QED BY <1>3, <3>2, <3>3
  <2>3. \A j \in 1..n : j \in 1..(n - 1) \/ j = n
    BY <1>2
  <2>4. u[n] # t[n]
    BY <1>3, <2>1, <2>2, <2>3
  <2> QED BY <1>2, <2>2, <2>4
<1>7. CASE Under(s, u)
  <2>1. Len(s) < m /\ Len(s) + 1 = n
    BY <1>1, <1>2, <1>6, <1>7
  <2> QED BY <1>6, <1>7, <2>1 DEF s, n, m
<1>8. CASE ~Under(s, u)
  BY <1>4, <1>5, <1>8 DEF s
<1> QED BY <1>7, <1>8

\* A path that ends in tok, its tokens told apart.
AimsAt(T, t, tok) ==
  /\ t \in Seq(Tok) /\ Len(t) \in Nat \ {0} /\ tok = t[Len(t)] /\ Parent(t) \in Seq(Tok)
  /\ TokensIn(T, t) /\ TokensIn(T, Parent(t))

\* JSON.SET leaves what an unrelated path reads, but for the path to the place
\* at the end of an array that "-" fills.
LEMMA SetKeeps ==
  ASSUME NEW M, NEW T, ToldApart(M, T), NEW d, WellFormed(d), Plain(M, d),
         NEW t, NEW tok, AimsAt(T, t, tok),
         NEW e, NEW value, NEW p, NEW h, NEW i, NEW name,
         SetAt(M, d, e, t, tok, value, p, h, i, name),
         NEW u \in Seq(Tok), TokensIn(T, u), Unrelated(t, u)
  PROVE  \/ ValueAt(d, u) = ValueAt(e, u)
         \/ ValueAt(d, u) = {} /\ Appends(d, t)
<1> DEFINE s == Parent(t)
           n == Len(t)
<1>1. /\ p \in DOMAIN d /\ d[p].t \in Container /\ Resolves(d, s, p)
      /\ IF d[p].t = "object" THEN name = SoughtName[tok] ELSE name = ValueName
      /\ Placed(d, e, p, h, i, name, value) /\ Plain(M, e)
  BY DEF SetAt
<1>2. h # 0 => /\ h \in 1..d[p].n /\ Selects(d, p, tok, h)
               /\ i = (IF d[p].t = "array" THEN h ELSE d[p].n)
  BY DEF SetAt
<1>3. h = 0 => /\ \A x : ~Selects(d, p, tok, x)
               /\ i = d[p].n + 1
               /\ d[p].t = "array" => tok = Dash \/ Index[tok] = d[p].n
  BY DEF SetAt
<1>4. /\ WellFormed(e) /\ p \in DOMAIN e /\ e[p].t = d[p].t /\ i \in 1..e[p].n
      /\ Child(e, p, i).name = name /\ KeptAbove(d, e, p)
      /\ ChildrenKept(d, e, p, h, i) /\ Beside(d, e, p)
  BY <1>1 DEF Placed
<1>5. Resolves(e, s, p)
  BY <1>1, <1>4, PathKept
<1>6. /\ t \in Seq(Tok) /\ s \in Seq(Tok) /\ n \in Nat \ {0} /\ n = Len(t) /\ tok = t[n]
      /\ TokensIn(T, t) /\ TokensIn(T, s)
  BY DEF AimsAt
<1>7. tok \in T /\ d[p].n \in Nat /\ Index[tok] \in Nat \cup {-1} /\ e[p].t \in Container
  <2>1. n \in 1..n
    BY <1>6
  <2>2. tok \in T
    BY <1>6, <2>1 DEF TokensIn
  <2>3. tok \in Tok
    BY <2>2 DEF ToldApart
  <2> QED BY <1>1, <1>4, <2>2, <2>3, TokAssumption DEF WellFormed, Counted
<1> HIDE DEF s, n
<1>8. CASE Unrelated(s, u)
  BY <1>1, <1>4, <1>5, <1>6, <1>8, ValueKept
<1>9. ASSUME Under(s, u), Len(s) < Len(u), Len(s) + 1 = n, u[n] # tok, n \in 1..Len(u)
      PROVE  \/ ValueAt(d, u) = ValueAt(e, u)
             \/ ValueAt(d, u) = {} /\ Appends(d, t)
  <2> DEFINE w == u[n]
  <2>1. w \in T /\ w # tok /\ w \in Tok /\ Index[w] \in Nat \cup {-1}
    BY <1>9, ElementOfSeq, TokAssumption DEF TokensIn
  <2>2. /\ \A x : Selects(d, p, w, x) =>
             ValueAt(d, u) = ValueAt(Subtree(d, Append(p, x)), Suffix(u, n))
        /\ (\A x : ~Selects(d, p, w, x)) => ValueAt(d, u) = {}
    BY <1>1, <1>6, <1>9, ValueBelow
  <2>3. /\ \A x : Selects(e, p, w, x) =>
             ValueAt(e, u) = ValueAt(Subtree(e, Append(p, x)), Suffix(u, n))
        /\ (\A x : ~Selects(e, p, w, x)) => ValueAt(e, u) = {}
    BY <1>4, <1>5, <1>6, <1>9, ValueBelow
  <2>4. \A x : Selects(d, p, w, x) <=>
                 /\ x \in 1..d[p].n
                 /\ IF d[p].t = "array" THEN Index[w] >= 0 /\ x = Index[w] + 1
                    ELSE Child(d, p, x).name = SoughtName[w]
    BY <1>1, <2>1, SelectsIs DEF Child
  <2>5. \A x : Selects(e, p, w, x) <=>
                 /\ x \in 1..e[p].n
                 /\ IF d[p].t = "array" THEN Index[w] >= 0 /\ x = Index[w] + 1
                    ELSE Child(e, p, x).name = SoughtName[w]
    BY <1>1, <1>4, <1>7, <2>1, SelectsIs DEF Child
  <2> HIDE DEF w
  <2>6. ASSUME NEW x, Selects(d, p, w, x)
        PROVE  ValueAt(d, u) = ValueAt(e, u)
    <3>1. x # h
      <4>1. SUFFICES ASSUME x = h PROVE FALSE
        OBVIOUS
      <4>2. h # 0
        BY <1>7, <2>4, <2>6, <4>1
      <4> QED BY <1>1, <1>2, <1>7, <2>1, <2>6, <4>1, <4>2, SameToken
    <3>2. PICK y \in 1..e[p].n : /\ Child(e, p, y) = Child(d, p, x)
                                 /\ d[p].t = "array" => y = x
      BY <1>4, <2>4, <2>6, <3>1 DEF ChildrenKept
    <3>3. Selects(e, p, w, y)
      BY <2>4, <2>5, <2>6, <3>2
    <3>4. Subtree(e, Append(p, y)) = Subtree(d, Append(p, x))
      BY <3>2 DEF Child
    <3> QED BY <2>2, <2>3, <2>6, <3>3, <3>4
  <2>7. ASSUME NEW y, Selects(e, p, w, y), \A x : ~Selects(d, p, w, x)
        PROVE  Appends(d, t)
    <3>1. y = i
      <4>1. SUFFICES ASSUME y # i PROVE FALSE
        OBVIOUS
      <4>2. PICK x \in 1..d[p].n : /\ Child(e, p, y) = Child(d, p, x)
                                   /\ d[p].t = "array" => y = x
        BY <1>4, <2>5, <2>7, <4>1 DEF ChildrenKept
      <4> QED BY <2>4, <2>5, <2>7, <4>2
    <3>2. d[p].t = "array"
      <4>1. SUFFICES ASSUME d[p].t = "object" PROVE FALSE
        BY <1>1 DEF Container
      <4>2. SoughtName[tok] = SoughtName[w]
        BY <1>1, <1>4, <2>5, <2>7, <3>1, <4>1
      <4> QED BY <1>7, <2>1, <4>2 DEF ToldApart
    <3>3. Index[w] >= 0 /\ i = Index[w] + 1
      BY <2>5, <2>7, <3>1, <3>2
    <3>4. h = 0
      <4>1. SUFFICES ASSUME h # 0 PROVE FALSE
        OBVIOUS
      <4>2. Index[tok] >= 0 /\ h = Index[tok] + 1 /\ i = h
        BY <1>1, <1>2, <1>7, <3>2, <4>1, SelectsIs
      <4>3. Index[tok] = Index[w]
        BY <1>7, <2>1, <3>3, <4>2
      <4> QED BY <1>7, <2>1, <4>2, <4>3 DEF ToldApart
    <3>5. tok = Dash
      <4>1. SUFFICES ASSUME Index[tok] = d[p].n PROVE FALSE
        BY <1>3, <3>2, <3>4
      <4>2. Index[tok] = Index[w] /\ Index[tok] >= 0
        BY <1>3, <1>7, <2>1, <3>3, <3>4, <4>1
      <4> QED BY <1>7, <2>1, <4>2 DEF ToldApart
    <3>6. t # <<>>
      BY <1>6 DEF n
    <3> QED BY <1>1, <1>6, <3>2, <3>5, <3>6 DEF Appends, n, s
  <2> QED BY <2>2, <2>3, <2>6, <2>7
<1> QED BY <1>6, <1>8, <1>9, PartsAtLast DEF s, n

\* A JSON.SET that answers OK leaves what unrelated paths read.
LEMMA SetSpares ==
  ASSUME NEW M, NEW T, ToldApart(M, T),
         NEW c, IsCall(c), c.op = "set", UsualCall(M, T, c),
         NEW v, IsValue(v), PlainValue(M, v), v # Empty, SetEffect(c, v).sent,
         NEW u \in Seq(Tok), TokensIn(T, u), Unrelated(Target(c.path), u)
  PROVE  \/ ValueAt(v.root, u) = ValueAt(SetEffect(c, v).val.root, u)
         \/ ValueAt(v.root, u) = {} /\ Appends(v.root, Target(c.path))
<1> DEFINE ptr == PathToPointer(c.path)
           w   == SetEffect(c, v).val
           d   == v.root
           e   == SetEffect(c, v).val.root
           t   == Target(c.path)
           tok == LastTok(ptr)
<1>1. \/ IsRoot(ptr) /\ w = Doc(c.json)
      \/ /\ ptr.toks # <<>> /\ WellFormed(d) /\ Plain(M, d)
         /\ \E p, h, i, name :
              SetAt(M, d, e, Aim(ptr), LastTok(ptr), c.json, p, h, i, name)
  <2> HIDE DEF ptr, w
  <2> QED BY SetIs DEF ptr, w
<1>2. c.path \in Path
  BY DEF IsCall
<1>3. ptr \in Pointer /\ Aim(ptr) = t
  BY <1>2, PointerIs
<1>4. TokensIn(T, t) /\ TokensIn(T, Parent(t))
  BY <1>2, TargetTokens
<1>5. ~IsRoot(ptr)
  <2>1. SUFFICES ASSUME IsRoot(ptr) PROVE FALSE
    OBVIOUS
  <2>2. t = <<>>
    BY <1>3, <2>1 DEF IsRoot, Aim
  <2>3. Under(<<>>, u)
    BY LenProperties DEF Under
  <2> QED BY <2>2, <2>3 DEF Unrelated
<1>6. /\ ptr.toks # <<>> /\ WellFormed(d) /\ Plain(M, d)
      /\ \E p, h, i, name :
           SetAt(M, d, e, Aim(ptr), LastTok(ptr), c.json, p, h, i, name)
  BY <1>1, <1>5
<1>7. /\ t \in Seq(Tok) /\ Len(t) \in Nat \ {0} /\ t[Len(t)] = LastTok(ptr)
      /\ Parent(t) \in Seq(Tok)
  <2>1. /\ Aim(ptr) \in Seq(Tok) /\ Len(Aim(ptr)) \in Nat \ {0}
        /\ Aim(ptr)[Len(Aim(ptr))] = LastTok(ptr) /\ Parent(Aim(ptr)) \in Seq(Tok)
    BY <1>3, <1>6, HolderIs, Zenon
  <2> QED BY <1>3, <2>1
<1>8. Unrelated(t, u)
  OBVIOUS
<1>9. PICK p, h, i, name : SetAt(M, d, e, t, tok, c.json, p, h, i, name)
  <2> HIDE DEF d, e, t
  <2> QED BY <1>3, <1>6
<1> HIDE DEF ptr, d, e, t, tok
<1>10. \/ ValueAt(d, u) = ValueAt(e, u)
       \/ ValueAt(d, u) = {} /\ Appends(d, t)
  <2>1. WellFormed(d) /\ Plain(M, d)
    BY <1>6
  <2>2. AimsAt(T, t, tok)
    BY <1>4, <1>7 DEF AimsAt, tok
  <2> QED BY <1>8, <1>9, <2>1, <2>2, SetKeeps
<1> QED BY <1>10 DEF d, e, t

\* JSON.SET that answers OK changes nothing that an unrelated path reads, but
\* for the place at the end of an array that it has appended to.
THEOREM SetIsLocal ==
  ASSUME NEW M, NEW T, ToldApart(M, T), \A c \in Calls : UsualCall(M, T, c)
  PROVE  Spec => SetKeepsTheRest
<1> DEFINE Spares == \A k \in Key : Acked("set", k) /\ WasDoc(k) =>
             \A u \in Probes :
               LET before == ValueAt(db[k].root, u)
                   t      == Target(call'.path)
               IN Unrelated(t, u) =>
                    \/ before = ValueAt(db'[k].root, u)
                    \/ before = {} /\ Appends(db[k].root, t)
<1>1. TypeOK /\ DocsPlain(M) /\ [Next]_vars => [Spares]_vars
  <2> SUFFICES ASSUME TypeOK, DocsPlain(M), Next, NEW k \in Key, Acked("set", k), WasDoc(k),
                      NEW u \in Probes, Unrelated(Target(call'.path), u)
               PROVE  \/ ValueAt(db[k].root, u) = ValueAt(db'[k].root, u)
                      \/ /\ ValueAt(db[k].root, u) = {}
                         /\ Appends(db[k].root, Target(call'.path))
    OBVIOUS
  <2>1. /\ call' \in Calls /\ call'.op = "set" /\ IsCall(call') /\ IsValue(db[k])
        /\ Effect(call', db[k]).sent /\ db'[k] = Effect(call', db[k]).val
    BY AckedStep
  <2>2. Effect(call', db[k]) = SetEffect(call', db[k])
    BY <2>1 DEF Effect
  <2>3. PlainValue(M, db[k]) /\ UsualCall(M, T, call')
    BY <2>1 DEF DocsPlain
  <2>4. u \in Seq(Tok) /\ TokensIn(T, u)
    BY CallsAssumption DEF Probes, UsualCall, TokensIn, IsCall, Path
  <2>5. db[k] # Empty
    BY DEF WasDoc
  <2> DEFINE c == call'
             v == db[k]
  <2>6. /\ IsCall(c) /\ c.op = "set" /\ UsualCall(M, T, c) /\ IsValue(v) /\ PlainValue(M, v)
        /\ v # Empty /\ SetEffect(c, v).sent /\ Unrelated(Target(c.path), u)
        /\ db'[k] = SetEffect(c, v).val
    BY <2>1, <2>2, <2>3, <2>5
  <2>7. \/ ValueAt(v.root, u) = ValueAt(SetEffect(c, v).val.root, u)
        \/ ValueAt(v.root, u) = {} /\ Appends(v.root, Target(c.path))
    <3> HIDE DEF c, v
    <3> QED BY <2>4, <2>6, SetSpares
  <2> QED BY <2>6, <2>7
<1>2. SetKeepsTheRest <=> [][Spares]_vars
  BY DEF SetKeepsTheRest
<1> HIDE DEF Spares
<1> QED BY <1>1, <1>2, AlwaysPlain, PTL DEF Spec
=============================================================================
