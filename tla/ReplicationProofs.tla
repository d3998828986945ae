-------------------------- MODULE ReplicationProofs --------------------------
(***************************************************************************)
(* Followers replay the master, for every set of calls in which no batch   *)
(* has a malformed argument.                                               *)
(***************************************************************************)
EXTENDS TairDocReplication, TairDocCommandsProofs

(***************************************************************************)
(* Sequences whose elements come from no particular set.                   *)
(***************************************************************************)
IsSequence(s) == Len(s) \in Nat /\ s = [i \in 1..Len(s) |-> s[i]]

LEMMA AppendAnything ==
  ASSUME NEW s, IsSequence(s), NEW x
  PROVE  /\ IsSequence(Append(s, x))
         /\ Len(Append(s, x)) = Len(s) + 1
         /\ Append(s, x)[Len(s) + 1] = x
         /\ \A i \in 1..Len(s) : Append(s, x)[i] = s[i]
<1> DEFINE T == {s[i] : i \in 1..Len(s)} \cup {x}
<1>1. s \in Seq(T) /\ x \in T
  BY DEF IsSequence
<1> HIDE DEF T
<1>2. /\ Append(s, x) \in Seq(T)
      /\ Len(Append(s, x)) = Len(s) + 1
      /\ Append(s, x)[Len(s) + 1] = x
      /\ \A i \in 1..Len(s) : Append(s, x)[i] = s[i]
  BY <1>1, AppendProperties
<1>3. \A t \in Seq(T) : Len(t) \in Nat /\ t = [i \in 1..Len(t) |-> t[i]]
  OBVIOUS
<1> QED
  BY <1>2, <1>3 DEF IsSequence

(***************************************************************************)
(* The inductive invariant.  FollowersReplayHistory is not inductive: it   *)
(* needs that the history is the replay of the stream, call by call, and   *)
(* ends with what the master has now.                                      *)
(***************************************************************************)
IsKeyspace(m) == m = [k \in Key |-> m[k]] /\ \A k \in Key : IsValue(m[k])

Shapes ==
  /\ IsSequence(stream) /\ IsSequence(hist) /\ Len(hist) = Len(stream) + 1
  /\ \A n \in 1..Len(stream) :
       /\ stream[n].key \in Key /\ stream[n].call \in Calls /\ stream[n].call.op \in KeyOps
  /\ \A n \in 1..Len(hist) : IsKeyspace(hist[n])
  /\ applied = [f \in Follower |-> applied[f]]
  /\ \A f \in Follower : applied[f] \in 0..Len(stream)
  /\ copy = [f \in Follower |-> copy[f]]
  /\ restarts \in 0..MaxRestarts

\* The keyspace after a call of the stream.
Replay(m, s) == Store(m, s.key, Effect(s.call, m[s.key]))

Replayed ==
  /\ hist[1] = NoKeys
  /\ hist[Len(hist)] = db
  /\ \A n \in 1..Len(stream) : hist[n + 1] = Replay(hist[n], stream[n])

Inv == Shapes /\ Replayed /\ FollowersReplayHistory

LEMMA InitInv == Init => Inv
<1> SUFFICES ASSUME Init PROVE Inv
  OBVIOUS
<1>1. IsKeyspace(NoKeys)
  BY DEF IsKeyspace, NoKeys, IsValue
<1>2. /\ Len(hist) = 1 /\ hist[1] = NoKeys /\ Len(stream) = 0
      /\ IsSequence(hist) /\ IsSequence(stream)
  BY DEF Init, IsSequence
<1> QED
  BY <1>1, <1>2, BoundAssumption
     DEF Init, Inv, Shapes, Replayed, FollowersReplayHistory

LEMMA StoreKeyspace ==
  ASSUME NEW m, IsKeyspace(m), NEW k \in Key, NEW e, IsValue(e.val)
  PROVE  IsKeyspace(Store(m, k, e))
<1> DEFINE w == e.val
<1>1. Store(m, k, e) = [m EXCEPT ![k] = w] /\ IsValue(w)
  BY DEF Store
<1> HIDE DEF w
<1> QED
  BY <1>1 DEF IsKeyspace

\* A call that is not propagated is no step at all.
LEMMA UnsentStutters ==
  ASSUME \A c \in Calls : WholeBatch(c), Inv,
         NEW k \in Key, NEW c \in Calls, Execute(k, c), ~Effect(c, db[k]).sent
  PROVE  UNCHANGED vars
<1>1. IsKeyspace(db)
  BY DEF Inv, Shapes, Replayed
<1>2. c.op \in KeyOps /\ db' = Store(db, k, Effect(c, db[k])) /\ UNCHANGED <<stream, hist, followers>>
  BY DEF Execute
<1>3. Effect(c, db[k]).val = db[k]
  BY <1>1, <1>2, CallsAssumption, UnsentKeeps DEF IsKeyspace
<1>4. db' = db
  BY <1>1, <1>2, <1>3 DEF Store, IsKeyspace
<1> QED
  BY <1>2, <1>4 DEF vars, followers

\* A propagated call appends to the stream and to the history.
LEMMA SentInv ==
  ASSUME Inv, NEW k \in Key, NEW c \in Calls, Execute(k, c), Effect(c, db[k]).sent
  PROVE  Inv'
<1> DEFINE s == [key |-> k, call |-> c]
<1>1. /\ c.op \in KeyOps /\ db' = Store(db, k, Effect(c, db[k]))
      /\ stream' = Append(stream, s) /\ hist' = Append(hist, db')
      /\ UNCHANGED <<copy, applied, restarts>>
  BY DEF Execute, followers
<1>2. s.key = k /\ s.call = c
  OBVIOUS
<1> HIDE DEF s
<1>3. IsKeyspace(db)
  BY DEF Inv, Shapes, Replayed
<1>4. IsKeyspace(db')
  <2>1. IsValue(Effect(c, db[k]).val)
    BY <1>1, <1>3, CallsAssumption, EffectSound DEF IsKeyspace
  <2> QED
    BY <1>1, <1>3, <2>1, StoreKeyspace
<1>5. /\ IsSequence(stream') /\ Len(stream') = Len(stream) + 1
      /\ stream'[Len(stream) + 1] = s
      /\ \A i \in 1..Len(stream) : stream'[i] = stream[i]
  BY <1>1, AppendAnything DEF Inv, Shapes
<1>6. /\ IsSequence(hist') /\ Len(hist') = Len(hist) + 1
      /\ hist'[Len(hist) + 1] = db'
      /\ \A i \in 1..Len(hist) : hist'[i] = hist[i]
  BY <1>1, AppendAnything DEF Inv, Shapes
<1>7. /\ Len(stream) \in Nat /\ Len(hist) = Len(stream) + 1
      /\ hist[Len(hist)] = db /\ hist[1] = NoKeys
  BY DEF Inv, Shapes, Replayed, IsSequence
<1>8. Shapes'
  <2>1. \A n \in 1..Len(stream') :
          /\ stream'[n].key \in Key /\ stream'[n].call \in Calls /\ stream'[n].call.op \in KeyOps
    BY <1>1, <1>2, <1>5, <1>7 DEF Inv, Shapes
  <2>2. \A n \in 1..Len(hist') : IsKeyspace(hist'[n])
    BY <1>4, <1>6, <1>7 DEF Inv, Shapes
  <2>3. \A f \in Follower : applied'[f] \in 0..Len(stream')
    BY <1>1, <1>5, <1>7 DEF Inv, Shapes
  <2> QED
    BY <1>1, <1>5, <1>6, <1>7, <2>1, <2>2, <2>3 DEF Inv, Shapes, IsKeyspace
<1>9. Replayed'
  <2>1. \A n \in 1..Len(stream') : hist'[n + 1] = Replay(hist'[n], stream'[n])
    <3> SUFFICES ASSUME NEW n \in 1..Len(stream') PROVE hist'[n + 1] = Replay(hist'[n], stream'[n])
      OBVIOUS
    <3>1. CASE n = Len(stream) + 1
      <4>1. hist'[n + 1] = db' /\ hist'[n] = db /\ stream'[n] = s
        BY <1>5, <1>6, <1>7, <3>1
      <4> QED
        BY <1>1, <1>2, <4>1 DEF Replay
    <3>2. CASE n \in 1..Len(stream)
      <4>1. hist'[n + 1] = hist[n + 1] /\ hist'[n] = hist[n] /\ stream'[n] = stream[n]
        BY <1>5, <1>6, <1>7, <3>2
      <4> QED
        BY <3>2, <4>1 DEF Inv, Replayed
    <3> QED
      BY <1>5, <1>7, <3>1, <3>2
  <2>2. hist'[1] = NoKeys /\ hist'[Len(hist')] = db'
    BY <1>6, <1>7
  <2> QED
    BY <2>1, <2>2 DEF Replayed, Replay, Store, NoKeys
<1>10. FollowersReplayHistory'
  BY <1>1, <1>6, <1>7 DEF Inv, Shapes, FollowersReplayHistory
<1> QED
  BY <1>8, <1>9, <1>10 DEF Inv

\* A follower that runs the next call gets to the next keyspace of the history.
LEMMA ApplyNext ==
  ASSUME Inv, NEW f \in Follower, Apply(f)
  PROVE  /\ applied[f] + 1 \in 1..Len(stream)
         /\ applied' = [applied EXCEPT ![f] = applied[f] + 1]
         /\ copy' = [copy EXCEPT ![f] = hist[applied[f] + 2]]
         /\ UNCHANGED <<db, stream, hist, restarts>>
<1> DEFINE n == applied[f] + 1
           m == copy[f]
           s == stream[n]
<1>1. n \in 1..Len(stream) /\ n + 1 = applied[f] + 2
  BY DEF Inv, Shapes, Apply, IsSequence
<1>2. hist[n + 1] = Replay(hist[n], s) /\ m = hist[n]
  BY <1>1 DEF Inv, Replayed, FollowersReplayHistory
<1>3. copy' = [copy EXCEPT ![f] = Store(m, s.key, Effect(s.call, m[s.key]))]
  BY DEF Apply, Inv, Shapes
<1>4. /\ applied' = [applied EXCEPT ![f] = applied[f] + 1]
      /\ UNCHANGED <<db, stream, hist, restarts>>
  BY DEF Apply, master
<1> HIDE DEF n, m, s
<1>5. Store(m, s.key, Effect(s.call, m[s.key])) = hist[applied[f] + 2]
  BY <1>1, <1>2 DEF Replay
<1> QED
  BY <1>1, <1>3, <1>4, <1>5 DEF n

\* A follower moves to a place whose keyspace it shows: master and history stay.
LEMMA MoveInv ==
  ASSUME Inv, NEW f \in Follower, NEW n \in 0..Len(stream),
         applied' = [applied EXCEPT ![f] = n],
         copy' = [copy EXCEPT ![f] = hist[n + 1]],
         UNCHANGED <<db, stream, hist>>, restarts' \in 0..MaxRestarts
  PROVE  Inv'
<1>1. /\ applied' = [g \in Follower |-> IF g = f THEN n ELSE applied[g]]
      /\ copy' = [g \in Follower |-> IF g = f THEN hist[n + 1] ELSE copy[g]]
  BY DEF Inv, Shapes
<1>2. \A g \in Follower : /\ applied'[g] = IF g = f THEN n ELSE applied[g]
                          /\ copy'[g] = IF g = f THEN hist[n + 1] ELSE copy[g]
  BY <1>1
<1>3. /\ applied' = [g \in Follower |-> applied'[g]]
      /\ copy' = [g \in Follower |-> copy'[g]]
  BY <1>1, <1>2
<1>4. stream' = stream /\ hist' = hist /\ db' = db
  OBVIOUS
<1>5. Shapes'
  <2>1. IsSequence(stream)' /\ IsSequence(hist)' /\ Len(hist') = Len(stream') + 1
    BY <1>4 DEF Inv, Shapes, IsSequence
  <2>2. \A i \in 1..Len(stream') :
          /\ stream'[i].key \in Key /\ stream'[i].call \in Calls /\ stream'[i].call.op \in KeyOps
    BY <1>4 DEF Inv, Shapes
  <2>3. \A i \in 1..Len(hist') : IsKeyspace(hist'[i])
    BY <1>4 DEF Inv, Shapes
  <2>4. \A g \in Follower : applied'[g] \in 0..Len(stream')
    BY <1>2, <1>4 DEF Inv, Shapes
  <2> QED
    BY <1>3, <2>1, <2>2, <2>3, <2>4 DEF Shapes, IsKeyspace
<1>6. Replayed'
  BY <1>4 DEF Inv, Replayed, Replay, Store, NoKeys
<1>7. FollowersReplayHistory'
  BY <1>2, <1>4 DEF Inv, FollowersReplayHistory
<1> QED
  BY <1>5, <1>6, <1>7 DEF Inv

LEMMA NextInv ==
  ASSUME \A c \in Calls : WholeBatch(c)
  PROVE  Inv /\ [Next]_vars => Inv'
<1> SUFFICES ASSUME Inv, [Next]_vars PROVE Inv'
  OBVIOUS
<1>1. CASE UNCHANGED vars
  BY <1>1 DEF vars, Inv, Shapes, Replayed, FollowersReplayHistory, Replay, Store, NoKeys,
              IsKeyspace, IsSequence
<1>2. ASSUME NEW k \in Key, NEW c \in Calls, Execute(k, c) PROVE Inv'
  <2>1. CASE Effect(c, db[k]).sent
    BY <1>2, <2>1, SentInv
  <2>2. CASE ~Effect(c, db[k]).sent
    BY <1>1, <1>2, <2>2, UnsentStutters
  <2> QED
    BY <2>1, <2>2
<1>3. ASSUME NEW f \in Follower, Apply(f) PROVE Inv'
  <2> DEFINE n == applied[f] + 1
  <2>1. /\ n \in 1..Len(stream)
        /\ applied' = [applied EXCEPT ![f] = n]
        /\ copy' = [copy EXCEPT ![f] = hist[applied[f] + 2]]
        /\ UNCHANGED <<db, stream, hist, restarts>>
    BY <1>3, ApplyNext
  <2>2. n + 1 = applied[f] + 2 /\ n \in 0..Len(stream) /\ restarts' \in 0..MaxRestarts
    BY <2>1 DEF Inv, Shapes, IsSequence
  <2> HIDE DEF n
  <2> QED
    BY <2>1, <2>2, MoveInv
<1>4. ASSUME NEW f \in Follower, Restart(f) PROVE Inv'
  <2>1. /\ restarts' = restarts + 1 /\ restarts < MaxRestarts
        /\ applied' = [applied EXCEPT ![f] = 0]
        /\ copy' = [copy EXCEPT ![f] = NoKeys]
        /\ UNCHANGED <<db, stream, hist>>
    BY <1>4 DEF Restart, master
  <2>2. restarts' \in 0..MaxRestarts /\ 0 \in 0..Len(stream)
    BY <2>1, BoundAssumption DEF Inv, Shapes, IsSequence
  <2>3. hist[0 + 1] = NoKeys
    BY DEF Inv, Replayed
  <2> QED
    BY <2>1, <2>2, <2>3, MoveInv
<1> QED
  BY <1>1, <1>2, <1>3, <1>4 DEF Next

LEMMA InvAlways ==
  ASSUME \A c \in Calls : WholeBatch(c)
  PROVE  Spec => []Inv
<1>1. Inv /\ [Next]_vars => Inv'
  BY NextInv
<1> QED
  BY <1>1, InitInv, PTL DEF Spec

(***************************************************************************)
(* The results.  All of them suppose WholeBatch: a batch with a malformed  *)
(* later argument changes the master and is not propagated (JSON.ARRPUSH,  *)
(* tairdoc.c:775-783), and run ClaimBatch shows what it does to a replica. *)
(***************************************************************************)
\* The replicated commands keep every keyspace well formed and the counters in range.
THEOREM ReplicaTypeCorrect ==
  ASSUME \A c \in Calls : WholeBatch(c)
  PROVE  Spec => []TypeOK
<1>1. Inv => TypeOK
  <2> SUFFICES ASSUME Inv PROVE TypeOK
    OBVIOUS
  <2>1. \A k \in Key : IsValue(db[k])
    <3>1. Len(hist) \in 1..Len(hist) /\ hist[Len(hist)] = db
      BY DEF Inv, Shapes, Replayed, IsSequence
    <3>2. IsKeyspace(db)
      BY <3>1 DEF Inv, Shapes
    <3> QED
      BY <3>2 DEF IsKeyspace
  <2>2. \A f \in Follower : applied[f] + 1 \in 1..Len(hist)
    BY DEF Inv, Shapes, IsSequence
  <2>3. \A f \in Follower, k \in Key : IsValue(copy[f][k])
    BY <2>2 DEF Inv, Shapes, FollowersReplayHistory, IsKeyspace
  <2> QED
    BY <2>1, <2>3 DEF Inv, Shapes, TypeOK
<1> QED
  BY <1>1, InvAlways, PTL

\* A follower shows, after n calls of the stream, what the master had after n.
THEOREM FollowersReplay ==
  ASSUME \A c \in Calls : WholeBatch(c)
  PROVE  Spec => []FollowersReplayHistory
<1>1. Inv => FollowersReplayHistory
  BY DEF Inv
<1> QED
  BY <1>1, InvAlways, PTL

\* A follower that has run the whole stream has the keyspace of the master.
THEOREM CaughtUp ==
  ASSUME \A c \in Calls : WholeBatch(c)
  PROVE  Spec => []CaughtUpIsEqual
<1>1. Inv => CaughtUpIsEqual
  BY DEF Inv, Shapes, Replayed, FollowersReplayHistory, CaughtUpIsEqual
<1> QED
  BY <1>1, InvAlways, PTL

(***************************************************************************)
(* Replication implements the log of states.                               *)
(***************************************************************************)
LEMMA InitIsLogged == Init => Log!Init
BY DEF Init, Log!Init

LEMMA ExecuteIsLogged ==
  ASSUME \A c \in Calls : WholeBatch(c), Inv, NEW k \in Key, NEW c \in Calls, Execute(k, c)
  PROVE  Log!Publish \/ UNCHANGED Log!vars
<1>1. CASE Effect(c, db[k]).sent
  <2>1. hist' = Append(hist, db') /\ applied' = applied /\ copy' = copy
    BY <1>1 DEF Execute, followers
  <2> QED
    BY <2>1 DEF Log!Publish
<1>2. CASE ~Effect(c, db[k]).sent
  <2>1. UNCHANGED vars
    BY <1>2, UnsentStutters
  <2> QED
    BY <2>1 DEF vars, Log!vars
<1> QED
  BY <1>1, <1>2

LEMMA ApplyIsLogged ==
  ASSUME Inv, NEW f \in Follower, Apply(f)
  PROVE  Log!Advance(f)
<1> DEFINE place(a) == [g \in Follower |-> a[g] + 1]
           n == applied[f] + 1
<1>1. /\ n \in 1..Len(stream)
      /\ applied' = [applied EXCEPT ![f] = n]
      /\ copy' = [copy EXCEPT ![f] = hist[applied[f] + 2]]
      /\ UNCHANGED <<db, stream, hist, restarts>>
  BY ApplyNext
<1>2. n + 1 = applied[f] + 2 /\ n < Len(hist)
  BY <1>1 DEF Inv, Shapes, IsSequence
<1>3. \A g \in Follower : applied'[g] = IF g = f THEN n ELSE applied[g]
  BY <1>1 DEF Inv, Shapes
<1>4. place(applied)[f] = n
  OBVIOUS
<1>5. place(applied') = [place(applied) EXCEPT ![f] = @ + 1]
  BY <1>3, <1>4
<1>6. copy' = [copy EXCEPT ![f] = hist[place(applied)[f] + 1]]
  BY <1>1, <1>2, <1>4
<1> QED
  BY <1>1, <1>2, <1>4, <1>5, <1>6 DEF Log!Advance

LEMMA RestartIsLogged ==
  ASSUME Inv, NEW f \in Follower, Restart(f)
  PROVE  Log!Restart(f)
<1> DEFINE place(a) == [g \in Follower |-> a[g] + 1]
<1>1. /\ applied' = [applied EXCEPT ![f] = 0]
      /\ copy' = [copy EXCEPT ![f] = NoKeys]
      /\ UNCHANGED <<db, stream, hist>>
  BY DEF Restart, master
<1>2. \A g \in Follower : applied'[g] = IF g = f THEN 0 ELSE applied[g]
  BY <1>1 DEF Inv, Shapes
<1>3. place(applied') = [place(applied) EXCEPT ![f] = 1]
  <2>1. place(applied') = [g \in Follower |-> IF g = f THEN 1 ELSE place(applied)[g]]
    BY <1>2
  <2> QED
    BY <2>1
<1>4. hist[1] = NoKeys
  BY DEF Inv, Replayed
<1> QED
  BY <1>1, <1>3, <1>4 DEF Log!Restart

\* Every behaviour of the replicated commands is, seen through the history, a
\* log of master states that each follower shows one after the other.
THEOREM ReplicationIsALog ==
  ASSUME \A c \in Calls : WholeBatch(c)
  PROVE  Spec => ImplementsLog
<1>1. Inv /\ [Next]_vars => [Log!Next]_(Log!vars)
  <2> SUFFICES ASSUME Inv, [Next]_vars PROVE Log!Next \/ UNCHANGED Log!vars
    OBVIOUS
  <2>1. CASE UNCHANGED vars
    BY <2>1 DEF vars, Log!vars
  <2>2. ASSUME NEW k \in Key, NEW c \in Calls, Execute(k, c)
        PROVE  Log!Next \/ UNCHANGED Log!vars
    BY <2>2, ExecuteIsLogged DEF Log!Next
  <2>3. ASSUME NEW f \in Follower, Apply(f) PROVE Log!Next
    BY <2>3, ApplyIsLogged DEF Log!Next
  <2>4. ASSUME NEW f \in Follower, Restart(f) PROVE Log!Next
    BY <2>4, RestartIsLogged DEF Log!Next
  <2> QED
    BY <2>1, <2>2, <2>3, <2>4 DEF Next
<1> QED
  BY <1>1, InitIsLogged, InvAlways, PTL DEF Spec, ImplementsLog, Log!Spec
=============================================================================
