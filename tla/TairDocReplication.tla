------------------------- MODULE TairDocReplication -------------------------
(***************************************************************************)
(* A master that propagates its calls with ReplicateVerbatim, and the      *)
(* followers that run them again: replicas, and servers that read the      *)
(* append-only file from its start.  What is propagated is the call, not   *)
(* its effect, and a follower runs it on its own copy and drops the reply. *)
(*                                                                         *)
(* The stream itself (its order, its delivery, a replica that reconnects   *)
(* where it was) is the server's and is taken as a log.                    *)
(***************************************************************************)
EXTENDS TairDocCommands

CONSTANTS Follower,
          MaxStream,   \* bound: calls propagated
          MaxRestarts  \* bound: restarts of followers

ASSUME BoundAssumption == MaxStream \in Nat /\ MaxRestarts \in Nat

VARIABLES db,       \* the keyspace of the master
          stream,   \* the calls it has propagated, each with its key
          hist,     \* history: the keyspaces it had, the first and one per call
          copy,     \* the keyspace of each follower
          applied,  \* how many calls of the stream each follower has run
          restarts  \* history: restarts so far

master    == <<db, stream, hist>>
followers == <<copy, applied, restarts>>
vars      == <<db, stream, hist, copy, applied, restarts>>

NoKeys == [k \in Key |-> Empty]

Init ==
  /\ db = NoKeys /\ stream = <<>> /\ hist = <<NoKeys>>
  /\ copy = [f \in Follower |-> NoKeys]
  /\ applied = [f \in Follower |-> 0]
  /\ restarts = 0

Store(keys, k, e) == [keys EXCEPT ![k] = e.val]

\* A client's call on the master, propagated or not.
Execute(k, c) ==
  LET e == Effect(c, db[k])
  IN /\ c.op \in KeyOps
     /\ Fits(e.val)
     /\ db' = Store(db, k, e)
     /\ IF e.sent
        THEN /\ Len(stream) < MaxStream
             /\ stream' = Append(stream, [key |-> k, call |-> c])
             /\ hist' = Append(hist, db')
        ELSE UNCHANGED <<stream, hist>>
     /\ UNCHANGED followers

\* Mutant of Apply: the offset moves on and the call is not run.
ApplyLosesCall(f) ==
  /\ applied[f] < Len(stream)
  /\ applied' = [applied EXCEPT ![f] = @ + 1]
  /\ UNCHANGED <<master, copy, restarts>>

\* A follower runs the next call of the stream.
Apply(f) ==
  /\ applied[f] < Len(stream)
  /\ LET next == stream[applied[f] + 1]
     IN copy' = [copy EXCEPT ![f] =
                   Store(@, next.key, Effect(next.call, @[next.key]))]
  /\ applied' = [applied EXCEPT ![f] = @ + 1]
  /\ UNCHANGED <<master, restarts>>

\* Mutants of Restart: the keyspace is not emptied, and the offset is kept.
RestartKeepsKeys(f) ==
  /\ restarts < MaxRestarts
  /\ restarts' = restarts + 1
  /\ applied' = [applied EXCEPT ![f] = 0]
  /\ UNCHANGED <<master, copy>>

RestartKeepsOffset(f) ==
  /\ restarts < MaxRestarts
  /\ restarts' = restarts + 1
  /\ copy' = [copy EXCEPT ![f] = NoKeys]
  /\ UNCHANGED <<master, applied>>

\* A follower stops, and starts with an empty keyspace and the whole stream.
Restart(f) ==
  /\ restarts < MaxRestarts
  /\ restarts' = restarts + 1
  /\ copy' = [copy EXCEPT ![f] = NoKeys]
  /\ applied' = [applied EXCEPT ![f] = 0]
  /\ UNCHANGED master

Next ==
  \/ \E k \in Key, c \in Calls : Execute(k, c)
  \/ \E f \in Follower : Apply(f) \/ Restart(f)

Spec == Init /\ [][Next]_vars

\* The server keeps feeding a replica and reads an append-only file to its end.
FairSpec == Spec /\ \A f \in Follower : WF_vars(Apply(f))

(***************************************************************************)
(* Properties.                                                             *)
(***************************************************************************)
\* The keyspaces hold well-formed documents, and the counters stay in range.
TypeOK ==
  /\ \A k \in Key : IsValue(db[k])
  /\ \A f \in Follower, k \in Key : IsValue(copy[f][k])
  /\ \A f \in Follower : applied[f] \in 0..Len(stream)
  /\ restarts \in 0..MaxRestarts

\* A follower that has run n calls has the keyspace the master had after it
\* propagated n calls: commands are deterministic, and no handler changes the
\* keyspace without propagating the call or propagates another call.
FollowersReplayHistory ==
  \A f \in Follower : copy[f] = hist[applied[f] + 1]

\* A follower that has run the whole stream has the master's keyspace.
CaughtUpIsEqual ==
  \A f \in Follower : applied[f] = Len(stream) => copy[f] = db

\* A follower catches up, however often it restarted, once the master's
\* stream is at its bound.
CatchesUp == \A f \in Follower : <>[](copy[f] = db)

\* Replication as a log of states that followers show in order.
Log == INSTANCE StateLog WITH
         First <- NoKeys, current <- db, log <- hist,
         place <- [f \in Follower |-> applied[f] + 1], shown <- copy

ImplementsLog == Log!Spec
=============================================================================
