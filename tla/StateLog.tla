------------------------------ MODULE StateLog ------------------------------
(***************************************************************************)
(* What replication promises: the states of the master form a log, and a   *)
(* follower shows one state of the log after the other, in order, without  *)
(* ever showing a state the master did not have.                           *)
(***************************************************************************)
EXTENDS Naturals, Sequences

CONSTANTS Follower, First

VARIABLES current,  \* the state of the master
          log,      \* the states it has had
          place,    \* where in the log each follower is
          shown     \* the state each follower shows

vars == <<current, log, place, shown>>

Init ==
  /\ current = First
  /\ log = <<First>>
  /\ place = [f \in Follower |-> 1]
  /\ shown = [f \in Follower |-> First]

\* The master moves to another state, and logs it.
Publish ==
  /\ log' = Append(log, current')
  /\ UNCHANGED <<place, shown>>

Advance(f) ==
  /\ place[f] < Len(log)
  /\ place' = [place EXCEPT ![f] = @ + 1]
  /\ shown' = [shown EXCEPT ![f] = log[place[f] + 1]]
  /\ UNCHANGED <<current, log>>

\* A follower that lost its state starts over.
Restart(f) ==
  /\ place' = [place EXCEPT ![f] = 1]
  /\ shown' = [shown EXCEPT ![f] = log[1]]
  /\ UNCHANGED <<current, log>>

Next ==
  \/ Publish
  \/ \E f \in Follower : Advance(f) \/ Restart(f)

Spec == Init /\ [][Next]_vars
=============================================================================
