----------------------------- MODULE RoundBarrier -----------------------------
(***************************************************************************)
(* What the secret holder's program promises, whatever messages carry it   *)
(* out: the computing parties work in rounds.  A round is opened by the    *)
(* coordinator once every participant has done the round before, and a     *)
(* participant does the open round at most once.                           *)
(***************************************************************************)
EXTENDS Naturals

CONSTANTS
  Participants,
  Rounds          \* how many rounds there are, at least one

VARIABLES round,   \* the round the coordinator has opened
          done     \* the last round each participant has done

Init == round = 1 /\ done = [p \in Participants |-> 0]

Do(p) ==
  /\ done[p] = round - 1
  /\ done' = [done EXCEPT ![p] = round]
  /\ UNCHANGED round

Open ==
  /\ round < Rounds
  /\ \A p \in Participants : done[p] = round
  /\ round' = round + 1
  /\ UNCHANGED done

Next == Open \/ \E p \in Participants : Do(p)

Spec == Init /\ [][Next]_<<round, done>>
=============================================================================
