-------------------------- MODULE PartyBarrierProofs --------------------------
(***************************************************************************)
(* The session of PartyProtocol implements the four rounds of RoundBarrier *)
(* for any number of parties.                                              *)
(*                                                                         *)
(* The inductive invariant holds every party within one round of the       *)
(* program.  A step of the program leaves the parties as they are, so that *)
(* it can enter a round only when that bound is tight; a step of a party   *)
(* leaves the program as it is and undoes nothing of what the party has    *)
(* done, so that it either does the open round or none.                    *)
(***************************************************************************)
EXTENDS PartyProtocolProofs

\* RoundDone of a party with its shares or not, a product and a place.
DoneAt(has, y, at) ==
  (IF has THEN 1 ELSE 0) + (IF y # "zero" THEN 1 ELSE 0)
    + (IF y = "freed" THEN 1 ELSE 0) + (IF at = "exited" THEN 1 ELSE 0)

\* The round of the last but one step that a party can have seen done.
LEMMA SessionRound ==
  ASSUME NEW k \in 0 .. 15, NEW c, NEW req, NEW rep, NEW at, NEW has \in BOOLEAN, NEW y,
         SessionAt(k, c, req, rep, at, has, y)
  PROVE  /\ DoneAt(has, y, at) \in 0 .. 4
         /\ k \in 0 .. 5 => DoneAt(has, y, at) \in {0, 1}
         /\ k \in 5 .. 9 => DoneAt(has, y, at) \in {1, 2}
         /\ k \in 9 .. 14 => DoneAt(has, y, at) \in {2, 3}
         /\ k \in 14 .. 15 => DoneAt(has, y, at) \in {3, 4}
<1>1. CASE k \in {0, 1, 2}
  BY <1>1 DEF SessionAt, After0, After1, After2, DoneAt
<1>2. CASE k \in {3, 4, 5, 6}
  BY <1>2 DEF SessionAt, After3, After4, After5, After6, DoneAt
<1>3. CASE k \in {7, 8, 9}
  BY <1>3 DEF SessionAt, After7, After8, After9, DoneAt
<1>4. CASE k \in {10, 11, 12, 13, 14}
  BY <1>4 DEF SessionAt, After10, Fetched, DoneAt
<1>5. CASE k = 15
  BY <1>5 DEF SessionAt, After15, DoneAt
<1>. QED
  BY <1>1, <1>2, <1>3, <1>4, <1>5

\* No party is a round ahead of the program, and none is two behind.
InStep == Round \in 1 .. 4 /\ \A p \in Parties : RoundDone(p) \in {Round - 1, Round}

LEMMA WithinARound == IInv => InStep
<1>. SUFFICES ASSUME IInv PROVE InStep
  OBVIOUS
<1>1. dealer.step \in 1 .. 16 /\ dealer.to \in 1 .. N /\ N \in Nat
  BY TypedLemma, NodesAndParties DEF IInv, Typed, Parties
<1>2. ASSUME NEW p \in Parties PROVE RoundDone(p) \in {Round - 1, Round}
  <2>1. Progress(p) \in {dealer.step - 1, dealer.step}
    BY <1>1 DEF Progress, Parties
  <2>2. dealer.step = 16 => Progress(p) = 15
    BY ProgressRange DEF IInv
  <2>3. RoundDone(p) = DoneAt(stored[p], z[p], pc[p])
    BY DEF RoundDone, DoneAt
  <2>4. /\ Progress(p) \in 0 .. 5 => RoundDone(p) \in {0, 1}
        /\ Progress(p) \in 5 .. 9 => RoundDone(p) \in {1, 2}
        /\ Progress(p) \in 9 .. 14 => RoundDone(p) \in {2, 3}
        /\ Progress(p) \in 14 .. 15 => RoundDone(p) \in {3, 4}
    BY <2>3, SessionNow, SessionRound
  <2>. QED
    BY <1>1, <2>1, <2>2, <2>4 DEF Round
<1>. QED
  BY <1>1, <1>2 DEF Round, InStep

\* So too after a step.
LEMMA WithinARoundNext == IInv' => InStep'
BY WithinARound, PTL

-----------------------------------------------------------------------------
(* Steps.                                                                  *)

\* Entering a round is all the program does to the barrier.
LEMMA ProgramStep ==
  ASSUME IInv, DealerStep
  PROVE  Round' \in {Round, Round + 1} /\ \A p \in Parties : RoundDone(p)' = RoundDone(p)
<1>1. dealer.step \in 1 .. 16 /\ UNCHANGED <<pc, stored, z>>
  BY TypedLemma DEF IInv, Typed, DealerStep, DealerSend, DealerReceive, DealerClose, party
<1>2. dealer' = Advance \/ dealer'.step = dealer.step
  BY TypedLemma DEF IInv, Typed, DealerStep, DealerSend, DealerReceive, DealerClose
<1>3. dealer'.step \in {dealer.step, dealer.step + 1}
  BY <1>1, <1>2, TypedLemma DEF IInv, Typed, Advance
<1>4. Round' \in {Round, Round + 1}
  BY <1>1, <1>3 DEF Round
<1>. QED
  BY <1>1, <1>4 DEF RoundDone

\* What one step may do to a party: nothing is undone.
Onward(p) ==
  /\ stored[p] => stored'[p]
  /\ z[p] = "product" => z'[p] \in {"product", "freed"}
  /\ z[p] = "freed" => z'[p] = "freed"
  /\ pc[p] = "exited" => pc'[p] = "exited"

LEMMA DeathOnward ==
  ASSUME IInv, NEW p \in Parties, NEW requests, NEW replies, Die(p, requests, replies),
         pc[p] # "exited"
  PROVE  /\ Onward(p) /\ \A q \in Parties \ {p} : pc'[q] = pc[q]
         /\ UNCHANGED <<stored, z>>
BY DEF Die, Goto, Onward, IInv, TypeOK

\* A party steps for itself, and onward.
LEMMA PartyOnward ==
  ASSUME IInv, NEW p \in Parties, PartyStep(p)
  PROVE  /\ UNCHANGED dealer /\ Onward(p)
         /\ \A q \in Parties \ {p} :
              stored'[q] = stored[q] /\ z'[q] = z[q] /\ pc'[q] = pc[q]
<1>. DEFINE Others == \A q \in Parties \ {p} :
                        stored'[q] = stored[q] /\ z'[q] = z[q] /\ pc'[q] = pc[q]
<1>t. /\ pc \in [Parties -> {"loop", "shares", "triple", "open", "exited", "dead"}]
      /\ stored \in [Parties -> BOOLEAN]
      /\ z \in [Parties -> {"zero", "product", "freed"}]
  BY DEF IInv, TypeOK
<1>d. ASSUME NEW requests, NEW replies, Die(p, requests, replies), pc[p] # "exited"
      PROVE  Onward(p) /\ Others
  BY <1>d, DeathOnward
<1>z. pc[p] = "open" => z[p] = "zero"
  BY SessionNow, Busy
<1>1. ASSUME NEW s \in Nodes, SendSharesCmd(p, s) PROVE UNCHANGED dealer /\ Onward(p) /\ Others
  BY <1>1, <1>t DEF SendSharesCmd, Handle, Goto, Onward
<1>2. ASSUME NEW s \in Nodes, StoreShares(p, s) PROVE UNCHANGED dealer /\ Onward(p) /\ Others
  BY <1>2, <1>t DEF StoreShares, Goto, Onward
<1>3. ASSUME NEW s \in Nodes, Addition(p, s) PROVE UNCHANGED dealer /\ Onward(p) /\ Others
  BY <1>3, <1>t, <1>d DEF Addition, Handle, party, Onward
<1>4. ASSUME NEW s \in Nodes, Multiplication(p, s) PROVE UNCHANGED dealer /\ Onward(p) /\ Others
  BY <1>4, <1>t DEF Multiplication, Handle, Goto, Onward
<1>5. ASSUME NEW s \in Nodes, ReceiveTriple(p, s) PROVE UNCHANGED dealer /\ Onward(p) /\ Others
  <2>1. UNCHANGED dealer /\ pc[p] = "triple"
    BY <1>5 DEF ReceiveTriple
  <2>2. CASE Received(p, s) = "Triple" /\ stored[p]
    BY <1>5, <1>t, <2>1, <2>2 DEF ReceiveTriple, Goto, Onward
  <2>3. CASE ~(Received(p, s) = "Triple" /\ stored[p])
    <3>1. \E requests, replies : Die(p, requests, replies)
      BY <1>5, <2>3 DEF ReceiveTriple
    <3>. QED
      BY <1>d, <2>1, <3>1
  <2>. QED
    BY <2>2, <2>3
<1>6. ASSUME NEW s \in Nodes, AddOpening(p, s) PROVE UNCHANGED dealer /\ Onward(p) /\ Others
  BY <1>6, <1>t, <1>d DEF AddOpening, Onward
<1>7. ASSUME NEW s \in Nodes, FetchMultShare(p, s) PROVE UNCHANGED dealer /\ Onward(p) /\ Others
  BY <1>7, <1>t, <1>d DEF FetchMultShare, Handle, Onward
<1>8. ASSUME NEW s \in Nodes, ShutdownCmd(p, s) PROVE UNCHANGED dealer /\ Onward(p) /\ Others
  BY <1>8, <1>t DEF ShutdownCmd, Handle, Goto, Onward
<1>9. ASSUME NEW s \in Nodes, UnknownCommand(p, s) PROVE UNCHANGED dealer /\ Onward(p) /\ Others
  BY <1>9, <1>t, <1>d DEF UnknownCommand, Handle, party, Onward
<1>10. CASE FinishProduct(p)
  BY <1>10, <1>t, <1>z DEF FinishProduct, Goto, Onward
<1>11. CASE ShareTimeout(p)
  BY <1>11, <1>t DEF ShareTimeout, Goto, Onward
<1>12. CASE OpeningTimeout(p)
  BY <1>12, <1>t, <1>d DEF OpeningTimeout
<1>. QED
  BY <1>1, <1>2, <1>3, <1>4, <1>5, <1>6, <1>7, <1>8, <1>9, <1>10, <1>11, <1>12
     DEF PartyStep, Deliver

-----------------------------------------------------------------------------
(* The refinement.                                                         *)

done == [p \in Parties |-> RoundDone(p)]

LEMMA DoneNext == done' = [p \in Parties |-> RoundDone(p)']
BY DEF done

\* A step of a party does the open round, or nothing the barrier knows of.
LEMMA PartyRefines ==
  ASSUME IInv, IInv', NEW p \in Parties, PartyStep(p)
  PROVE  Barrier!Do(p) \/ (UNCHANGED Round /\ done' = done)
<1>1. UNCHANGED Round
  BY PartyOnward DEF Round
<1>2. \A q \in Parties \ {p} : RoundDone(q)' = RoundDone(q)
  BY PartyOnward DEF RoundDone
<1>3. RoundDone(p)' >= RoundDone(p)
  <2>1. /\ z[p] \in {"zero", "product", "freed"}
        /\ z'[p] \in {"zero", "product", "freed"}
    BY DEF IInv, TypeOK
  <2>. QED
    BY <2>1, PartyOnward DEF RoundDone, Onward
<1>4. /\ Round \in 1 .. 4
      /\ RoundDone(p) \in {Round - 1, Round} /\ RoundDone(p)' \in {Round - 1, Round}
  BY <1>1, WithinARound, WithinARoundNext DEF InStep
<1>5. CASE RoundDone(p)' = RoundDone(p)
  BY <1>1, <1>2, <1>5, DoneNext DEF done
<1>6. CASE RoundDone(p)' # RoundDone(p)
  <2>1. RoundDone(p) = Round - 1 /\ RoundDone(p)' = Round
    BY <1>3, <1>4, <1>6
  <2>2. done' = [done EXCEPT ![p] = Round]
    BY <1>2, <2>1, DoneNext DEF done
  <2>. QED
    BY <1>1, <2>1, <2>2 DEF Barrier!Do, done
<1>. QED
  BY <1>5, <1>6

\* A step of the program enters a round that every party is ready for, or none.
LEMMA ProgramRefines ==
  ASSUME IInv, IInv', DealerStep
  PROVE  Barrier!Open \/ (UNCHANGED Round /\ done' = done)
<1>1. Round' \in {Round, Round + 1} /\ \A p \in Parties : RoundDone(p)' = RoundDone(p)
  BY ProgramStep
<1>2. done' = done
  BY <1>1, DoneNext DEF done
<1>3. InStep /\ InStep'
  BY WithinARound, WithinARoundNext
<1>4. CASE Round' = Round
  BY <1>2, <1>4
<1>5. CASE Round' = Round + 1
  <2>1. Round \in 1 .. 4 /\ Round + 1 \in 1 .. 4
    BY <1>3, <1>5 DEF InStep
  <2>2. \A p \in Parties : RoundDone(p) \in {Round - 1, Round} /\ RoundDone(p) \in {Round, Round + 1}
    BY <1>1, <1>3, <1>5, <2>1 DEF InStep
  <2>3. \A p \in Parties : done[p] = Round
    BY <2>1, <2>2 DEF done
  <2>. QED
    BY <1>2, <1>5, <2>1, <2>3 DEF Barrier!Open, done
<1>. QED
  BY <1>1, <1>4, <1>5

\* (Party.cpp:75-365 against 926-1134)  The broadcasts and the counted replies of
\* any number of parties carry out a barrier of four rounds.
THEOREM SessionIsBarrier == Spec => ImplementsBarrier
<1>1. Init => Barrier!Init
  <2>. SUFFICES ASSUME Init PROVE Round = 1 /\ \A p \in Parties : RoundDone(p) = 0
    BY DEF Barrier!Init
  <2>. QED
    BY DEF Init, Round, RoundDone
<1>2. IInv /\ IInv' /\ [Next]_vars => [Barrier!Next]_<<Round, done>>
  <2>. SUFFICES ASSUME IInv, IInv', [Next]_vars
                PROVE  Barrier!Next \/ (UNCHANGED Round /\ done' = done)
    OBVIOUS
  <2>1. CASE DealerStep
    BY <2>1, ProgramRefines DEF Barrier!Next
  <2>2. ASSUME NEW p \in Parties, PartyStep(p)
        PROVE  Barrier!Next \/ (UNCHANGED Round /\ done' = done)
    BY <2>2, PartyRefines DEF Barrier!Next
  <2>3. CASE UNCHANGED vars
    <3>1. UNCHANGED <<dealer, stored, z, pc>>
      BY <2>3 DEF vars, party
    <3>. QED
      BY <3>1, DoneNext DEF Round, RoundDone, done
  <2>. QED
    BY <2>1, <2>2, <2>3 DEF Next
<1>. QED
  BY <1>1, <1>2, Invariance, PTL DEF Spec, ImplementsBarrier, Barrier!Spec, done

=============================================================================
