------------------------------ MODULE MPCExample ------------------------------
(***************************************************************************)
(* The program of examples/mpc_communication_example.cpp on the messaging  *)
(* of MPCCommunication: every party sets a message handler, announces      *)
(* itself with a broadcast, party 1 hands out shares of its secret, and    *)
(* everybody collects as many shares as there are other parties.  The one  *)
(* thread of a party is both its owner and its caller: Callers[p] is       *)
(* {"main"}, and Parties is 1 .. n.                                        *)
(***************************************************************************)
EXTENDS MPCCommunication

VARIABLES
  phase,           \* where each party's main is
  to,              \* the party its loop of sends is at
  sharesReceived

program == <<phase, to, sharesReceived>>

ExampleInit ==
  /\ Init
  /\ handler = [p \in Parties |-> TRUE]
  /\ phase = [p \in Parties |-> "initialize"]
  /\ to = [p \in Parties |-> 1]
  /\ sharesReceived = [p \in Parties |-> 0]

Enter(p, where) ==
  /\ phase' = [phase EXCEPT ![p] = where]
  /\ to' = [to EXCEPT ![p] = 1]

\* main goes on when initialize has returned.
Start(p) ==
  /\ phase[p] = "initialize"
  /\ \/ Initialize(p) /\ UNCHANGED program
     \/ BecomeReady(p) /\ Enter(p, "announce") /\ UNCHANGED sharesReceived

\* A loop that sends m to everybody else.
SendToOthers(p, m) ==
  /\ to[p] \in Parties
  /\ to' = [to EXCEPT ![p] = @ + 1]
  /\ IF to[p] = p THEN UNCHANGED vars ELSE Send(p, to[p], m)
  /\ UNCHANGED <<phase, sharesReceived>>

\* Messages have a type: 1 is CONTROL and 3 is SHARE.
Announce(p) == phase[p] = "announce" /\ SendToOthers(p, 1)

DistributeShares(p) == phase[p] = "distribute" /\ SendToOthers(p, 3)

\* The ends of the two loops; only party 1 distributes.
NextPhase(p) ==
  /\ to[p] \notin Parties
  /\ \/ phase[p] = "announce" /\ Enter(p, IF p = 1 THEN "distribute" ELSE "collect")
     \/ phase[p] = "distribute" /\ Enter(p, "collect")
  /\ UNCHANGED <<vars, sharesReceived>>

\* collectSharesAndReconstruct calls receive until it has all the shares.
Collect(p) ==
  /\ phase[p] = "collect"
  /\ sharesReceived[p] < Cardinality(Parties) - 1
  /\ ReceiveStep(p, "main")
  /\ sharesReceived' =
       IF /\ Len(delivered'[p]) > Len(delivered[p])
          /\ delivered'[p][Len(delivered'[p])].msg = 3
         THEN [sharesReceived EXCEPT ![p] = @ + 1]
         ELSE sharesReceived
  /\ UNCHANGED <<phase, to>>

Reconstruct(p) ==
  /\ phase[p] = "collect"
  /\ sharesReceived[p] = Cardinality(Parties) - 1
  /\ Enter(p, "shutdown")
  /\ UNCHANGED <<vars, sharesReceived>>

Finish(p) ==
  /\ phase[p] = "shutdown"
  /\ StopRunning(p) \/ NotifyAll(p) \/ Close(p)
  /\ UNCHANGED program

Main(p) ==
  \/ Start(p) \/ Announce(p) \/ DistributeShares(p) \/ NextPhase(p)
  \/ Collect(p) \/ Reconstruct(p) \/ Finish(p)

ExampleNext ==
  \E p \in Parties :
    \/ Main(p)
    \/ ReceiverStep(p) /\ UNCHANGED program

ExampleSpec ==
  /\ ExampleInit
  /\ [][ExampleNext]_<<vars, program>>
  /\ \A p \in Parties :
       /\ WF_<<vars, program>>(Main(p))
       /\ WF_<<vars, program>>(ReceiverStep(p) /\ UNCHANGED program)
       /\ \A s \in Parties :
            SF_<<vars, program>>(RouterReceive(p, s) /\ UNCHANGED program)

\* mpc_communication_example.cpp:201: "Phase 3: Reconstruction (all parties)":
\* every party comes to reconstruct the secret.
AllPartiesReconstruct == <>(\A p \in Parties : phase[p] = "shutdown")
=============================================================================
