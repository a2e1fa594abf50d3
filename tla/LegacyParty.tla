----------------------------- MODULE LegacyParty -----------------------------
(***************************************************************************)
(* The operations of Party.cpp and Party.h that the session of             *)
(* PartyProtocol no longer uses: all computing parties run the same calls, *)
(* without a secret holder, and synchronise by counting messages.          *)
(*                                                                         *)
(* Every operation is a sequence of loops of N - 1 iterations: one sends a *)
(* message to each other party, the other calls receive until it has       *)
(* counted N - 1 messages.  No caller is left in the sources; the flows    *)
(* below call the operations in the order their comments ask for.          *)
(*                                                                         *)
(* What a party adds up is a bag of parts: <<i, j>> is the j-th additive   *)
(* share of party i's local value, which is the sum of its parts, and      *)
(* <<p, 0>> is a number that is nobody's input, the fault of party p.  The *)
(* parts are random, so that a sum is right if and only if its bag is.     *)
(***************************************************************************)
EXTENDS DealerRouter, Bags

FlowNames == {"SecretSum", "PlainSum", "Distribution", "PartialSums", "SyncedSum",
              "SyncedShares"}

CONSTANTS
  Sizes,    \* the numbers of parties a program may be started with
  Flows     \* the flows to check

ASSUME LegacyAssumption ==
  /\ Sizes \subseteq 2 .. N
  /\ Flows \subseteq FlowNames

-----------------------------------------------------------------------------
(* The operations, as sequences of loops.                                  *)

Kinds == {"Value", "Share", "Partial", "DoneDistributing", "DoneGathering"}

SendEach(kind) == <<[op |-> "send", kind |-> kind]>>

\* Receive until N - 1 messages are added up; late is what the loop does with
\* a receive that times out.
Collect(late) == <<[op |-> "collect", late |-> late]>>

\* Receive until N - 1 messages of one kind are counted, and drop the others.
WaitForEach(kind) == <<[op |-> "sync", kind |-> kind, late |-> "again"]>>

\* Mutant: the return value of receive is ignored.
DistributeCountingLate == SendEach("Share") \o Collect("count")

DistributeSharesAndComputeMyPartial == SendEach("Share") \o Collect("again")

\* Mutant: the partial sums are not waited for.
BroadcastPartialOnly == SendEach("Partial")

BroadcastAndReconstructGlobalSum == SendEach("Partial") \o Collect("again")

BroadcastValue == SendEach("Value")

ReceiveAllValuesAndComputeSum == Collect("count")

BroadcastShares == SendEach("Share")

\* Mutant: a receive that times out counts as a share.
ReceiveSharesCountingLate == Collect("count")

ReceiveShares == Collect("throw")

\* Mutant: the wait comes before the message the others wait for.
SyncAfterDistributeWaitsFirst ==
  WaitForEach("DoneDistributing") \o SendEach("DoneDistributing")

BroadcastPartialSum == SendEach("Partial")   \* nothing receives these

SyncAfterDistribute == SendEach("DoneDistributing") \o WaitForEach("DoneDistributing")

SyncAfterGather == SendEach("DoneGathering") \o WaitForEach("DoneGathering")

DistributeOwnShares == BroadcastShares \o SyncAfterDistribute

Calls(flow) ==
  CASE flow = "SecretSum"    -> DistributeSharesAndComputeMyPartial
                                  \o BroadcastAndReconstructGlobalSum
    [] flow = "PlainSum"     -> BroadcastValue \o ReceiveAllValuesAndComputeSum
    [] flow = "Distribution" -> BroadcastShares \o ReceiveShares
    [] flow = "PartialSums"  -> BroadcastShares \o ReceiveShares \o BroadcastPartialSum
    [] flow = "SyncedSum"    -> DistributeSharesAndComputeMyPartial
                                  \o SyncAfterDistribute
                                  \o BroadcastAndReconstructGlobalSum
                                  \o SyncAfterGather
    [] flow = "SyncedShares" -> DistributeOwnShares \o ReceiveShares

-----------------------------------------------------------------------------
VARIABLES
  size,    \* m_totalParties of this program
  flow,    \* what its parties run
  loop,    \* the loop each party is in, or "threw"
  i,       \* the counter of that loop
  held     \* the parts each party has added up, or keeps

vars == <<transport, size, flow, loop, i, held>>

Members == 1 .. size

Part(p, q) == SetToBag({<<p, q>>})
Value(p)   == SetToBag({<<p, q>> : q \in Members})
Junk(p)    == Part(p, 0)

\* What a party starts from: its own value in PlainSum, else its own share.
Init ==
  /\ TransportInit
  /\ size \in Sizes
  /\ flow \in Flows
  /\ loop = [p \in Parties |-> 1]
  /\ i = [p \in Parties |-> 1]
  /\ held = [p \in Parties |-> IF flow = "PlainSum" THEN Value(p) ELSE Part(p, p)]

At(p, op) == loop[p] \in DOMAIN Calls(flow) /\ Calls(flow)[loop[p]].op = op

This(p) == Calls(flow)[loop[p]]

\* Mutant: a loop that runs once too often.
NextIterationToN(p) ==
  IF i[p] < size THEN i' = [i EXCEPT ![p] = @ + 1] /\ UNCHANGED loop
              ELSE i' = [i EXCEPT ![p] = 1] /\ loop' = [loop EXCEPT ![p] = @ + 1]

NextIteration(p) ==
  IF i[p] < size - 1 THEN i' = [i EXCEPT ![p] = @ + 1] /\ UNCHANGED loop
                  ELSE i' = [i EXCEPT ![p] = 1] /\ loop' = [loop EXCEPT ![p] = @ + 1]

\* The k-th party of a loop over all parties that leaves p out.
Peer(p, k) == IF k < p THEN k ELSE k + 1

Content(p, q, kind) ==
  CASE kind = "Value"   -> Value(p)
    [] kind = "Share"   -> Part(p, q)
    [] kind = "Partial" -> held[p]
    [] OTHER            -> Junk(p)     \* BN_hex2bn reads 0xD of "DONE..."

Send(p) ==
  /\ At(p, "send")
  /\ LET q == Peer(p, i[p])
     IN  toRouter' = SendTo(p, q, [kind |-> This(p).kind,
                                   parts |-> Content(p, q, This(p).kind)])
  /\ NextIteration(p)
  /\ UNCHANGED <<toDealer, lastRoutingId, size, flow, held>>

\* The loops that add up take whatever message comes.
ReceiveAdded(p, s) ==
  /\ At(p, "collect")
  /\ Receive(p, s)
  /\ toRouter' = Taken(p, s)
  /\ held' = [held EXCEPT ![p] = @ (+) Received(p, s).parts]
  /\ NextIteration(p)
  /\ UNCHANGED <<toDealer, size, flow>>

\* Mutant: any message counts.
ReceiveDoneAnyKind(p, s) ==
  /\ At(p, "sync")
  /\ Receive(p, s)
  /\ toRouter' = Taken(p, s)
  /\ NextIteration(p)
  /\ UNCHANGED <<toDealer, size, flow, held>>

ReceiveDone(p, s) ==
  /\ At(p, "sync")
  /\ Receive(p, s)
  /\ toRouter' = Taken(p, s)
  /\ IF Received(p, s).kind = This(p).kind
       THEN NextIteration(p)
       ELSE UNCHANGED <<loop, i>>
  /\ UNCHANGED <<toDealer, size, flow, held>>

Waiting(p) == \A s \in Members : ~Arrived(p, s)

\* The 300 ms of receive pass before a message has come and receive returns 0:
\* receiveAllValuesAndComputeSum does not look at it and adds the integer it has
\* not initialized, receiveShares throws, the other loops call receive again.
TimeoutCounted(p) ==
  /\ At(p, "collect")
  /\ Waiting(p)
  /\ This(p).late = "count"
  /\ held' = [held EXCEPT ![p] = @ (+) Junk(p)]
  /\ NextIteration(p)
  /\ UNCHANGED <<transport, size, flow>>

TimeoutThrows(p) ==
  /\ At(p, "collect")
  /\ Waiting(p)
  /\ This(p).late = "throw"
  /\ loop' = [loop EXCEPT ![p] = 0]
  /\ UNCHANGED <<transport, size, flow, i, held>>

Step(p) ==
  \/ Send(p)
  \/ \E s \in Members : ReceiveAdded(p, s) \/ ReceiveDone(p, s)
  \/ TimeoutCounted(p)
  \/ TimeoutThrows(p)

Next == \E p \in Members : Step(p)

Spec == Init /\ [][Next]_vars

\* A party's thread keeps running.  Where a receive may time out for ever the
\* timeout is a step too; nothing asks it to come before a message.
FairSpec == Spec /\ \A p \in Parties : WF_vars(p \in Members /\ Step(p))

-----------------------------------------------------------------------------
(* Properties.                                                             *)

Finished(p) == loop[p] > Len(Calls(flow))
Threw(p)    == loop[p] = 0

TypeOK ==
  /\ size \in Sizes /\ flow \in Flows
  /\ loop \in [Parties -> 0 .. Len(Calls(flow)) + 1]
  /\ i \in [Parties -> 1 .. size - 1]
  /\ \A p \in Parties : IsABag(held[p])
  /\ \A p \in Parties : BagToSet(held[p]) \subseteq Parties \X (0 .. N)
  /\ \A s, p \in Parties : \A k \in DOMAIN toRouter[s][p] :
       /\ toRouter[s][p][k].kind \in Kinds
       /\ IsABag(toRouter[s][p][k].parts)

OneShareOfEach(p) == SetToBag({<<q, p>> : q \in Members})

Total == SetToBag(Members \X Members)

\* What p has to send to q in the l-th loop is sent.  (Only receiveShares
\* throws; in the flows this is said of, no loop that sends follows it.)
HasSent(p, q, l) ==
  \/ Threw(p) \/ loop[p] > l
  \/ loop[p] = l /\ \E k \in 1 .. i[p] - 1 : Peer(p, k) = q

\* (Party.cpp:409-435)  A party that returns from receiveShares holds one share
\* of each input, also when another party's call has timed out and thrown; when
\* partial sums follow the shares this is so between two parties.
DistributionIsExact ==
  \A p \in Members :
    /\ flow = "Distribution" \/ (flow = "PartialSums" /\ size = 2)
    /\ loop[p] > 2
    => held[p] = OneShareOfEach(p)

\* (Party.h:88-108, Party.cpp:563-666)  No value is added twice or left out
\* unless a timed out receive was counted; between two parties, whose one
\* connection keeps the share before the partial sum, the same is true of the
\* sum of the secrets, with and without the synchronisations.
FinishedSumIsRight ==
  \A p \in Members :
    /\ flow = "PlainSum" \/ (flow \in {"SecretSum", "SyncedSum"} /\ size = 2)
    /\ Finished(p)
    /\ ~BagIn(<<p, 0>>, held[p])
    => held[p] = Total

\* (Party.cpp:581-657)  Two loops that count whatever message comes are still a
\* barrier: a party ends only after every other party has sent it its partial
\* sum, and nothing is left over for a later operation to receive.
FinishedAfterAll ==
  \A p \in Members : flow = "SecretSum" /\ Finished(p) =>
    \A q \in Members \ {p} : HasSent(q, p, 3) /\ ~Arrived(p, q)

\* (Party.cpp:516-559)  A party passes a synchronisation only after every other
\* party has called it, whatever else is on the connections.
SyncIsBarrier ==
  \A p \in Members : \A l \in DOMAIN Calls(flow) :
    Calls(flow)[l].op = "sync" /\ loop[p] > l =>
      \A q \in Members \ {p} : HasSent(q, p, l - 1)

\* (Party.cpp:385-666, Party.h:70-108)  No operation waits for a message that is
\* gone: every party returns from its last call, or from receiveShares with the
\* exception of a timeout.  Synchronisations are left out with more than two
\* parties: there the DONE of a fast party can be counted as a share, and is
\* waited for in vain.
EveryCallReturns ==
  size = 2 \/ flow \notin {"SyncedSum", "SyncedShares"} =>
    \A p \in Parties : <>(p \notin Members \/ Finished(p) \/ Threw(p))
=============================================================================
