-------------------------- MODULE LegacyPartyProofs --------------------------
(***************************************************************************)
(* The legacy operations of LegacyParty for any number of parties.         *)
(*                                                                         *)
(* A party counts messages and does not look at who has sent them; what    *)
(* the properties say is about who has.  The proofs go by connections:     *)
(* what a party has sent to another is known from the loop it is in, what  *)
(* waits on the connection is the end of it, in the order of the loops,    *)
(* and so the loops whose messages have been taken are known too (Got).    *)
(* A loop that receives has counted what has come: a synchronisation no    *)
(* more than has come of its kind, the two receiving loops of a sum of     *)
(* secrets together as much as has come of both, and in the flows that     *)
(* take turns each loop exactly what the loop before it has sent.  One     *)
(* message of each loop comes from each peer, so that N - 1 messages of a  *)
(* loop are one of every peer.                                             *)
(***************************************************************************)
EXTENDS LegacyParty, FiniteSetTheorems, SequenceTheorems, TLAPS

-----------------------------------------------------------------------------
(* What the flows are made of.                                             *)

SendLoop(kind) == [op |-> "send", kind |-> kind]
CollectLoop(late) == [op |-> "collect", late |-> late]
SyncLoop(kind) == [op |-> "sync", kind |-> kind, late |-> "again"]

\* The loops of the flow f that send, that receive, and of those the ones that
\* count one kind, add up, and throw.
Sending(f)   == {l \in DOMAIN Calls(f) : Calls(f)[l].op = "send"}
Syncing(f)   == {l \in DOMAIN Calls(f) : Calls(f)[l].op = "sync"}
Collecting(f) == {l \in DOMAIN Calls(f) : Calls(f)[l].op = "collect"}
Throwing(f)  == {l \in Collecting(f) : Calls(f)[l].late = "throw"}
Counting(f)  == {l \in Collecting(f) : Calls(f)[l].late = "count"}

KindOf(f, l) == Calls(f)[l].kind

\* The flows in which every loop that receives follows the loop it receives from.
InTurn == {"SecretSum", "PlainSum", "Distribution", "PartialSums", "SyncedSum"}

Loops == {SendLoop(kind) : kind \in Kinds} \cup {SyncLoop(kind) : kind \in Kinds}
           \cup {CollectLoop(late) : late \in {"again", "count", "throw"}}

\* One operation after the other.
Joined(c, s, t) ==
  /\ c \in Seq(Loops) /\ Len(c) = Len(s) + Len(t)
  /\ \A k \in 1 .. Len(c) : c[k] = IF k <= Len(s) THEN s[k] ELSE t[k - Len(s)]

LEMMA InSequence ==
  ASSUME NEW s \in Seq(Loops), NEW t \in Seq(Loops)
  PROVE  Joined(s \o t, s, t)
BY ConcatProperties DEF Joined

\* c is one loop, or two, or four, in this order.
One(c, x) == c \in Seq(Loops) /\ Len(c) = 1 /\ c[1] = x

Two(c, x, y) == c \in Seq(Loops) /\ Len(c) = 2 /\ c[1] = x /\ c[2] = y

Four(c, x, y, z, w) ==
  c \in Seq(Loops) /\ Len(c) = 4 /\ c[1] = x /\ c[2] = y /\ c[3] = z /\ c[4] = w

LEMMA OneLoop ==
  ASSUME NEW x \in Loops
  PROVE  One(<<x>>, x)
BY DEF One

LEMMA JoinedOnes ==
  ASSUME NEW c, NEW s, NEW t, Joined(c, s, t), NEW x, NEW y, One(s, x), One(t, y)
  PROVE  Two(c, x, y)
BY DEF Joined, One, Two

LEMMA JoinedTwos ==
  ASSUME NEW c, NEW s, NEW t, Joined(c, s, t), NEW x, NEW y, NEW z, NEW w,
         Two(s, x, y), Two(t, z, w)
  PROVE  Four(c, x, y, z, w)
BY DEF Joined, Two, Four

LEMMA TwoLoops ==
  ASSUME NEW x \in Loops, NEW y \in Loops
  PROVE  Two(<<x>> \o <<y>>, x, y)
<1>1. One(<<x>>, x) /\ One(<<y>>, y)
  BY OneLoop
<1>2. Joined(<<x>> \o <<y>>, <<x>>, <<y>>)
  BY <1>1, InSequence DEF One
<1>. QED
  BY <1>1, <1>2, JoinedOnes

LEMMA FourLoops ==
  ASSUME NEW x, NEW y, NEW z, NEW w, NEW s, NEW t, Two(s, x, y), Two(t, z, w)
  PROVE  Four(s \o t, x, y, z, w)
<1>1. Joined(s \o t, s, t)
  BY InSequence DEF Two
<1>. QED
  BY <1>1, JoinedTwos

\* The loops of every flow.
LEMMA TheFlows ==
  /\ Four(Calls("SecretSum"), SendLoop("Share"), CollectLoop("again"),
          SendLoop("Partial"), CollectLoop("again"))
  /\ Two(Calls("PlainSum"), SendLoop("Value"), CollectLoop("count"))
  /\ Two(Calls("Distribution"), SendLoop("Share"), CollectLoop("throw"))
  /\ LET c == Calls("PartialSums") IN
       /\ c \in Seq(Loops) /\ Len(c) = 3
       /\ c[1] = SendLoop("Share") /\ c[2] = CollectLoop("throw") /\ c[3] = SendLoop("Partial")
  /\ LET c == Calls("SyncedSum") IN
       /\ c \in Seq(Loops) /\ Len(c) = 8
       /\ c[1] = SendLoop("Share") /\ c[2] = CollectLoop("again")
       /\ c[3] = SendLoop("DoneDistributing") /\ c[4] = SyncLoop("DoneDistributing")
       /\ c[5] = SendLoop("Partial") /\ c[6] = CollectLoop("again")
       /\ c[7] = SendLoop("DoneGathering") /\ c[8] = SyncLoop("DoneGathering")
  /\ Four(Calls("SyncedShares"), SendLoop("Share"), SendLoop("DoneDistributing"),
          SyncLoop("DoneDistributing"), CollectLoop("throw"))
<1>. DEFINE share == SendLoop("Share")
            partial == SendLoop("Partial")
            value == SendLoop("Value")
            throw == CollectLoop("throw")
            count == CollectLoop("count")
            again == CollectLoop("again")
            doneD == SendLoop("DoneDistributing")
            doneG == SendLoop("DoneGathering")
            syncD == SyncLoop("DoneDistributing")
            syncG == SyncLoop("DoneGathering")
<1>1. /\ {share, partial, value, doneD, doneG} \subseteq Loops
      /\ {throw, count, again} \subseteq Loops /\ {syncD, syncG} \subseteq Loops
  BY DEF Loops, Kinds
<1>2. /\ SendEach("Share") = <<share>> /\ SendEach("Partial") = <<partial>>
      /\ SendEach("Value") = <<value>>
      /\ SendEach("DoneDistributing") = <<doneD>> /\ SendEach("DoneGathering") = <<doneG>>
      /\ Collect("throw") = <<throw>> /\ Collect("count") = <<count>>
      /\ Collect("again") = <<again>>
      /\ WaitForEach("DoneDistributing") = <<syncD>> /\ WaitForEach("DoneGathering") = <<syncG>>
  BY DEF SendEach, Collect, WaitForEach, SendLoop, CollectLoop, SyncLoop
<1>. HIDE DEF share, partial, value, throw, count, again, doneD, doneG, syncD, syncG
<1>3. /\ Two(DistributeSharesAndComputeMyPartial, share, again)
      /\ Two(BroadcastAndReconstructGlobalSum, partial, again)
      /\ Two(SyncAfterDistribute, doneD, syncD) /\ Two(SyncAfterGather, doneG, syncG)
      /\ Two(BroadcastValue \o ReceiveAllValuesAndComputeSum, value, count)
      /\ Two(BroadcastShares \o ReceiveShares, share, throw)
  BY <1>1, <1>2, TwoLoops
     DEF DistributeSharesAndComputeMyPartial, BroadcastAndReconstructGlobalSum,
         SyncAfterDistribute, SyncAfterGather, BroadcastValue, ReceiveAllValuesAndComputeSum,
         BroadcastShares, ReceiveShares
<1>4. /\ Four(Calls("SecretSum"), share, again, partial, again)
      /\ Two(Calls("PlainSum"), value, count) /\ Two(Calls("Distribution"), share, throw)
  BY <1>3, FourLoops DEF Calls
<1>5. LET c == Calls("PartialSums") IN
        /\ c \in Seq(Loops) /\ Len(c) = 3 /\ c[1] = share /\ c[2] = throw /\ c[3] = partial
  <2>. DEFINE s == BroadcastShares \o ReceiveShares
              t == <<partial>>
              c == s \o t
  <2>1. Two(s, share, throw) /\ One(t, partial)
    BY <1>1, <1>3, OneLoop
  <2>2. Calls("PartialSums") = c
    BY <1>2 DEF Calls, BroadcastPartialSum
  <2>. HIDE DEF s, t
  <2>3. Joined(c, s, t)
    BY <2>1, InSequence DEF One, Two
  <2>. HIDE DEF c
  <2>. QED
    BY <2>1, <2>2, <2>3 DEF Joined, One, Two
<1>6. LET c == Calls("SyncedSum") IN
        /\ c \in Seq(Loops) /\ Len(c) = 8 /\ c[1] = share /\ c[2] = again
        /\ c[3] = doneD /\ c[4] = syncD /\ c[5] = partial /\ c[6] = again
        /\ c[7] = doneG /\ c[8] = syncG
  <2>. DEFINE s == DistributeSharesAndComputeMyPartial \o SyncAfterDistribute
              b == BroadcastAndReconstructGlobalSum
              t == s \o b
              g == SyncAfterGather
              c == t \o g
  <2>1. Four(s, share, again, doneD, syncD) /\ Two(b, partial, again) /\ Two(g, doneG, syncG)
    BY <1>3, FourLoops
  <2>2. Calls("SyncedSum") = c
    BY DEF Calls
  <2>. HIDE DEF s, b, g
  <2>3. Joined(t, s, b)
    BY <2>1, InSequence DEF Two, Four
  <2>. HIDE DEF t
  <2>4. /\ t \in Seq(Loops) /\ Len(t) = 6
        /\ t[1] = share /\ t[2] = again /\ t[3] = doneD /\ t[4] = syncD
        /\ t[5] = partial /\ t[6] = again
    BY <2>1, <2>3 DEF Joined, Two, Four
  <2>5. Joined(c, t, g)
    BY <2>1, <2>4, InSequence DEF Two
  <2>. HIDE DEF c
  <2>. QED
    BY <2>1, <2>2, <2>4, <2>5 DEF Joined, Two
<1>7. Four(Calls("SyncedShares"), share, doneD, syncD, throw)
  <2>. DEFINE s == <<share>>
              u == <<throw>>
              d == SyncAfterDistribute
              t == s \o d
              c == t \o u
  <2>1. One(s, share) /\ One(u, throw) /\ Two(d, doneD, syncD)
    BY <1>1, <1>3, OneLoop
  <2>2. Calls("SyncedShares") = c
    BY <1>2 DEF Calls, DistributeOwnShares, BroadcastShares, ReceiveShares
  <2>. HIDE DEF s, u, d
  <2>3. Joined(t, s, d)
    BY <2>1, InSequence DEF One, Two
  <2>. HIDE DEF t
  <2>4. /\ t \in Seq(Loops) /\ Len(t) = 3
        /\ t[1] = share /\ t[2] = doneD /\ t[3] = syncD
    BY <2>1, <2>3 DEF Joined, One, Two
  <2>5. Joined(c, t, u)
    BY <2>1, <2>4, InSequence DEF One
  <2>. HIDE DEF c
  <2>6. Four(c, share, doneD, syncD, throw)
    BY <2>1, <2>4, <2>5 DEF Joined, One, Four
  <2>. QED
    BY <2>2, <2>6
<1>. QED
  BY <1>4, <1>5, <1>6, <1>7
     DEF share, partial, value, throw, count, again, doneD, doneG, syncD, syncG

-----------------------------------------------------------------------------
(* What the proofs use of them.                                            *)

LEMMA AllFlows ==
  FlowNames = InTurn \cup {"SyncedShares"}
BY DEF FlowNames, InTurn

\* A flow is a sequence of loops that send, count or add up ...
LEMMA FlowIsLoops ==
  ASSUME NEW f \in FlowNames
  PROVE  /\ Calls(f) \in Seq(Loops) /\ Len(Calls(f)) \in 2 .. 8
         /\ DOMAIN Calls(f) = 1 .. Len(Calls(f))
<1>1. Calls(f) \in Seq(Loops) /\ Len(Calls(f)) \in 2 .. 8
  BY TheFlows DEF FlowNames, Two, Four
<1>. QED
  BY <1>1, LenProperties

\* ... no two of which send the same kind, and at most one of which throws.  A
\* loop that counts one kind follows the loop that sends it.
FlowFacts(f) ==
  /\ \A l \in DOMAIN Calls(f) : l \in Sending(f) \cup Syncing(f) \cup Collecting(f)
  /\ \A l \in Sending(f) : KindOf(f, l) \in Kinds
  /\ \A l, m \in Sending(f) : KindOf(f, l) = KindOf(f, m) => l = m
  /\ \A l \in Syncing(f) : l - 1 \in Sending(f) /\ KindOf(f, l - 1) = KindOf(f, l)
  /\ \A l, m \in Throwing(f) : l = m

\* Where the loops of the flows take turns, what is collected are values and the
\* two kinds of sums.
TurnFacts(f) ==
  /\ 1 \in Sending(f)
  /\ \A l \in Syncing(f) \cup Collecting(f) : l - 1 \in Sending(f)
  /\ \A l \in Sending(f) : l + 1 \notin Sending(f)
  /\ f = "PlainSum" => KindOf(f, 1) = "Value"
  /\ f # "PlainSum" => KindOf(f, 1) = "Share" /\ Counting(f) = {}
  /\ \A l \in Collecting(f) :
       l = 2 \/ (KindOf(f, l - 1) = "Partial" /\ f \in {"SecretSum", "SyncedSum"})
  /\ \A l \in Syncing(f) : KindOf(f, l - 1) \notin {"Value", "Share", "Partial"}

\* The loops and their kinds, flow by flow.
LEMMA SecretSumLoops ==
  LET f == "SecretSum" IN
  /\ Len(Calls(f)) = 4 /\ DOMAIN Calls(f) = {1, 2, 3, 4}
  /\ Sending(f) = {1, 3} /\ Syncing(f) = {} /\ Collecting(f) = {2, 4}
  /\ Throwing(f) = {} /\ Counting(f) = {}
  /\ KindOf(f, 1) = "Share" /\ KindOf(f, 3) = "Partial"
<1>. DEFINE f == "SecretSum"
            c == Calls(f)
<1>1. f \in FlowNames /\ Len(c) = 4
  BY TheFlows DEF FlowNames, Two, Four
<1>2. /\ c[1] = SendLoop("Share") /\ c[2] = CollectLoop("again")
      /\ c[3] = SendLoop("Partial") /\ c[4] = CollectLoop("again")
  BY TheFlows DEF Two, Four
<1>3. DOMAIN c = {1, 2, 3, 4}
  BY <1>1, FlowIsLoops
<1>. HIDE DEF c
<1>4. /\ Sending(f) = {1, 3} /\ Syncing(f) = {} /\ Collecting(f) = {2, 4}
  BY <1>2, <1>3 DEF c, Sending, Syncing, Collecting, SendLoop, CollectLoop, SyncLoop
<1>5. Throwing(f) = {} /\ Counting(f) = {}
  BY <1>2, <1>4 DEF c, Throwing, Counting, CollectLoop
<1>. QED
  BY <1>1, <1>2, <1>3, <1>4, <1>5 DEF c, KindOf, SendLoop, SyncLoop

LEMMA PlainSumLoops ==
  LET f == "PlainSum" IN
  /\ Len(Calls(f)) = 2 /\ DOMAIN Calls(f) = {1, 2}
  /\ Sending(f) = {1} /\ Syncing(f) = {} /\ Collecting(f) = {2}
  /\ Throwing(f) = {} /\ Counting(f) = {2}
  /\ KindOf(f, 1) = "Value"
<1>. DEFINE f == "PlainSum"
            c == Calls(f)
<1>1. f \in FlowNames /\ Len(c) = 2
  BY TheFlows DEF FlowNames, Two, Four
<1>2. /\ c[1] = SendLoop("Value") /\ c[2] = CollectLoop("count")
  BY TheFlows DEF Two, Four
<1>3. DOMAIN c = {1, 2}
  BY <1>1, FlowIsLoops
<1>. HIDE DEF c
<1>4. /\ Sending(f) = {1} /\ Syncing(f) = {} /\ Collecting(f) = {2}
  BY <1>2, <1>3 DEF c, Sending, Syncing, Collecting, SendLoop, CollectLoop, SyncLoop
<1>5. Throwing(f) = {} /\ Counting(f) = {2}
  BY <1>2, <1>4 DEF c, Throwing, Counting, CollectLoop
<1>. QED
  BY <1>1, <1>2, <1>3, <1>4, <1>5 DEF c, KindOf, SendLoop, SyncLoop

LEMMA DistributionLoops ==
  LET f == "Distribution" IN
  /\ Len(Calls(f)) = 2 /\ DOMAIN Calls(f) = {1, 2}
  /\ Sending(f) = {1} /\ Syncing(f) = {} /\ Collecting(f) = {2}
  /\ Throwing(f) = {2} /\ Counting(f) = {}
  /\ KindOf(f, 1) = "Share"
<1>. DEFINE f == "Distribution"
            c == Calls(f)
<1>1. f \in FlowNames /\ Len(c) = 2
  BY TheFlows DEF FlowNames, Two, Four
<1>2. /\ c[1] = SendLoop("Share") /\ c[2] = CollectLoop("throw")
  BY TheFlows DEF Two, Four
<1>3. DOMAIN c = {1, 2}
  BY <1>1, FlowIsLoops
<1>. HIDE DEF c
<1>4. /\ Sending(f) = {1} /\ Syncing(f) = {} /\ Collecting(f) = {2}
  BY <1>2, <1>3 DEF c, Sending, Syncing, Collecting, SendLoop, CollectLoop, SyncLoop
<1>5. Throwing(f) = {2} /\ Counting(f) = {}
  BY <1>2, <1>4 DEF c, Throwing, Counting, CollectLoop
<1>. QED
  BY <1>1, <1>2, <1>3, <1>4, <1>5 DEF c, KindOf, SendLoop, SyncLoop

LEMMA PartialSumsLoops ==
  LET f == "PartialSums" IN
  /\ Len(Calls(f)) = 3 /\ DOMAIN Calls(f) = {1, 2, 3}
  /\ Sending(f) = {1, 3} /\ Syncing(f) = {} /\ Collecting(f) = {2}
  /\ Throwing(f) = {2} /\ Counting(f) = {}
  /\ KindOf(f, 1) = "Share" /\ KindOf(f, 3) = "Partial"
<1>. DEFINE f == "PartialSums"
            c == Calls(f)
<1>1. f \in FlowNames /\ Len(c) = 3
  BY TheFlows DEF FlowNames, Two, Four
<1>2. /\ c[1] = SendLoop("Share") /\ c[2] = CollectLoop("throw")
      /\ c[3] = SendLoop("Partial")
  BY TheFlows DEF Two, Four
<1>3. DOMAIN c = {1, 2, 3}
  BY <1>1, FlowIsLoops
<1>. HIDE DEF c
<1>4. /\ Sending(f) = {1, 3} /\ Syncing(f) = {} /\ Collecting(f) = {2}
  BY <1>2, <1>3 DEF c, Sending, Syncing, Collecting, SendLoop, CollectLoop, SyncLoop
<1>5. Throwing(f) = {2} /\ Counting(f) = {}
  BY <1>2, <1>4 DEF c, Throwing, Counting, CollectLoop
<1>. QED
  BY <1>1, <1>2, <1>3, <1>4, <1>5 DEF c, KindOf, SendLoop, SyncLoop

LEMMA SyncedSumLoops ==
  LET f == "SyncedSum" IN
  /\ Len(Calls(f)) = 8 /\ DOMAIN Calls(f) = {1, 2, 3, 4, 5, 6, 7, 8}
  /\ Sending(f) = {1, 3, 5, 7} /\ Syncing(f) = {4, 8} /\ Collecting(f) = {2, 6}
  /\ Throwing(f) = {} /\ Counting(f) = {}
  /\ KindOf(f, 1) = "Share" /\ KindOf(f, 3) = "DoneDistributing"
  /\ KindOf(f, 4) = "DoneDistributing" /\ KindOf(f, 5) = "Partial"
  /\ KindOf(f, 7) = "DoneGathering" /\ KindOf(f, 8) = "DoneGathering"
<1>. DEFINE f == "SyncedSum"
            c == Calls(f)
<1>1. f \in FlowNames /\ Len(c) = 8
  BY TheFlows DEF FlowNames, Two, Four
<1>2. /\ c[1] = SendLoop("Share") /\ c[2] = CollectLoop("again")
      /\ c[3] = SendLoop("DoneDistributing") /\ c[4] = SyncLoop("DoneDistributing")
      /\ c[5] = SendLoop("Partial") /\ c[6] = CollectLoop("again")
      /\ c[7] = SendLoop("DoneGathering") /\ c[8] = SyncLoop("DoneGathering")
  BY TheFlows DEF Two, Four
<1>3. DOMAIN c = {1, 2, 3, 4, 5, 6, 7, 8}
  BY <1>1, FlowIsLoops
<1>. HIDE DEF c
<1>4. /\ Sending(f) = {1, 3, 5, 7} /\ Syncing(f) = {4, 8} /\ Collecting(f) = {2, 6}
  BY <1>2, <1>3 DEF c, Sending, Syncing, Collecting, SendLoop, CollectLoop, SyncLoop
<1>5. Throwing(f) = {} /\ Counting(f) = {}
  BY <1>2, <1>4 DEF c, Throwing, Counting, CollectLoop
<1>. QED
  BY <1>1, <1>2, <1>3, <1>4, <1>5 DEF c, KindOf, SendLoop, SyncLoop

LEMMA SyncedSharesLoops ==
  LET f == "SyncedShares" IN
  /\ Len(Calls(f)) = 4 /\ DOMAIN Calls(f) = {1, 2, 3, 4}
  /\ Sending(f) = {1, 2} /\ Syncing(f) = {3} /\ Collecting(f) = {4}
  /\ Throwing(f) = {4} /\ Counting(f) = {}
  /\ KindOf(f, 1) = "Share" /\ KindOf(f, 2) = "DoneDistributing"
  /\ KindOf(f, 3) = "DoneDistributing"
<1>. DEFINE f == "SyncedShares"
            c == Calls(f)
<1>1. f \in FlowNames /\ Len(c) = 4
  BY TheFlows DEF FlowNames, Two, Four
<1>2. /\ c[1] = SendLoop("Share") /\ c[2] = SendLoop("DoneDistributing")
      /\ c[3] = SyncLoop("DoneDistributing") /\ c[4] = CollectLoop("throw")
  BY TheFlows DEF Two, Four
<1>3. DOMAIN c = {1, 2, 3, 4}
  BY <1>1, FlowIsLoops
<1>. HIDE DEF c
<1>4. /\ Sending(f) = {1, 2} /\ Syncing(f) = {3} /\ Collecting(f) = {4}
  BY <1>2, <1>3 DEF c, Sending, Syncing, Collecting, SendLoop, CollectLoop, SyncLoop
<1>5. Throwing(f) = {4} /\ Counting(f) = {}
  BY <1>2, <1>4 DEF c, Throwing, Counting, CollectLoop
<1>. QED
  BY <1>1, <1>2, <1>3, <1>4, <1>5 DEF c, KindOf, SendLoop, SyncLoop

LEMMA AllFlowFacts ==
  ASSUME NEW f \in FlowNames
  PROVE  FlowFacts(f)
<1>1. CASE f = "SecretSum"
  BY <1>1, SecretSumLoops DEF FlowFacts, Kinds
<1>2. CASE f = "PlainSum"
  BY <1>2, PlainSumLoops DEF FlowFacts, Kinds
<1>3. CASE f = "Distribution"
  BY <1>3, DistributionLoops DEF FlowFacts, Kinds
<1>4. CASE f = "PartialSums"
  BY <1>4, PartialSumsLoops DEF FlowFacts, Kinds
<1>5. CASE f = "SyncedSum"
  BY <1>5, SyncedSumLoops DEF FlowFacts, Kinds
<1>6. CASE f = "SyncedShares"
  BY <1>6, SyncedSharesLoops DEF FlowFacts, Kinds
<1>. QED
  BY <1>1, <1>2, <1>3, <1>4, <1>5, <1>6 DEF FlowNames

LEMMA AllTurnFacts ==
  ASSUME NEW f \in InTurn
  PROVE  TurnFacts(f)
<1>1. CASE f \in {"SecretSum", "PlainSum", "Distribution", "PartialSums"}
  BY <1>1, SecretSumLoops, PlainSumLoops, DistributionLoops, PartialSumsLoops DEF TurnFacts
<1>2. CASE f = "SyncedSum"
  BY <1>2, SyncedSumLoops DEF TurnFacts
<1>. QED
  BY <1>1, <1>2 DEF InTurn

-----------------------------------------------------------------------------
(* One connection, whose messages are of different loops and in order.     *)

\* Bags of the parts of LegacyParty, and what a connection carries.
PartBags == UNION {[S -> Nat \ {0}] : S \in SUBSET (Parties \X (0 .. N))}

Messages == [kind : Kinds, parts : PartBags]

\* Of the loops S whose message was put on the connection ch, those whose
\* message is not on it any more.
GoneOf(f, ch, S) == {l \in S : \A k \in 1 .. Len(ch) : ch[k].kind # KindOf(f, l)}

Ordered(f, ch, S) ==
  /\ \A k \in 1 .. Len(ch) : \E l \in S : ch[k].kind = KindOf(f, l)
  /\ \A j, k \in 1 .. Len(ch) : \A l, m \in S :
       j < k /\ ch[j].kind = KindOf(f, l) /\ ch[k].kind = KindOf(f, m) => l < m
  /\ \A l, m \in S : l < m /\ m \in GoneOf(f, ch, S) => l \in GoneOf(f, ch, S)

\* Sending the message of a later loop takes none off the connection.
LEMMA OrderedSend ==
  ASSUME NEW f \in FlowNames, NEW ch \in Seq(Messages), NEW S \in SUBSET Sending(f),
         Ordered(f, ch, S), NEW L \in Sending(f), \A l \in S : l < L,
         NEW m \in Messages, m.kind = KindOf(f, L)
  PROVE  /\ Ordered(f, Append(ch, m), S \cup {L})
         /\ GoneOf(f, Append(ch, m), S \cup {L}) = GoneOf(f, ch, S)
<1>. DEFINE n == Len(ch)
            T == S \cup {L}
<1>1. \A l, k \in Sending(f) : l \in Int /\ (KindOf(f, l) = KindOf(f, k) => l = k)
  BY AllFlowFacts, FlowIsLoops DEF FlowFacts, Sending
<1>2. PICK c \in Seq(Messages) : c = Append(ch, m)
  BY AppendProperties
<1>3. /\ Len(c) = n + 1 /\ n \in Nat /\ \A k \in 1 .. n : c[k] = ch[k]
      /\ c[n + 1] = m
  BY <1>2, AppendProperties
<1>. HIDE DEF n
<1>4. \A k \in 1 .. Len(c) : k \in 1 .. n \/ (k = n + 1 /\ c[k].kind = KindOf(f, L))
  BY <1>3
<1>5. L \notin S /\ T \subseteq Sending(f)
  BY <1>1
<1>6. L \notin GoneOf(f, c, T)
  BY <1>3 DEF GoneOf
<1>7. ASSUME NEW l \in S
      PROVE  l \in GoneOf(f, c, T) <=> l \in GoneOf(f, ch, S)
  BY <1>1, <1>3, <1>4, <1>5 DEF GoneOf, n
<1>8. GoneOf(f, c, T) = GoneOf(f, ch, S)
  BY <1>6, <1>7 DEF GoneOf
<1>9. ASSUME NEW k \in 1 .. Len(c)
      PROVE  \E l \in T : c[k].kind = KindOf(f, l)
  BY <1>3, <1>4 DEF Ordered, n
<1>10. ASSUME NEW j \in 1 .. Len(c), NEW k \in 1 .. Len(c), NEW l \in T, NEW x \in T,
              j < k, c[j].kind = KindOf(f, l), c[k].kind = KindOf(f, x)
       PROVE  l < x
  <2>1. j \in 1 .. n /\ c[j] = ch[j]
    BY <1>3, <1>10
  <2>2. PICK y \in S : ch[j].kind = KindOf(f, y)
    BY <2>1 DEF Ordered, n
  <2>3. l = y
    BY <1>1, <1>5, <1>10, <2>1, <2>2
  <2>4. CASE k = n + 1
    BY <1>1, <1>4, <1>5, <1>3, <1>10, <2>3, <2>4
  <2>5. CASE k \in 1 .. n
    <3>1. PICK w \in S : ch[k].kind = KindOf(f, w)
      BY <2>5 DEF Ordered, n
    <3>2. x = w
      BY <1>1, <1>3, <1>5, <1>10, <2>5, <3>1
    <3>. QED
      BY <1>3, <1>10, <2>1, <2>3, <2>5, <3>2 DEF Ordered, n
  <2>. QED
    BY <1>4, <2>4, <2>5
<1>11. ASSUME NEW l \in T, NEW x \in T, l < x, x \in GoneOf(f, c, T)
       PROVE  l \in GoneOf(f, c, T)
  <2>1. x \in GoneOf(f, ch, S) /\ x \in S
    BY <1>8, <1>11 DEF GoneOf
  <2>2. l \in S
    BY <1>1, <1>5, <1>11, <2>1
  <2>. QED
    BY <1>8, <1>11, <2>1, <2>2 DEF Ordered
<1>. QED
  BY <1>2, <1>8, <1>9, <1>10, <1>11 DEF Ordered

\* The next message is of the first loop that is not done, which is done with it.
LEMMA OrderedReceive ==
  ASSUME NEW f \in FlowNames, NEW ch \in Seq(Messages), NEW S \in SUBSET Sending(f),
         Ordered(f, ch, S), ch # <<>>
  PROVE  /\ Ordered(f, Tail(ch), S)
         /\ \E h \in S \ GoneOf(f, ch, S) :
              /\ Head(ch).kind = KindOf(f, h)
              /\ GoneOf(f, Tail(ch), S) = GoneOf(f, ch, S) \cup {h}
              /\ \A l \in S : l < h => l \in GoneOf(f, ch, S)
<1>1. \A l, k \in Sending(f) : l \in Int /\ (KindOf(f, l) = KindOf(f, k) => l = k)
  BY AllFlowFacts, FlowIsLoops DEF FlowFacts, Sending
<1>2. PICK c \in Seq(Messages) : c = Tail(ch)
  BY HeadTailProperties
<1>3. PICK n \in Nat : n = Len(ch) - 1
  BY EmptySeq, LenProperties
<1>4. /\ Len(c) = n /\ Len(ch) = n + 1 /\ Head(ch) = ch[1]
      /\ \A k \in 1 .. n : c[k] = ch[k + 1]
  BY <1>2, <1>3, HeadTailProperties
<1>5. PICK h \in S : ch[1].kind = KindOf(f, h)
  BY <1>3, <1>4 DEF Ordered
<1>6. h \notin GoneOf(f, ch, S)
  BY <1>3, <1>4, <1>5 DEF GoneOf
<1>7. ASSUME NEW l \in S, NEW k \in 1 .. n, c[k].kind = KindOf(f, l)
      PROVE  h < l
  BY <1>4, <1>5, <1>7 DEF Ordered
<1>8. ASSUME NEW l \in S
      PROVE  l \in GoneOf(f, c, S) <=> l \in GoneOf(f, ch, S) \/ l = h
  <2>1. CASE l = h
    BY <1>1, <1>4, <1>7, <2>1 DEF GoneOf
  <2>2. CASE l # h
    <3>1. ASSUME NEW k \in 1 .. n + 1, ch[k].kind = KindOf(f, l)
          PROVE  k - 1 \in 1 .. n /\ c[k - 1].kind = KindOf(f, l)
      <4>1. k # 1
        BY <1>1, <1>5, <2>2, <3>1
      <4>2. k - 1 \in 1 .. n /\ (k - 1) + 1 = k
        BY <1>3, <4>1
      <4>. QED
        BY <1>4, <3>1, <4>2
    <3>2. ASSUME NEW k \in 1 .. n, c[k].kind = KindOf(f, l)
          PROVE  k + 1 \in 1 .. n + 1 /\ ch[k + 1].kind = KindOf(f, l)
      BY <1>3, <1>4, <3>2
    <3>. QED
      BY <1>4, <2>2, <3>1, <3>2 DEF GoneOf
  <2>. QED
    BY <2>1, <2>2
<1>9. GoneOf(f, c, S) = GoneOf(f, ch, S) \cup {h}
  BY <1>8 DEF GoneOf
<1>10. ASSUME NEW l \in S, l < h
       PROVE  l \in GoneOf(f, ch, S)
  <2>1. ASSUME NEW k \in 1 .. n + 1, ch[k].kind = KindOf(f, l)
        PROVE  FALSE
    <3>1. k # 1
      BY <1>1, <1>5, <1>10, <2>1
    <3>2. k - 1 \in 1 .. n /\ (k - 1) + 1 = k
      BY <1>3, <3>1
    <3>3. c[k - 1].kind = KindOf(f, l)
      BY <1>4, <2>1, <3>2
    <3>4. h < l
      BY <1>7, <3>2, <3>3
    <3>. QED
      BY <1>1, <1>10, <3>4
  <2>. QED
    BY <1>4, <2>1 DEF GoneOf
<1>11. Ordered(f, c, S)
  <2>1. ASSUME NEW k \in 1 .. Len(c)
        PROVE  \E l \in S : c[k].kind = KindOf(f, l)
    <3>1. k + 1 \in 1 .. Len(ch) /\ c[k] = ch[k + 1]
      BY <1>3, <1>4
    <3>. QED
      BY <3>1 DEF Ordered
  <2>2. ASSUME NEW j \in 1 .. Len(c), NEW k \in 1 .. Len(c), NEW l \in S, NEW m \in S,
               j < k, c[j].kind = KindOf(f, l), c[k].kind = KindOf(f, m)
        PROVE  l < m
    <3>1. /\ j + 1 \in 1 .. Len(ch) /\ c[j] = ch[j + 1]
          /\ k + 1 \in 1 .. Len(ch) /\ c[k] = ch[k + 1] /\ j + 1 < k + 1
      BY <1>3, <1>4, <2>2
    <3>. QED
      BY <2>2, <3>1 DEF Ordered
  <2>3. ASSUME NEW l \in S, NEW m \in S, l < m, m \in GoneOf(f, c, S)
        PROVE  l \in GoneOf(f, c, S)
    BY <1>9, <1>10, <2>3 DEF Ordered
  <2>. QED
    BY <2>1, <2>2, <2>3 DEF Ordered
<1>. QED
  BY <1>2, <1>4, <1>5, <1>6, <1>9, <1>10, <1>11

-----------------------------------------------------------------------------
(* The loops of the parties, and what they have sent.                      *)

Others(p) == Members \ {p}

\* The loop p is in or behind, or has thrown in, ...
Place(p) == IF Threw(p) THEN CHOOSE l \in Throwing(flow) : TRUE ELSE loop[p]

\* ... and how often it has been through the body of the loop l.
Iterations(p, l) ==
  IF Place(p) > l THEN size - 1 ELSE IF Place(p) = l THEN i[p] - 1 ELSE 0

\* The loops whose message q has sent p.
SentLoops(q, p) == {l \in Sending(flow) : \E k \in 1 .. Iterations(q, l) : Peer(q, k) = p}

LegacyTyped ==
  /\ size \in Sizes /\ flow \in Flows
  /\ loop \in [Parties -> 0 .. Len(Calls(flow)) + 1]
  /\ \A p \in Parties : Threw(p) => Throwing(flow) # {}
  /\ i \in [Parties -> 1 .. size - 1]
  /\ held \in [Parties -> PartBags]
  /\ toRouter \in [Nodes -> [Parties -> Seq(Messages)]]

LEMMA SizeAndFlow ==
  ASSUME LegacyTyped
  PROVE  /\ N \in Nat /\ size \in 2 .. N /\ Members = 1 .. size /\ Members \subseteq Parties
         /\ Parties \subseteq Nodes
         /\ flow \in FlowNames
<1>1. size \in Sizes /\ flow \in Flows /\ N \in Nat
  BY NAssumption DEF LegacyTyped
<1>2. size \in 2 .. N /\ flow \in FlowNames
  BY <1>1, LegacyAssumption
<1>. QED
  BY <1>1, <1>2 DEF Members, Parties, Nodes

\* A loop over all parties but one.
LEMMA Peers ==
  ASSUME LegacyTyped, NEW p \in Members
  PROVE  /\ \A k \in 1 .. size - 1 : Peer(p, k) \in Others(p)
         /\ \A j, k \in 1 .. size - 1 : Peer(p, j) = Peer(p, k) => j = k
BY SizeAndFlow DEF Peer, Others

LEMMA PlaceType ==
  ASSUME LegacyTyped, NEW p \in Parties
  PROVE  Place(p) \in 1 .. Len(Calls(flow)) + 1 /\ Len(Calls(flow)) \in Nat
<1>1. /\ Len(Calls(flow)) \in 2 .. 8 /\ DOMAIN Calls(flow) = 1 .. Len(Calls(flow))
  BY SizeAndFlow, FlowIsLoops
<1>2. CASE Threw(p)
  <2>1. PICK l \in Throwing(flow) : TRUE
    BY <1>2 DEF LegacyTyped
  <2>2. Place(p) \in Throwing(flow)
    BY <1>2, <2>1 DEF Place
  <2>. QED
    BY <1>1, <2>2 DEF Throwing, Collecting
<1>3. CASE ~Threw(p)
  <2>1. loop[p] \in 0 .. Len(Calls(flow)) + 1 /\ loop[p] # 0
    BY <1>3 DEF LegacyTyped, Threw
  <2>. QED
    BY <1>1, <1>3, <2>1 DEF Place
<1>. QED
  BY <1>1, <1>2, <1>3

LEMMA IterationsType ==
  ASSUME LegacyTyped, NEW p \in Parties, NEW l \in Nat
  PROVE  Iterations(p, l) \in 0 .. size - 1
<1>1. i[p] \in 1 .. size - 1 /\ size \in Nat
  BY SizeAndFlow DEF LegacyTyped
<1>. QED
  BY <1>1, SizeAndFlow, PlaceType DEF Iterations

\* An iteration of a loop ...
LEMMA IterationsNext ==
  ASSUME LegacyTyped, size' = size, flow' = flow, NEW p \in Parties,
         NEW L \in DOMAIN Calls(flow), loop[p] = L, NextIteration(p)
  PROVE  /\ loop' \in [Parties -> 0 .. Len(Calls(flow)) + 1]
         /\ i' \in [Parties -> 1 .. size - 1]
         /\ \A q \in Parties : Threw(q)' = Threw(q)
         /\ L \in Nat /\ Iterations(p, L) = i[p] - 1 /\ Iterations(p, L)' = i[p]
         /\ \A q \in Parties : \A l \in Nat :
              q # p \/ l # L => Iterations(q, l)' = Iterations(q, l)
<1>. DEFINE n == Len(Calls(flow))
<1>1. n \in Nat /\ L \in 1 .. n /\ L = loop[p] /\ size \in Nat /\ size >= 2
  BY SizeAndFlow, FlowIsLoops
<1>2. loop \in [Parties -> 0 .. n + 1] /\ i \in [Parties -> 1 .. size - 1] /\ i[p] \in 1 .. size - 1
  BY DEF LegacyTyped
<1>3. Place(p) = L
  BY <1>1 DEF Place, Threw
<1>. HIDE DEF n
<1>4. /\ loop' \in [Parties -> 0 .. n + 1] /\ i' \in [Parties -> 1 .. size - 1]
      /\ \A q \in Parties \ {p} : loop'[q] = loop[q] /\ i'[q] = i[q]
      /\ i[p] < size - 1 => loop'[p] = L /\ i'[p] = i[p] + 1
      /\ ~(i[p] < size - 1) => loop'[p] = L + 1 /\ i'[p] = 1
  <2>1. CASE i[p] < size - 1
    BY <1>1, <1>2, <2>1 DEF NextIteration
  <2>2. CASE ~(i[p] < size - 1)
    BY <1>1, <1>2, <2>2 DEF NextIteration
  <2>. QED
    BY <2>1, <2>2
<1>5. \A q \in Parties : Threw(q)' = Threw(q)
  BY <1>1, <1>4 DEF Threw
<1>6. Place(p)' = loop'[p] /\ \A q \in Parties \ {p} : Place(q)' = Place(q)
  BY <1>1, <1>4, <1>5 DEF Place, Threw
<1>7. ASSUME NEW q \in Parties \ {p}, NEW l \in Nat
      PROVE  Iterations(q, l)' = Iterations(q, l)
  BY <1>4, <1>6 DEF Iterations
<1>8. Iterations(p, L) = i[p] - 1
  BY <1>1, <1>3 DEF Iterations
<1>9. ASSUME NEW l \in Nat
      PROVE  Iterations(p, l)' = IF l = L THEN i[p] ELSE Iterations(p, l)
  <2>1. CASE i[p] < size - 1
    BY <1>1, <1>2, <1>3, <1>4, <1>6, <2>1 DEF Iterations
  <2>2. CASE ~(i[p] < size - 1)
    <3>1. i[p] = size - 1
      BY <1>1, <1>2, <2>2
    <3>. QED
      BY <1>1, <1>2, <1>3, <1>4, <1>6, <2>2, <3>1 DEF Iterations
  <2>. QED
    BY <2>1, <2>2
<1>10. L \in Nat /\ Iterations(p, L)' = i[p]
  BY <1>1, <1>9
<1>11. ASSUME NEW q \in Parties, NEW l \in Nat, q # p \/ l # L
       PROVE  Iterations(q, l)' = Iterations(q, l)
  BY <1>7, <1>9, <1>11
<1>. QED
  BY <1>4, <1>5, <1>8, <1>10, <1>11 DEF n

\* ... and none.
LEMMA IterationsThrow ==
  ASSUME LegacyTyped, size' = size, flow' = flow, i' = i, NEW p \in Parties,
         loop[p] \in Throwing(flow), loop' = [loop EXCEPT ![p] = 0]
  PROVE  \A q \in Parties : \A l \in Nat : Iterations(q, l)' = Iterations(q, l)
<1>1. loop \in [Parties -> 0 .. Len(Calls(flow)) + 1] /\ flow \in FlowNames
  BY SizeAndFlow DEF LegacyTyped
<1>2. loop[p] # 0 /\ \A l \in Throwing(flow) : l = loop[p]
  BY <1>1, FlowIsLoops, AllFlowFacts DEF FlowFacts, Throwing, Collecting
<1>3. Place(p)' = loop[p] /\ Place(p) = loop[p]
  BY <1>1, <1>2 DEF Place, Threw
<1>4. \A q \in Parties \ {p} : Place(q)' = Place(q)
  BY <1>1 DEF Place, Threw
<1>. QED
  BY <1>3, <1>4 DEF Iterations

LEMMA SentInOrder ==
  ASSUME LegacyTyped, NEW q \in Parties, NEW p, NEW m \in SentLoops(q, p)
  PROVE  m <= Place(q) /\ \A l \in Sending(flow) : l < m => l \in SentLoops(q, p)
<1>1. Place(q) \in Nat /\ \A l \in Sending(flow) : l \in Nat
  BY PlaceType, SizeAndFlow, FlowIsLoops DEF Sending
<1>2. PICK k \in 1 .. Iterations(q, m) : Peer(q, k) = p
  BY DEF SentLoops
<1>3. m \in Sending(flow) /\ m \in Nat /\ Iterations(q, m) \in 0 .. size - 1 /\ size \in Nat
  BY <1>1, IterationsType, SizeAndFlow DEF SentLoops
<1>4. m <= Place(q)
  BY <1>1, <1>2, <1>3 DEF Iterations
<1>5. ASSUME NEW l \in Sending(flow), l < m
      PROVE  l \in SentLoops(q, p)
  <2>1. Iterations(q, l) = size - 1
    BY <1>1, <1>3, <1>4, <1>5 DEF Iterations
  <2>2. k \in 1 .. Iterations(q, l)
    BY <1>3, <2>1
  <2>. QED
    BY <1>2, <2>2 DEF SentLoops
<1>. QED
  BY <1>4, <1>5

-----------------------------------------------------------------------------
(* The connections.                                                        *)

\* The loops whose message p has taken off its connection to q, ...
GoneLoops(q, p) == GoneOf(flow, toRouter[q][p], SentLoops(q, p))

\* ... and the parties whose message of the loop l has come.
Got(p, l) == {q \in Others(p) : l \in GoneLoops(q, p)}

Connected(q, p) == Ordered(flow, toRouter[q][p], SentLoops(q, p))

ConnectionsInv ==
  /\ \A p \in Members : toRouter[p][p] = <<>>
  /\ \A p \in Members : \A q \in Others(p) : Connected(q, p)

LEMMA SameGone ==
  ASSUME flow' = flow, size' = size, NEW p, NEW q,
         SentLoops(q, p)' = SentLoops(q, p), toRouter'[q][p] = toRouter[q][p]
  PROVE  GoneLoops(q, p)' = GoneLoops(q, p) /\ Connected(q, p)' = Connected(q, p)
BY DEF GoneLoops, Connected

LEMMA SameGot ==
  ASSUME flow' = flow, size' = size, NEW p, NEW l,
         \A q \in Others(p) : GoneLoops(q, p)' = GoneLoops(q, p)
  PROVE  Got(p, l)' = Got(p, l)
BY DEF Got, Others, Members

LEMMA GotType ==
  ASSUME LegacyTyped, NEW p \in Members, NEW l
  PROVE  /\ Got(p, l) \subseteq Others(p)
         /\ IsFiniteSet(Got(p, l)) /\ Cardinality(Got(p, l)) \in 0 .. size - 1
         /\ Cardinality(Got(p, l)) = size - 1 => Got(p, l) = Others(p)
         /\ Cardinality(Got(p, l)) = 0 <=> Got(p, l) = {}
<1>1. size \in Nat /\ Members = 1 .. size
  BY SizeAndFlow
<1>2. IsFiniteSet(Members) /\ Cardinality(Members) = size
  BY <1>1, FS_Interval
<1>3. IsFiniteSet(Others(p)) /\ Cardinality(Others(p)) = size - 1
  BY <1>2, FS_RemoveElement DEF Others
<1>4. Got(p, l) \subseteq Others(p)
  BY DEF Got
<1>5. /\ IsFiniteSet(Got(p, l)) /\ Cardinality(Got(p, l)) \in Nat
      /\ Cardinality(Got(p, l)) <= size - 1
      /\ Cardinality(Got(p, l)) = size - 1 => Got(p, l) = Others(p)
  BY <1>3, <1>4, FS_Subset, FS_CardinalityType
<1>. QED
  BY <1>1, <1>4, <1>5, FS_EmptySet

\* An iteration of a loop that does not send changes nothing of this.
LEMMA SentSame ==
  ASSUME LegacyTyped, size' = size, flow' = flow, NEW p \in Parties,
         NEW L \in DOMAIN Calls(flow) \ Sending(flow), loop[p] = L, NextIteration(p)
  PROVE  \A a \in Parties : \A b : SentLoops(a, b)' = SentLoops(a, b)
<1>1. \A a \in Parties : \A l \in Sending(flow) : Iterations(a, l)' = Iterations(a, l)
  BY IterationsNext, SizeAndFlow, FlowIsLoops DEF Sending
<1>. QED
  BY <1>1 DEF SentLoops

\* One of a loop that sends adds the loop on one connection.
LEMMA SentNext ==
  ASSUME LegacyTyped, size' = size, flow' = flow, NEW p \in Members,
         NEW L \in Sending(flow), loop[p] = L, NextIteration(p),
         NEW q, q = Peer(p, i[p])
  PROVE  /\ SentLoops(p, q)' = SentLoops(p, q) \cup {L}
         /\ \A l \in SentLoops(p, q) : l < L
         /\ \A a \in Parties : \A b : a # p \/ b # q => SentLoops(a, b)' = SentLoops(a, b)
<1>1. p \in Parties /\ L \in DOMAIN Calls(flow) /\ L # 0 /\ \A l \in Sending(flow) : l \in Nat
  BY SizeAndFlow, FlowIsLoops DEF Sending
<1>2. /\ Iterations(p, L) = i[p] - 1 /\ Iterations(p, L)' = i[p]
      /\ \A a \in Parties : \A l \in Sending(flow) :
           a # p \/ l # L => Iterations(a, l)' = Iterations(a, l)
  BY <1>1, IterationsNext
<1>3. i[p] \in 1 .. size - 1 /\ size \in Nat
  BY <1>1, SizeAndFlow DEF LegacyTyped
<1>4. \A k \in 1 .. size - 1 : Peer(p, k) = q <=> k = i[p]
  BY <1>3, Peers
<1>5. \A k \in 1 .. i[p] - 1 : Peer(p, k) # q
  BY <1>3, <1>4
<1>6. L \notin SentLoops(p, q)
  BY <1>2, <1>5 DEF SentLoops
<1>7. ASSUME NEW b
      PROVE  (\E k \in 1 .. i[p] : Peer(p, k) = b)
               <=> b = q \/ \E k \in 1 .. i[p] - 1 : Peer(p, k) = b
  <2>1. \A k \in 1 .. i[p] : k = i[p] \/ k \in 1 .. i[p] - 1
    BY <1>3
  <2>2. i[p] \in 1 .. i[p] /\ \A k \in 1 .. i[p] - 1 : k \in 1 .. i[p]
    BY <1>3
  <2>. QED
    BY <2>1, <2>2
<1>8. ASSUME NEW l \in SentLoops(p, q)
      PROVE  l < L
  <2>1. l <= Place(p)
    BY <1>1, SentInOrder
  <2>2. Place(p) = L
    BY <1>1 DEF Place, Threw
  <2>. QED
    BY <1>1, <1>6, <1>8, <2>1, <2>2 DEF SentLoops
<1>9. ASSUME NEW a \in Parties, NEW b, NEW l \in Sending(flow)
      PROVE  l \in SentLoops(a, b)' <=> l \in SentLoops(a, b) \/ (a = p /\ b = q /\ l = L)
  <2>1. CASE a = p /\ l = L
    BY <1>2, <1>7, <2>1 DEF SentLoops
  <2>2. CASE ~(a = p /\ l = L)
    BY <1>2, <2>2 DEF SentLoops
  <2>. QED
    BY <2>1, <2>2
<1>10. \A a \in Parties : \A b :
         SentLoops(a, b) \subseteq Sending(flow) /\ SentLoops(a, b)' \subseteq Sending(flow)
  BY DEF SentLoops
<1>11. SentLoops(p, q)' = SentLoops(p, q) \cup {L}
  BY <1>1, <1>9, <1>10
<1>12. ASSUME NEW a \in Parties, NEW b, a # p \/ b # q
       PROVE  SentLoops(a, b)' = SentLoops(a, b)
  BY <1>9, <1>10, <1>12
<1>. QED
  BY <1>8, <1>11, <1>12

\* What is sent has not come; everything else is as it was.
LEMMA SendStep ==
  ASSUME LegacyTyped, ConnectionsInv, size' = size, flow' = flow, NEW p \in Members,
         NEW L \in Sending(flow), loop[p] = L, NextIteration(p),
         NEW q, q = Peer(p, i[p]), NEW m \in Messages, m.kind = KindOf(flow, L),
         toRouter' = SendTo(p, q, m)
  PROVE  /\ q \in Others(p)
         /\ toRouter' \in [Nodes -> [Parties -> Seq(Messages)]]
         /\ toRouter'[p][q] = Append(toRouter[p][q], m)
         /\ \A a \in Nodes, b \in Parties :
              a # p \/ b # q => toRouter'[a][b] = toRouter[a][b]
         /\ ConnectionsInv'
         /\ \A b \in Members : \A l : Got(b, l)' = Got(b, l)
<1>1. /\ p \in Parties /\ p \in Nodes /\ Members \subseteq Parties /\ Parties \subseteq Nodes
      /\ flow \in FlowNames /\ i[p] \in 1 .. size - 1
  BY SizeAndFlow DEF LegacyTyped
<1>2. q \in Others(p) /\ q \in Parties /\ q # p
  BY <1>1, Peers DEF Others
<1>3. toRouter \in [Nodes -> [Parties -> Seq(Messages)]]
  BY DEF LegacyTyped
<1>4. toRouter[p][q] \in Seq(Messages) /\ Append(toRouter[p][q], m) \in Seq(Messages)
  BY <1>1, <1>2, <1>3, AppendProperties
<1>5. /\ toRouter' \in [Nodes -> [Parties -> Seq(Messages)]]
      /\ toRouter'[p][q] = Append(toRouter[p][q], m)
      /\ \A a \in Nodes, b \in Parties :
           a # p \/ b # q => toRouter'[a][b] = toRouter[a][b]
  BY <1>1, <1>2, <1>3, <1>4 DEF SendTo
<1>6. /\ SentLoops(p, q)' = SentLoops(p, q) \cup {L}
      /\ \A l \in SentLoops(p, q) : l < L
      /\ \A a \in Parties : \A b : a # p \/ b # q => SentLoops(a, b)' = SentLoops(a, b)
  BY SentNext
<1>7. Connected(p, q)' /\ GoneLoops(p, q)' = GoneLoops(p, q)
  <2>. DEFINE ch == toRouter[p][q]
              S == SentLoops(p, q)
  <2>1. Ordered(flow, ch, S) /\ S \in SUBSET Sending(flow)
    <3>1. p \in Others(q) /\ q \in Members
      BY <1>2 DEF Others
    <3>. QED
      BY <3>1 DEF ConnectionsInv, Connected, SentLoops
  <2>2. ch \in Seq(Messages) /\ \A l \in S : l < L
    BY <1>4, <1>6
  <2>3. flow \in FlowNames
    BY <1>1
  <2>4. toRouter'[p][q] = Append(ch, m) /\ SentLoops(p, q)' = S \cup {L}
    BY <1>5, <1>6
  <2>5. GoneLoops(p, q) = GoneOf(flow, ch, S)
    BY Zenon DEF GoneLoops
  <2>6. GoneLoops(p, q)' = GoneOf(flow, Append(ch, m), S \cup {L})
    BY <2>4, Zenon DEF GoneLoops
  <2>7. Connected(p, q)' = Ordered(flow, Append(ch, m), S \cup {L})
    BY <2>4, Zenon DEF Connected
  <2>. HIDE DEF ch, S
  <2>8. /\ Ordered(flow, Append(ch, m), S \cup {L})
        /\ GoneOf(flow, Append(ch, m), S \cup {L}) = GoneOf(flow, ch, S)
    BY ONLY L \in Sending(flow), m \in Messages, m.kind = KindOf(flow, L),
            <2>1, <2>2, <2>3, OrderedSend
  <2>. QED
    BY <2>5, <2>6, <2>7, <2>8
<1>8. ASSUME NEW a \in Members, NEW b \in Members, a # p \/ b # q
      PROVE  GoneLoops(a, b)' = GoneLoops(a, b) /\ Connected(a, b)' = Connected(a, b)
  BY <1>1, <1>5, <1>6, <1>8, SameGone
<1>9. ASSUME NEW b \in Members, NEW a \in Others(b)
      PROVE  Connected(a, b)' /\ GoneLoops(a, b)' = GoneLoops(a, b)
  BY <1>7, <1>8 DEF ConnectionsInv, Others
<1>10. \A b \in Members : toRouter'[b][b] = <<>>
  BY <1>1, <1>2, <1>5 DEF ConnectionsInv
<1>11. Members' = Members /\ \A b : Others(b)' = Others(b)
  BY DEF Members, Others
<1>12. ConnectionsInv'
  BY <1>9, <1>10, <1>11 DEF ConnectionsInv
<1>13. \A b \in Members : \A l : Got(b, l)' = Got(b, l)
  BY <1>9, SameGot
<1>. QED
  BY <1>2, <1>5, <1>12, <1>13

\* What is received is of the sender's first loop that had not come.
LEMMA ReceiveStep ==
  ASSUME LegacyTyped, ConnectionsInv, size' = size, flow' = flow,
         NEW p \in Members, NEW s \in Members, Arrived(p, s), toRouter' = Taken(p, s),
         \A a \in Parties : \A b : SentLoops(a, b)' = SentLoops(a, b)
  PROVE  /\ s \in Others(p)
         /\ toRouter' \in [Nodes -> [Parties -> Seq(Messages)]]
         /\ toRouter'[s][p] = Tail(toRouter[s][p])
         /\ \A a \in Nodes, b \in Parties :
              a # s \/ b # p => toRouter'[a][b] = toRouter[a][b]
         /\ ConnectionsInv'
         /\ Received(p, s) \in Messages
         /\ \E h \in Sending(flow) :
              /\ Received(p, s).kind = KindOf(flow, h)
              /\ s \notin Got(p, h) /\ Got(p, h)' = Got(p, h) \cup {s}
              /\ \A l \in Sending(flow) : l < h => s \in Got(p, l)
              /\ \A l : l # h => Got(p, l)' = Got(p, l)
              /\ \A b \in Members \ {p} : \A l : Got(b, l)' = Got(b, l)
<1>1. /\ p \in Parties /\ s \in Parties /\ s \in Nodes /\ flow \in FlowNames
      /\ Members \subseteq Parties /\ Parties \subseteq Nodes
  BY SizeAndFlow
<1>2. toRouter[s][p] # <<>> /\ s \in Others(p)
  BY DEF Arrived, ConnectionsInv, Others
<1>3. toRouter \in [Nodes -> [Parties -> Seq(Messages)]]
  BY DEF LegacyTyped
<1>4. /\ toRouter[s][p] \in Seq(Messages) /\ Tail(toRouter[s][p]) \in Seq(Messages)
      /\ Received(p, s) = Head(toRouter[s][p]) /\ Received(p, s) \in Messages
  BY <1>1, <1>2, <1>3, HeadTailProperties DEF Received
<1>5. /\ toRouter' \in [Nodes -> [Parties -> Seq(Messages)]]
      /\ toRouter'[s][p] = Tail(toRouter[s][p])
      /\ \A a \in Nodes, b \in Parties :
           a # s \/ b # p => toRouter'[a][b] = toRouter[a][b]
  BY <1>1, <1>3, <1>4 DEF Taken
<1>6. Connected(s, p) /\ SentLoops(s, p) \subseteq Sending(flow)
  BY <1>2 DEF ConnectionsInv, SentLoops
<1>7. /\ Ordered(flow, Tail(toRouter[s][p]), SentLoops(s, p))
      /\ \E h \in SentLoops(s, p) \ GoneOf(flow, toRouter[s][p], SentLoops(s, p)) :
           /\ Head(toRouter[s][p]).kind = KindOf(flow, h)
           /\ GoneOf(flow, Tail(toRouter[s][p]), SentLoops(s, p))
                = GoneOf(flow, toRouter[s][p], SentLoops(s, p)) \cup {h}
           /\ \A l \in SentLoops(s, p) :
                l < h => l \in GoneOf(flow, toRouter[s][p], SentLoops(s, p))
  BY <1>1, <1>2, <1>4, <1>6, OrderedReceive DEF Connected
<1>8. Connected(s, p)'
  BY <1>1, <1>5, <1>7 DEF Connected
<1>9. PICK h \in SentLoops(s, p) \ GoneLoops(s, p) :
        /\ Received(p, s).kind = KindOf(flow, h)
        /\ GoneLoops(s, p)' = GoneLoops(s, p) \cup {h}
        /\ \A l \in SentLoops(s, p) : l < h => l \in GoneLoops(s, p)
  BY <1>1, <1>4, <1>5, <1>7 DEF GoneLoops
<1>10. ASSUME NEW a \in Members, NEW b \in Members, a # s \/ b # p
       PROVE  GoneLoops(a, b)' = GoneLoops(a, b) /\ Connected(a, b)' = Connected(a, b)
  BY <1>1, <1>5, <1>10, SameGone
<1>11. Members' = Members /\ \A b : Others(b)' = Others(b)
  BY DEF Members, Others
<1>12. ConnectionsInv'
  <2>1. \A b \in Members : \A a \in Others(b) : Connected(a, b)'
    BY <1>8, <1>10 DEF ConnectionsInv, Others
  <2>2. \A b \in Members : toRouter'[b][b] = <<>>
    BY <1>1, <1>2, <1>5 DEF ConnectionsInv, Others
  <2>. QED
    BY <1>11, <2>1, <2>2 DEF ConnectionsInv
<1>13. h \in Sending(flow) /\ s \notin Got(p, h)
  BY <1>6, <1>9 DEF Got
<1>14. \A l \in Sending(flow) : l < h => s \in Got(p, l)
  BY <1>1, <1>2, <1>9, SentInOrder DEF Got
<1>15. ASSUME NEW l
       PROVE  Got(p, l)' = Got(p, l) \cup {x \in {s} : l = h}
  <2>1. \A a \in Others(p) : l \in GoneLoops(a, p)' <=> l \in GoneLoops(a, p) \/ (a = s /\ l = h)
    BY <1>2, <1>9, <1>10 DEF Others
  <2>2. \A a : a \in Got(p, l)' <=> a \in Others(p) /\ l \in GoneLoops(a, p)'
    BY <1>11 DEF Got
  <2>3. \A a : a \in Got(p, l) <=> a \in Others(p) /\ l \in GoneLoops(a, p)
    BY DEF Got
  <2>. QED
    BY <1>2, <2>1, <2>2, <2>3
<1>16. \A b \in Members \ {p} : \A l : Got(b, l)' = Got(b, l)
  BY <1>10, SameGot DEF Others
<1>17. Got(p, h)' = Got(p, h) \cup {s} /\ \A l : l # h => Got(p, l)' = Got(p, l)
  BY <1>15
<1>. QED
  BY <1>2, <1>4, <1>5, <1>9, <1>12, <1>13, <1>14, <1>16, <1>17

-----------------------------------------------------------------------------
(* Bags of parts.                                                          *)

LEMMA BagOfSet ==
  ASSUME NEW A \in SUBSET (Parties \X (0 .. N))
  PROVE  SetToBag(A) \in PartBags
BY DEF SetToBag, PartBags

LEMMA BagsAdded ==
  ASSUME NEW b \in PartBags, NEW c \in PartBags
  PROVE  b (+) c \in PartBags /\ \A x : BagIn(x, b (+) c) <=> BagIn(x, b) \/ BagIn(x, c)
<1>1. PICK A \in SUBSET (Parties \X (0 .. N)) : b \in [A -> Nat \ {0}]
  BY DEF PartBags
<1>2. PICK B \in SUBSET (Parties \X (0 .. N)) : c \in [B -> Nat \ {0}]
  BY DEF PartBags
<1>3. b (+) c \in [A \cup B -> Nat \ {0}]
  BY <1>1, <1>2 DEF (+)
<1>4. A \cup B \in SUBSET (Parties \X (0 .. N))
  OBVIOUS
<1>5. DOMAIN b = A /\ DOMAIN c = B /\ DOMAIN (b (+) c) = A \cup B
  BY <1>1, <1>2, <1>3
<1>. QED
  BY <1>3, <1>4, <1>5 DEF PartBags, BagIn, BagToSet

LEMMA BagsOfSetsAdded ==
  ASSUME NEW A, NEW B, A \cap B = {}
  PROVE  SetToBag(A) (+) SetToBag(B) = SetToBag(A \cup B)
BY DEF SetToBag, (+)

LEMMA BagHolds ==
  ASSUME NEW A, NEW x
  PROVE  BagIn(x, SetToBag(A)) <=> x \in A
BY DEF SetToBag, BagIn, BagToSet

LEMMA BagIsABag ==
  ASSUME NEW b \in PartBags
  PROVE  IsABag(b) /\ BagToSet(b) \subseteq Parties \X (0 .. N)
<1>1. PICK A \in SUBSET (Parties \X (0 .. N)) : b \in [A -> Nat \ {0}]
  BY DEF PartBags
<1>2. DOMAIN b = A /\ \A x \in A : b[x] \in {n \in Nat : n > 0}
  BY <1>1
<1>3. b \in [DOMAIN b -> {n \in Nat : n > 0}]
  BY <1>1, <1>2
<1>. QED
  BY <1>2, <1>3 DEF IsABag, BagToSet

\* What the parties send and hold at first is made of parts.
LEMMA PartTypes ==
  ASSUME LegacyTyped, NEW p \in Parties
  PROVE  /\ Part(p, p) \in PartBags /\ Junk(p) \in PartBags /\ Value(p) \in PartBags
         /\ \A q \in Members : Part(p, q) \in PartBags
<1>1. 0 \in 0 .. N /\ Members \subseteq 0 .. N /\ Parties \subseteq 0 .. N
  BY SizeAndFlow DEF Parties
<1>2. /\ {<<p, p>>} \in SUBSET (Parties \X (0 .. N)) /\ {<<p, 0>>} \in SUBSET (Parties \X (0 .. N))
      /\ {<<p, q>> : q \in Members} \in SUBSET (Parties \X (0 .. N))
      /\ \A q \in Members : {<<p, q>>} \in SUBSET (Parties \X (0 .. N))
  BY <1>1
<1>. QED
  BY <1>2, BagOfSet DEF Part, Junk, Value

-----------------------------------------------------------------------------
(* Counting what has come.                                                 *)

TwoInTurn == size = 2 /\ flow \in {"SecretSum", "PartialSums", "SyncedSum"}

\* p has added a number that is nobody's input.
Spoilt(p) == BagIn(<<p, 0>>, held[p])

\* Every loop of p that receives counts what came of the loop before it.
TakesTurns(p) == TwoInTurn \/ flow = "Distribution" \/ (flow = "PlainSum" /\ ~Spoilt(p))

SyncCount(p) == \A l \in Syncing(flow) : Iterations(p, l) <= Cardinality(Got(p, l - 1))

SumCount(p) ==
  flow = "SecretSum" =>
    Cardinality(Got(p, 1)) + Cardinality(Got(p, 3)) = Iterations(p, 2) + Iterations(p, 4)

TurnCount(p) ==
  TakesTurns(p) => \A l \in Sending(flow) : Cardinality(Got(p, l)) = Iterations(p, l + 1)

CountInv(p) == SyncCount(p) /\ SumCount(p) /\ TurnCount(p)

LEMMA TurnFlows ==
  ASSUME NEW p, TakesTurns(p)
  PROVE  /\ flow \in InTurn /\ TurnFacts(flow)
         /\ size # 2 => flow \in {"Distribution", "PlainSum"}
<1>1. flow \in InTurn
  BY DEF TakesTurns, TwoInTurn, InTurn
<1>. QED
  BY <1>1, AllTurnFacts DEF TakesTurns, TwoInTurn

\* Where every loop takes its turn, the message is of the loop before.
LEMMA HeadInTurn ==
  ASSUME LegacyTyped, NEW p \in Members, TakesTurns(p), TurnCount(p),
         NEW L \in Syncing(flow) \cup Collecting(flow), loop[p] = L,
         NEW s \in Others(p), NEW h \in Sending(flow), s \notin Got(p, h),
         \A l \in Sending(flow) : l < h => s \in Got(p, l)
  PROVE  h = L - 1
<1>1. L - 1 \in Sending(flow)
  BY TurnFlows DEF TurnFacts
<1>2. h \in Nat /\ L \in Nat /\ L # 0 /\ p \in Parties
  BY SizeAndFlow, FlowIsLoops DEF Sending, Syncing, Collecting
<1>3. CASE flow \in {"Distribution", "PlainSum"}
  BY <1>1, <1>3, DistributionLoops, PlainSumLoops
<1>4. CASE size = 2
  <2>1. Place(p) = L /\ i[p] = 1
    BY <1>2, <1>4 DEF Place, Threw, LegacyTyped
  <2>2. ASSUME h < L - 1
        PROVE  FALSE
    <3>1. Iterations(p, h + 1) = size - 1
      BY <1>2, <2>1, <2>2 DEF Iterations
    <3>2. Cardinality(Got(p, h)) = size - 1
      BY <3>1 DEF TurnCount
    <3>. QED
      BY <3>2, GotType
  <2>3. ASSUME L - 1 < h
        PROVE  FALSE
    <3>1. s \in Got(p, L - 1)
      BY <1>1, <2>3
    <3>2. Iterations(p, L) = 0 /\ (L - 1) + 1 = L
      BY <1>2, <2>1 DEF Iterations
    <3>3. Cardinality(Got(p, L - 1)) = 0
      BY <1>1, <3>2 DEF TurnCount
    <3>. QED
      BY <3>1, <3>3, GotType
  <2>. QED
    BY <1>2, <2>2, <2>3
<1>. QED
  BY <1>3, <1>4, TurnFlows

\* A step that has p receive nothing.
LEMMA CountSame ==
  ASSUME LegacyTyped, flow' = flow, size' = size, NEW p \in Members, CountInv(p),
         \A l : Got(p, l)' = Got(p, l), TakesTurns(p)' => TakesTurns(p),
         \A l \in Nat \ Sending(flow) : Iterations(p, l)' = Iterations(p, l)
  PROVE  CountInv(p)'
<1>1. flow \in FlowNames /\ \A l \in Sending(flow) \cup Syncing(flow) : l \in Nat /\ l + 1 \in Nat
  BY SizeAndFlow, FlowIsLoops DEF Sending, Syncing
<1>2. \A l \in Syncing(flow) : l \notin Sending(flow)
  BY DEF Syncing, Sending
<1>3. SyncCount(p)'
  BY <1>1, <1>2 DEF CountInv, SyncCount
<1>4. SumCount(p)'
  BY SecretSumLoops DEF CountInv, SumCount
<1>5. TurnCount(p)'
  <2>. SUFFICES ASSUME TakesTurns(p)', NEW l \in Sending(flow)
                PROVE  Cardinality(Got(p, l)') = Iterations(p, l + 1)'
    BY DEF TurnCount
  <2>1. l + 1 \in Nat \ Sending(flow)
    BY <1>1, TurnFlows DEF TurnFacts
  <2>2. Cardinality(Got(p, l)) = Iterations(p, l + 1)
    BY DEF CountInv, TurnCount
  <2>. QED
    BY <2>1, <2>2
<1>. QED
  BY <1>3, <1>4, <1>5 DEF CountInv

\* A step that has p receive a message of the loop h, and count it or drop it.
LEMMA CountReceive ==
  ASSUME LegacyTyped, flow' = flow, size' = size, NEW p \in Members, CountInv(p),
         NEW L \in Syncing(flow) \cup Collecting(flow), loop[p] = L,
         NEW s \in Others(p), NEW h \in Sending(flow), s \notin Got(p, h),
         \A l \in Sending(flow) : l < h => s \in Got(p, l),
         Got(p, h)' = Got(p, h) \cup {s}, \A l : l # h => Got(p, l)' = Got(p, l),
         TakesTurns(p)' => TakesTurns(p),
         \/ NextIteration(p) /\ (L \in Syncing(flow) => h = L - 1)
         \/ UNCHANGED <<loop, i>> /\ L \in Syncing(flow) /\ h # L - 1
  PROVE  CountInv(p)'
<1>1. /\ flow \in FlowNames /\ L \in DOMAIN Calls(flow) /\ L \in Nat /\ L # 0 /\ p \in Parties
      /\ \A l \in Sending(flow) \cup Syncing(flow) : l \in Nat \ {0} /\ l + 1 \in Nat
  BY SizeAndFlow, FlowIsLoops DEF Sending, Syncing, Collecting
<1>2. \A l : Cardinality(Got(p, l)) \in Nat /\ IsFiniteSet(Got(p, l))
  BY GotType, FS_CardinalityType
<1>3. Cardinality(Got(p, h) \cup {s}) = Cardinality(Got(p, h)) + 1
  BY <1>2, FS_AddElement
<1>4. /\ Cardinality(Got(p, h)') = Cardinality(Got(p, h)) + 1
      /\ \A l : l # h => Cardinality(Got(p, l)') = Cardinality(Got(p, l))
  BY <1>3
<1>5. \A l : Cardinality(Got(p, l)') \in Nat /\ Cardinality(Got(p, l)) <= Cardinality(Got(p, l)')
  <2>. SUFFICES ASSUME NEW l
                PROVE  Cardinality(Got(p, l)') \in Nat
                         /\ Cardinality(Got(p, l)) <= Cardinality(Got(p, l)')
    OBVIOUS
  <2>. DEFINE n == Cardinality(Got(p, l))
  <2>1. n \in Nat
    BY <1>2
  <2>2. Cardinality(Got(p, l)') = n + 1 \/ Cardinality(Got(p, l)') = n
    BY <1>4
  <2>. QED
    BY <2>1, <2>2
<1>6. CASE UNCHANGED <<loop, i>> /\ L \in Syncing(flow) /\ h # L - 1
  <2>1. \A l \in Nat : Iterations(p, l)' = Iterations(p, l) /\ Iterations(p, l) \in Nat
    BY <1>1, <1>6, IterationsType DEF Iterations, Place, Threw
  <2>2. SyncCount(p)'
    <3>. SUFFICES ASSUME NEW l \in Syncing(flow)
                  PROVE  Iterations(p, l)' <= Cardinality(Got(p, l - 1)')
      BY DEF SyncCount
    <3>. DEFINE k == l - 1
    <3>1. Iterations(p, l) <= Cardinality(Got(p, k)) /\ l \in Nat
      BY <1>1 DEF CountInv, SyncCount
    <3>. HIDE DEF k
    <3>2. /\ Iterations(p, l)' = Iterations(p, l) /\ Iterations(p, l) \in Nat
          /\ Cardinality(Got(p, k)) \in Nat /\ Cardinality(Got(p, k)') \in Nat
          /\ Cardinality(Got(p, k)) <= Cardinality(Got(p, k)')
      BY <1>2, <1>5, <2>1, <3>1
    <3>3. Iterations(p, l)' <= Cardinality(Got(p, k)')
      BY <3>1, <3>2
    <3>. QED
      BY <3>3 DEF k
  <2>3. SumCount(p)'
    BY <1>6, SecretSumLoops DEF SumCount
  <2>4. ~TakesTurns(p)
    BY <1>6, HeadInTurn DEF CountInv
  <2>. QED
    BY <2>2, <2>3, <2>4 DEF CountInv, TurnCount
<1>7. CASE NextIteration(p) /\ (L \in Syncing(flow) => h = L - 1)
  <2>1. /\ Iterations(p, L)' = Iterations(p, L) + 1
        /\ \A l \in Nat : l # L => Iterations(p, l)' = Iterations(p, l)
        /\ \A l \in Nat : Iterations(p, l) \in Nat
    <3>1. i[p] \in Nat
      BY <1>1, SizeAndFlow DEF LegacyTyped
    <3>2. /\ Iterations(p, L) = i[p] - 1 /\ Iterations(p, L)' = i[p]
          /\ \A l \in Nat : l # L => Iterations(p, l)' = Iterations(p, l)
      BY <1>1, <1>7, IterationsNext
    <3>3. ASSUME NEW l \in Nat PROVE Iterations(p, l) \in Nat
      BY <1>1, IterationsType
    <3>. QED
      BY <3>1, <3>2, <3>3
  <2>2. SyncCount(p)'
    <3>. SUFFICES ASSUME NEW l \in Syncing(flow)
                  PROVE  Iterations(p, l)' <= Cardinality(Got(p, l - 1)')
      BY DEF SyncCount
    <3>. DEFINE k == l - 1
    <3>1. Iterations(p, l) <= Cardinality(Got(p, k)) /\ l \in Nat /\ (l = L => k = h)
      BY <1>1, <1>7 DEF CountInv, SyncCount
    <3>. HIDE DEF k
    <3>2. /\ Iterations(p, l) \in Nat
          /\ Cardinality(Got(p, k)) \in Nat /\ Cardinality(Got(p, k)') \in Nat
          /\ Cardinality(Got(p, k)) <= Cardinality(Got(p, k)')
      BY <1>2, <1>5, <2>1, <3>1
    <3>3. ASSUME l = L
          PROVE  Iterations(p, l)' <= Cardinality(Got(p, k)')
      <4>1. k = h
        BY <3>1, <3>3
      <4>2. Cardinality(Got(p, k)') = Cardinality(Got(p, k)) + 1
        BY <1>4, <4>1
      <4>3. Iterations(p, l)' = Iterations(p, l) + 1
        BY <2>1, <3>3
      <4>. QED
        BY <3>1, <3>2, <4>2, <4>3
    <3>4. ASSUME l # L
          PROVE  Iterations(p, l)' <= Cardinality(Got(p, k)')
      BY <2>1, <3>1, <3>2, <3>4
    <3>5. Iterations(p, l)' <= Cardinality(Got(p, k)')
      BY <3>3, <3>4
    <3>. QED
      BY <3>5 DEF k
  <2>3. SumCount(p)'
    <3>. SUFFICES ASSUME flow = "SecretSum"
                  PROVE  Cardinality(Got(p, 1)') + Cardinality(Got(p, 3)')
                           = Iterations(p, 2)' + Iterations(p, 4)'
      BY DEF SumCount
    <3>1. L \in {2, 4} /\ h \in {1, 3}
      BY SecretSumLoops
    <3>2. Cardinality(Got(p, 1)) + Cardinality(Got(p, 3)) = Iterations(p, 2) + Iterations(p, 4)
      BY DEF CountInv, SumCount
    <3>3. Cardinality(Got(p, 1)') + Cardinality(Got(p, 3)')
            = Cardinality(Got(p, 1)) + Cardinality(Got(p, 3)) + 1
      BY <1>2, <1>4, <3>1
    <3>4. Iterations(p, 2)' + Iterations(p, 4)' = Iterations(p, 2) + Iterations(p, 4) + 1
      BY <2>1, <3>1
    <3>. QED
      BY <3>2, <3>3, <3>4
  <2>4. TurnCount(p)'
    <3>. SUFFICES ASSUME TakesTurns(p), NEW l \in Sending(flow)
                  PROVE  Cardinality(Got(p, l)') = Iterations(p, l + 1)'
      BY DEF TurnCount
    <3>1. h = L - 1 /\ Cardinality(Got(p, l)) = Iterations(p, l + 1)
      BY HeadInTurn DEF CountInv, TurnCount
    <3>2. CASE l = h
      <4>1. l + 1 = L
        BY <1>1, <3>1, <3>2
      <4>. QED
        BY <1>4, <2>1, <3>1, <3>2, <4>1
    <3>3. CASE l # h
      <4>1. l + 1 # L /\ l + 1 \in Nat
        BY <1>1, <3>1, <3>3
      <4>. QED
        BY <1>4, <2>1, <3>1, <3>3, <4>1
    <3>. QED
      BY <3>2, <3>3
  <2>. QED
    BY <2>2, <2>3, <2>4 DEF CountInv
<1>. QED
  BY <1>6, <1>7

-----------------------------------------------------------------------------
(* What is on the connections, and what is added up of it.                 *)

ContentRight(q, p, m) ==
  /\ m.kind = "Value" => m.parts = Value(q)
  /\ m.kind = "Share" => m.parts = Part(q, p)
  /\ m.kind = "Partial" /\ TwoInTurn => m.parts = OneShareOfEach(q)

ContentInv(q, p) == \A k \in 1 .. Len(toRouter[q][p]) : ContentRight(q, p, toRouter[q][p][k])

\* The parties whose partial sum p has.
PartialsOf(p) ==
  {q \in Others(p) : \E l \in Sending(flow) : KindOf(flow, l) = "Partial" /\ q \in Got(p, l)}

Sums(p) == (({p} \cup Got(p, 1)) \X {p}) \cup (Members \X PartialsOf(p))

Values(p) == ({p} \cup Got(p, 1)) \X Members

HeldInv(p) ==
  /\ TwoInTurn \/ flow = "Distribution" => held[p] = SetToBag(Sums(p))
  /\ flow = "PlainSum" /\ ~Spoilt(p) => held[p] = SetToBag(Values(p))

LEMMA HeldSame ==
  ASSUME flow' = flow, size' = size, NEW p, \A l : Got(p, l)' = Got(p, l),
         held'[p] = held[p], HeldInv(p)
  PROVE  HeldInv(p)' /\ (TakesTurns(p)' => TakesTurns(p))
<1>1. Members' = Members /\ Others(p)' = Others(p)
  BY DEF Members, Others
<1>2. Sums(p)' = Sums(p) /\ Values(p)' = Values(p)
  BY <1>1 DEF Sums, Values, PartialsOf
<1>. QED
  BY <1>2 DEF HeldInv, TwoInTurn, Spoilt, TakesTurns

LEMMA ContentSame ==
  ASSUME flow' = flow, size' = size, NEW p, NEW q, toRouter'[q][p] = toRouter[q][p]
  PROVE  ContentInv(q, p)' = ContentInv(q, p)
BY DEF ContentInv, ContentRight, Value, Part, OneShareOfEach, Members, TwoInTurn

\* A partial sum between two parties is of one share of each.
LEMMA PartialIsDue ==
  ASSUME LegacyTyped, NEW p \in Members, TwoInTurn, TurnCount(p), HeldInv(p),
         NEW L \in Sending(flow), loop[p] = L, KindOf(flow, L) = "Partial"
  PROVE  held[p] = OneShareOfEach(p)
<1>1. L \in {3, 5} /\ 1 \in Sending(flow) /\ flow \in FlowNames
  BY SizeAndFlow, SecretSumLoops, PartialSumsLoops, SyncedSumLoops DEF TwoInTurn
<1>2. /\ Place(p) = L /\ i[p] = 1 /\ size = 2
  BY <1>1, SizeAndFlow DEF Place, Threw, LegacyTyped, TwoInTurn
<1>3. Iterations(p, 2) = size - 1 /\ Iterations(p, L + 1) = 0
  BY <1>1, <1>2 DEF Iterations
<1>4. Cardinality(Got(p, 1)) = size - 1 /\ Cardinality(Got(p, L)) = 0
  BY <1>1, <1>3 DEF TurnCount, TakesTurns
<1>5. Got(p, 1) = Others(p) /\ Got(p, L) = {}
  BY <1>4, GotType
<1>6. \A l \in Sending(flow) : KindOf(flow, l) = "Partial" => l = L
  BY <1>1, AllFlowFacts DEF FlowFacts
<1>7. PartialsOf(p) = {} /\ {p} \cup Got(p, 1) = Members
  BY <1>5, <1>6 DEF PartialsOf, Others
<1>8. Sums(p) = {<<q, p>> : q \in Members}
  BY <1>7 DEF Sums
<1>. QED
  BY <1>8 DEF HeldInv, OneShareOfEach

LEMMA ContentSent ==
  ASSUME LegacyTyped, NEW p \in Members, CountInv(p), HeldInv(p),
         NEW L \in Sending(flow), loop[p] = L, NEW q \in Members,
         NEW m, m = [kind |-> KindOf(flow, L), parts |-> Content(p, q, KindOf(flow, L))]
  PROVE  m \in Messages /\ ContentRight(p, q, m)
<1>1. p \in Parties /\ flow \in FlowNames
  BY SizeAndFlow
<1>2. KindOf(flow, L) \in Kinds
  BY <1>1, AllFlowFacts DEF FlowFacts
<1>3. Content(p, q, KindOf(flow, L)) \in PartBags
  BY <1>1, <1>2, PartTypes DEF Content, LegacyTyped
<1>4. m \in Messages
  BY <1>2, <1>3 DEF Messages
<1>5. ContentRight(p, q, m)
  BY PartialIsDue DEF ContentRight, Content, CountInv
<1>. QED
  BY <1>4, <1>5

\* A message that counts is added once.
LEMMA HeldCollected ==
  ASSUME LegacyTyped, flow' = flow, size' = size, NEW p \in Members, CountInv(p), HeldInv(p),
         NEW L \in Collecting(flow), loop[p] = L,
         NEW s \in Others(p), NEW h \in Sending(flow), s \notin Got(p, h),
         \A l \in Sending(flow) : l < h => s \in Got(p, l),
         Got(p, h)' = Got(p, h) \cup {s}, \A l : l # h => Got(p, l)' = Got(p, l),
         NEW m \in Messages, m.kind = KindOf(flow, h), ContentRight(s, p, m),
         held' = [held EXCEPT ![p] = @ (+) m.parts]
  PROVE  HeldInv(p)' /\ (TakesTurns(p)' => TakesTurns(p))
<1>1. /\ p \in Parties /\ flow \in FlowNames /\ held[p] \in PartBags /\ m.parts \in PartBags
      /\ held'[p] = held[p] (+) m.parts
  BY SizeAndFlow DEF LegacyTyped, Messages
<1>2. ASSUME ~Spoilt(p)'
      PROVE  ~Spoilt(p)
  BY <1>1, <1>2, BagsAdded DEF Spoilt
<1>3. TakesTurns(p)' => TakesTurns(p)
  BY <1>2 DEF TakesTurns, TwoInTurn
<1>4. Members' = Members /\ Others(p)' = Others(p)
  BY DEF Members, Others
<1>5. s # p /\ s \in Members
  BY DEF Others
<1>6. ASSUME TwoInTurn \/ flow = "Distribution"
      PROVE  held'[p] = SetToBag(Sums(p)')
  <2>1. TakesTurns(p) /\ TurnFacts(flow) /\ flow # "PlainSum" /\ held[p] = SetToBag(Sums(p))
    BY <1>6, TurnFlows DEF TakesTurns, TwoInTurn, HeldInv
  <2>2. h = L - 1
    BY <2>1, HeadInTurn DEF CountInv
  <2>3. KindOf(flow, 1) = "Share" /\ 1 \in Sending(flow) /\ L \in Nat
    BY <1>1, <2>1, FlowIsLoops DEF TurnFacts, Collecting
  <2>4. CASE L = 2
    <3>1. h = 1 /\ m.parts = SetToBag({<<s, p>>})
      BY <2>2, <2>3, <2>4 DEF ContentRight, Part
    <3>2. PartialsOf(p)' = PartialsOf(p)
      BY <1>4, <2>3, <3>1 DEF PartialsOf
    <3>3. Sums(p)' = Sums(p) \cup {<<s, p>>}
      BY <1>4, <3>1, <3>2 DEF Sums
    <3>4. <<s, p>> \notin Sums(p)
      BY <1>5, <3>1 DEF Sums, PartialsOf, Others
    <3>5. Sums(p) \cap {<<s, p>>} = {}
      BY <3>4
    <3>. QED
      BY <1>1, <2>1, <3>1, <3>3, <3>5, BagsOfSetsAdded
  <2>5. CASE L # 2
    <3>1. KindOf(flow, h) = "Partial" /\ flow \in {"SecretSum", "SyncedSum"}
      BY <2>1, <2>2, <2>5 DEF TurnFacts
    <3>2. TwoInTurn
      BY <1>6, <3>1
    <3>3. m.parts = SetToBag(Members \X {s})
      <4>1. Members \X {s} = {<<q, s>> : q \in Members}
        OBVIOUS
      <4>. QED
        BY <3>1, <3>2, <4>1 DEF ContentRight, OneShareOfEach
    <3>4. \A l \in Sending(flow) : KindOf(flow, l) = "Partial" <=> l = h
      BY <1>1, <3>1, AllFlowFacts DEF FlowFacts
    <3>5. h # 1
      BY <2>3, <3>1
    <3>6. PartialsOf(p) = Got(p, h)
      BY <3>4 DEF PartialsOf, Got
    <3>7. PartialsOf(p)' = PartialsOf(p) \cup {s}
      BY <1>4, <3>4, <3>6 DEF PartialsOf
    <3>8. Sums(p)' = Sums(p) \cup (Members \X {s})
      BY <1>4, <3>5, <3>7 DEF Sums
    <3>9. Sums(p) \cap (Members \X {s}) = {}
      BY <1>5, <3>6 DEF Sums
    <3>. QED
      BY <1>1, <2>1, <3>3, <3>8, <3>9, BagsOfSetsAdded
  <2>. QED
    BY <2>4, <2>5
<1>7. ASSUME flow = "PlainSum", ~Spoilt(p)'
      PROVE  held'[p] = SetToBag(Values(p)')
  <2>1. h = 1 /\ KindOf(flow, h) = "Value"
    BY <1>7, PlainSumLoops
  <2>2. m.parts = SetToBag({s} \X Members)
    <3>1. {s} \X Members = {<<s, q>> : q \in Members}
      OBVIOUS
    <3>. QED
      BY <2>1, <3>1 DEF ContentRight, Value
  <2>3. held[p] = SetToBag(Values(p))
    BY <1>2, <1>7 DEF HeldInv
  <2>4. Values(p)' = Values(p) \cup ({s} \X Members)
    BY <1>4, <2>1 DEF Values
  <2>5. Values(p) \cap ({s} \X Members) = {}
    BY <1>5, <2>1 DEF Values
  <2>. QED
    BY <1>1, <2>2, <2>3, <2>4, <2>5, BagsOfSetsAdded
<1>. QED
  BY <1>3, <1>6, <1>7 DEF HeldInv, TwoInTurn

\* One that a synchronisation counts, or drops, is not added.
LEMMA HeldSynced ==
  ASSUME LegacyTyped, flow' = flow, size' = size, NEW p \in Members, CountInv(p), HeldInv(p),
         NEW L \in Syncing(flow), loop[p] = L,
         NEW s \in Others(p), NEW h \in Sending(flow), s \notin Got(p, h),
         \A l \in Sending(flow) : l < h => s \in Got(p, l),
         Got(p, h)' = Got(p, h) \cup {s}, \A l : l # h => Got(p, l)' = Got(p, l),
         held' = held
  PROVE  HeldInv(p)' /\ (TakesTurns(p)' => TakesTurns(p))
<1>1. TakesTurns(p)' => TakesTurns(p)
  BY DEF TakesTurns, TwoInTurn, Spoilt
<1>2. Members' = Members /\ Others(p)' = Others(p)
  BY DEF Members, Others
<1>3. ASSUME TwoInTurn \/ flow = "Distribution"
      PROVE  held'[p] = SetToBag(Sums(p)')
  <2>1. TakesTurns(p) /\ TurnFacts(flow) /\ flow # "PlainSum"
    BY <1>3, TurnFlows DEF TakesTurns, TwoInTurn
  <2>2. h = L - 1
    BY <2>1, HeadInTurn DEF CountInv
  <2>3. KindOf(flow, h) \notin {"Share", "Partial"} /\ KindOf(flow, 1) = "Share"
    BY <2>1, <2>2 DEF TurnFacts
  <2>4. Sums(p)' = Sums(p)
    BY <1>2, <2>3 DEF Sums, PartialsOf
  <2>. QED
    BY <1>3, <2>4 DEF HeldInv
<1>4. flow # "PlainSum"
  BY PlainSumLoops
<1>. QED
  BY <1>1, <1>3, <1>4 DEF HeldInv, TwoInTurn

-----------------------------------------------------------------------------
(* The invariant.                                                          *)

LegacyInv ==
  /\ LegacyTyped /\ ConnectionsInv
  /\ \A p \in Members : CountInv(p) /\ HeldInv(p)
  /\ \A p \in Members : \A q \in Others(p) : ContentInv(q, p)

LEMMA InitLegacyInv == Init => LegacyInv
<1>. SUFFICES ASSUME Init PROVE LegacyInv
  OBVIOUS
<1>1. size \in Sizes /\ flow \in Flows /\ N \in Nat
  BY NAssumption DEF Init
<1>2. /\ size \in 2 .. N /\ flow \in FlowNames /\ Members = 1 .. size /\ Members \subseteq Parties
      /\ Parties \subseteq Nodes
  BY <1>1, LegacyAssumption DEF Members, Parties, Nodes
<1>3. Len(Calls(flow)) \in 2 .. 8
  BY <1>2, FlowIsLoops
<1>4. /\ toRouter = [s \in Nodes |-> [p \in Parties |-> <<>>]]
      /\ \A s \in Nodes, p \in Parties : toRouter[s][p] = <<>> /\ Len(toRouter[s][p]) = 0
  BY DEF Init, TransportInit
<1>5. /\ \A p \in Parties : loop[p] = 1 /\ i[p] = 1
      /\ loop \in [Parties -> 0 .. Len(Calls(flow)) + 1] /\ i \in [Parties -> 1 .. size - 1]
  BY <1>2, <1>3 DEF Init
<1>6. ASSUME NEW p \in Parties
      PROVE  /\ Part(p, p) = SetToBag({<<p, p>>}) /\ Part(p, p) \in PartBags
             /\ Value(p) = SetToBag({p} \X Members) /\ Value(p) \in PartBags
  <2>1. {<<p, q>> : q \in Members} = {p} \X Members
    OBVIOUS
  <2>2. {<<p, p>>} \in SUBSET (Parties \X (0 .. N)) /\ {p} \X Members \in SUBSET (Parties \X (0 .. N))
    BY <1>1, <1>2 DEF Parties
  <2>. QED
    BY <2>1, <2>2, BagOfSet DEF Part, Value
<1>7. /\ held \in [Parties -> PartBags]
      /\ \A p \in Parties : held[p] = IF flow = "PlainSum" THEN Value(p) ELSE Part(p, p)
  BY <1>6 DEF Init
<1>8. LegacyTyped
  <2>1. <<>> \in Seq(Messages)
    BY EmptySeq
  <2>2. toRouter \in [Nodes -> [Parties -> Seq(Messages)]]
    BY <1>4, <2>1
  <2>. QED
    BY <1>1, <1>5, <1>7, <2>2 DEF LegacyTyped, Threw
<1>9. \A l \in Sending(flow) \cup Syncing(flow) : l \in Nat \ {0} /\ l + 1 \in Nat \ {0}
  BY <1>2, FlowIsLoops DEF Sending, Syncing
<1>10. ASSUME NEW p \in Parties, NEW l \in Nat \ {0}
       PROVE  Iterations(p, l) = 0
  BY <1>5 DEF Iterations, Place, Threw
<1>11. ASSUME NEW q \in Parties, NEW p
       PROVE  SentLoops(q, p) = {}
  BY <1>9, <1>10 DEF SentLoops
<1>12. ASSUME NEW p \in Members, NEW l
       PROVE  Got(p, l) = {}
  BY <1>2, <1>11 DEF Got, Others, GoneLoops, GoneOf
<1>13. ConnectionsInv
  <2>1. ASSUME NEW p \in Members, NEW q \in Others(p)
        PROVE  Connected(q, p)
    <3>1. SentLoops(q, p) = {} /\ Len(toRouter[q][p]) = 0
      BY <1>2, <1>4, <1>11 DEF Others
    <3>. QED
      BY <3>1 DEF Connected, Ordered
  <2>2. \A p \in Members : toRouter[p][p] = <<>>
    BY <1>2, <1>4
  <2>. QED
    BY <2>1, <2>2 DEF ConnectionsInv
<1>14. ASSUME NEW p \in Members
       PROVE  CountInv(p)
  <2>1. \A l : Cardinality(Got(p, l)) = 0
    BY <1>12, FS_EmptySet
  <2>2. p \in Parties /\ \A l \in Nat \ {0} : Iterations(p, l) = 0
    BY <1>2, <1>10
  <2>3. SyncCount(p) /\ TurnCount(p)
    BY <1>9, <2>1, <2>2 DEF SyncCount, TurnCount
  <2>4. SumCount(p)
    BY <2>1, <2>2 DEF SumCount
  <2>. QED
    BY <2>3, <2>4 DEF CountInv
<1>15. ASSUME NEW p \in Members
       PROVE  HeldInv(p)
  <2>1. Got(p, 1) = {} /\ PartialsOf(p) = {}
    BY <1>12 DEF PartialsOf
  <2>2. Sums(p) = {<<p, p>>} /\ Values(p) = {p} \X Members
    BY <2>1 DEF Sums, Values
  <2>3. flow # "PlainSum" => held[p] = SetToBag(Sums(p))
    BY <1>2, <1>6, <1>7, <2>2
  <2>4. flow = "PlainSum" => held[p] = SetToBag(Values(p))
    BY <1>2, <1>6, <1>7, <2>2
  <2>. QED
    BY <2>3, <2>4 DEF HeldInv, TwoInTurn
<1>16. \A p \in Members : \A q \in Others(p) : ContentInv(q, p)
  BY <1>2, <1>4 DEF ContentInv, Others
<1>. QED
  BY <1>8, <1>13, <1>14, <1>15, <1>16 DEF LegacyInv

\* Where a party is.
LEMMA WhereAt ==
  ASSUME LegacyTyped, NEW p \in Members
  PROVE  /\ At(p, "send") => loop[p] \in Sending(flow)
         /\ At(p, "collect") => loop[p] \in Collecting(flow)
         /\ At(p, "sync") => loop[p] \in Syncing(flow)
         /\ This(p).kind = KindOf(flow, loop[p])
BY DEF At, This, Sending, Collecting, Syncing, KindOf

\* The parts of the invariant that an iteration keeps.
LEMMA TypedNext ==
  ASSUME LegacyTyped, size' = size, flow' = flow, NEW p \in Members,
         NEW L \in DOMAIN Calls(flow), loop[p] = L,
         NextIteration(p) \/ UNCHANGED <<loop, i>>,
         held' \in [Parties -> PartBags],
         toRouter' \in [Nodes -> [Parties -> Seq(Messages)]]
  PROVE  LegacyTyped'
<1>1. p \in Parties
  BY SizeAndFlow
<1>2. /\ loop' \in [Parties -> 0 .. Len(Calls(flow)) + 1] /\ i' \in [Parties -> 1 .. size - 1]
      /\ \A q \in Parties : Threw(q)' = Threw(q)
  BY <1>1, IterationsNext DEF LegacyTyped, Threw
<1>. QED
  BY <1>2 DEF LegacyTyped

LEMMA SendInv ==
  ASSUME LegacyInv, NEW p \in Members, Send(p)
  PROVE  LegacyInv'
<1>1. PICK L \in Sending(flow) : loop[p] = L
  BY WhereAt DEF LegacyInv, Send
<1>2. PICK q : q = Peer(p, i[p])
  OBVIOUS
<1>3. PICK m : m = [kind |-> KindOf(flow, L), parts |-> Content(p, q, KindOf(flow, L))]
  OBVIOUS
<1>4. /\ LegacyTyped /\ ConnectionsInv /\ CountInv(p) /\ HeldInv(p) /\ size' = size /\ flow' = flow
      /\ held' = held /\ NextIteration(p) /\ toRouter' = SendTo(p, q, m)
  BY <1>1, <1>2, <1>3, WhereAt DEF LegacyInv, Send
<1>5. p \in Parties /\ i[p] \in 1 .. size - 1
  BY <1>4, SizeAndFlow DEF LegacyTyped
<1>6. q \in Others(p) /\ q \in Members
  BY <1>2, <1>4, <1>5, Peers DEF Others
<1>7. m \in Messages /\ m.kind = KindOf(flow, L) /\ ContentRight(p, q, m)
  BY <1>1, <1>3, <1>4, <1>6, ContentSent
<1>8. /\ toRouter' \in [Nodes -> [Parties -> Seq(Messages)]]
      /\ toRouter'[p][q] = Append(toRouter[p][q], m)
      /\ \A a \in Nodes, b \in Parties :
           a # p \/ b # q => toRouter'[a][b] = toRouter[a][b]
      /\ ConnectionsInv'
      /\ \A b \in Members : \A l : Got(b, l)' = Got(b, l)
  BY <1>1, <1>2, <1>4, <1>7, SendStep
<1>9. L \in DOMAIN Calls(flow)
  BY DEF Sending
<1>10. LegacyTyped'
  BY <1>1, <1>4, <1>8, <1>9, TypedNext DEF LegacyTyped
<1>11. Members' = Members /\ \A b : Others(b)' = Others(b)
  BY <1>4 DEF Members, Others
<1>12. Members \subseteq Parties /\ Parties \subseteq Nodes
  BY <1>4, SizeAndFlow
<1>13. ASSUME NEW b \in Members
       PROVE  CountInv(b)' /\ HeldInv(b)'
  <2>1. HeldInv(b)' /\ (TakesTurns(b)' => TakesTurns(b))
    BY <1>4, <1>8, HeldSame DEF LegacyInv
  <2>2. \A l \in Nat \ Sending(flow) : Iterations(b, l)' = Iterations(b, l)
    BY <1>1, <1>4, <1>5, <1>9, <1>12, IterationsNext
  <2>3. CountInv(b)'
    BY <1>4, <1>8, <2>1, <2>2, CountSame DEF LegacyInv
  <2>. QED
    BY <2>1, <2>3
<1>14. ASSUME NEW b \in Members, NEW a \in Others(b)
       PROVE  ContentInv(a, b)'
  <2>1. a \in Members /\ ContentInv(a, b)
    BY DEF LegacyInv, Others
  <2>2. CASE a # p \/ b # q
    BY <1>4, <1>8, <1>12, <2>1, <2>2, ContentSame
  <2>3. CASE a = p /\ b = q
    <3>1. toRouter[p][q] \in Seq(Messages)
      BY <1>4, <1>6, <1>12 DEF LegacyTyped
    <3>2. /\ Len(toRouter[p][q]) \in Nat
          /\ Len(Append(toRouter[p][q], m)) = Len(toRouter[p][q]) + 1
          /\ \A k \in 1 .. Len(toRouter[p][q]) : Append(toRouter[p][q], m)[k] = toRouter[p][q][k]
          /\ Append(toRouter[p][q], m)[Len(toRouter[p][q]) + 1] = m
      BY <1>7, <3>1, AppendProperties, LenProperties
    <3>3. \A k \in 1 .. Len(toRouter'[p][q]) : ContentRight(p, q, toRouter'[p][q][k])
      <4>. SUFFICES ASSUME NEW k \in 1 .. Len(toRouter[p][q]) + 1
                    PROVE  ContentRight(p, q, Append(toRouter[p][q], m)[k])
        BY <1>8, <3>2
      <4>1. CASE k = Len(toRouter[p][q]) + 1
        BY <1>7, <3>2, <4>1
      <4>2. CASE k # Len(toRouter[p][q]) + 1
        <5>1. k \in 1 .. Len(toRouter[p][q])
          BY <3>2, <4>2
        <5>. QED
          BY <2>1, <2>3, <3>2, <5>1 DEF ContentInv
      <4>. QED
        BY <4>1, <4>2
    <3>4. \A x : ContentRight(p, q, x) => ContentRight(p, q, x)'
      BY <1>4 DEF ContentRight, Value, Part, OneShareOfEach, Members, TwoInTurn
    <3>. QED
      BY <2>3, <3>3, <3>4 DEF ContentInv
  <2>. QED
    BY <2>2, <2>3
<1>. QED
  BY <1>8, <1>10, <1>11, <1>13, <1>14 DEF LegacyInv

LEMMA ContentTaken ==
  ASSUME LegacyInv, size' = size, flow' = flow, NEW p \in Members, NEW s \in Others(p),
         toRouter[s][p] # <<>>, toRouter'[s][p] = Tail(toRouter[s][p]),
         \A a \in Nodes, b \in Parties :
           a # s \/ b # p => toRouter'[a][b] = toRouter[a][b]
  PROVE  /\ ContentRight(s, p, Received(p, s))
         /\ \A b \in Members : \A a \in Others(b) : ContentInv(a, b)'
<1>1. LegacyTyped /\ Members \subseteq Parties /\ Parties \subseteq Nodes /\ s \in Members
  BY SizeAndFlow DEF LegacyInv, Others
<1>2. toRouter[s][p] \in Seq(Messages) /\ ContentInv(s, p)
  BY <1>1 DEF LegacyTyped, LegacyInv
<1>3. /\ Len(toRouter[s][p]) \in Nat \ {0} /\ Received(p, s) = toRouter[s][p][1]
      /\ Len(Tail(toRouter[s][p])) = Len(toRouter[s][p]) - 1
      /\ \A k \in 1 .. Len(Tail(toRouter[s][p])) : Tail(toRouter[s][p])[k] = toRouter[s][p][k + 1]
  BY <1>2, EmptySeq, HeadTailProperties DEF Received
<1>4. ContentRight(s, p, Received(p, s))
  BY <1>2, <1>3 DEF ContentInv
<1>5. ASSUME NEW b \in Members, NEW a \in Others(b)
      PROVE  ContentInv(a, b)'
  <2>1. a \in Members /\ ContentInv(a, b)
    BY DEF LegacyInv, Others
  <2>2. CASE a # s \/ b # p
    BY <1>1, <2>1, <2>2, ContentSame
  <2>3. CASE a = s /\ b = p
    <3>1. ASSUME NEW k \in 1 .. Len(toRouter'[s][p])
          PROVE  ContentRight(s, p, toRouter'[s][p][k])
      <4>1. k + 1 \in 1 .. Len(toRouter[s][p]) /\ toRouter'[s][p][k] = toRouter[s][p][k + 1]
        BY <1>3
      <4>. QED
        BY <1>2, <4>1 DEF ContentInv
    <3>2. \A x : ContentRight(s, p, x) => ContentRight(s, p, x)'
      BY DEF ContentRight, Value, Part, OneShareOfEach, Members, TwoInTurn
    <3>. QED
      BY <2>3, <3>1, <3>2 DEF ContentInv
  <2>. QED
    BY <2>2, <2>3
<1>. QED
  BY <1>4, <1>5

LEMMA CollectInv ==
  ASSUME LegacyInv, NEW p \in Members, NEW s \in Members, ReceiveAdded(p, s)
  PROVE  LegacyInv'
<1>1. PICK L \in Collecting(flow) : loop[p] = L
  BY WhereAt DEF LegacyInv, ReceiveAdded
<1>2. /\ LegacyTyped /\ ConnectionsInv /\ CountInv(p) /\ HeldInv(p) /\ size' = size /\ flow' = flow
      /\ Arrived(p, s) /\ toRouter' = Taken(p, s) /\ NextIteration(p)
      /\ held' = [held EXCEPT ![p] = @ (+) Received(p, s).parts]
  BY DEF LegacyInv, ReceiveAdded, Receive
<1>3. /\ p \in Parties /\ Members \subseteq Parties /\ Parties \subseteq Nodes
      /\ L \in DOMAIN Calls(flow) \ Sending(flow)
  BY <1>2, SizeAndFlow DEF Collecting, Sending
<1>4. \A a \in Parties : \A b : SentLoops(a, b)' = SentLoops(a, b)
  BY <1>1, <1>2, <1>3, SentSame
<1>5. /\ s \in Others(p)
      /\ toRouter' \in [Nodes -> [Parties -> Seq(Messages)]]
      /\ toRouter'[s][p] = Tail(toRouter[s][p])
      /\ \A a \in Nodes, b \in Parties :
           a # s \/ b # p => toRouter'[a][b] = toRouter[a][b]
      /\ ConnectionsInv'
      /\ Received(p, s) \in Messages
  BY <1>2, <1>4, ReceiveStep
<1>6. PICK h \in Sending(flow) :
        /\ Received(p, s).kind = KindOf(flow, h)
        /\ s \notin Got(p, h) /\ Got(p, h)' = Got(p, h) \cup {s}
        /\ \A l \in Sending(flow) : l < h => s \in Got(p, l)
        /\ \A l : l # h => Got(p, l)' = Got(p, l)
        /\ \A b \in Members \ {p} : \A l : Got(b, l)' = Got(b, l)
  BY <1>2, <1>4, ReceiveStep
<1>7. /\ ContentRight(s, p, Received(p, s))
      /\ \A b \in Members : \A a \in Others(b) : ContentInv(a, b)'
  BY <1>2, <1>5, ContentTaken DEF Arrived
<1>8. held' \in [Parties -> PartBags]
  <2>1. held[p] \in PartBags /\ Received(p, s).parts \in PartBags
    BY <1>2, <1>3, <1>5 DEF LegacyTyped, Messages
  <2>2. held[p] (+) Received(p, s).parts \in PartBags
    BY <2>1, BagsAdded
  <2>. QED
    BY <1>2, <2>2 DEF LegacyTyped
<1>9. LegacyTyped'
  BY <1>1, <1>2, <1>3, <1>5, <1>8, TypedNext
<1>10. HeldInv(p)' /\ (TakesTurns(p)' => TakesTurns(p))
  <2>1. PICK m \in Messages : m = Received(p, s)
    BY <1>5
  <2>. QED
    BY <1>1, <1>2, <1>5, <1>6, <1>7, <2>1, HeldCollected
<1>11. CountInv(p)'
  <2>1. L \notin Syncing(flow)
    BY DEF Syncing, Collecting
  <2>. QED
    BY <1>1, <1>2, <1>5, <1>6, <1>10, <2>1, CountReceive
<1>12. ASSUME NEW b \in Members \ {p}
       PROVE  CountInv(b)' /\ HeldInv(b)'
  <2>1. held'[b] = held[b] /\ CountInv(b) /\ HeldInv(b)
    BY <1>2, <1>3 DEF LegacyInv, LegacyTyped
  <2>2. HeldInv(b)' /\ (TakesTurns(b)' => TakesTurns(b))
    BY <1>2, <1>6, <2>1, HeldSame
  <2>3. \A l \in Nat \ Sending(flow) : Iterations(b, l)' = Iterations(b, l)
    BY <1>1, <1>2, <1>3, IterationsNext
  <2>. QED
    BY <1>2, <1>6, <2>1, <2>2, <2>3, CountSame
<1>13. Members' = Members /\ \A b : Others(b)' = Others(b)
  BY <1>2 DEF Members, Others
<1>. QED
  BY <1>5, <1>7, <1>9, <1>10, <1>11, <1>12, <1>13 DEF LegacyInv

LEMMA SyncInv ==
  ASSUME LegacyInv, NEW p \in Members, NEW s \in Members, ReceiveDone(p, s)
  PROVE  LegacyInv'
<1>1. PICK L \in Syncing(flow) : loop[p] = L
  BY WhereAt DEF LegacyInv, ReceiveDone
<1>2. /\ LegacyTyped /\ ConnectionsInv /\ CountInv(p) /\ HeldInv(p) /\ size' = size /\ flow' = flow
      /\ Arrived(p, s) /\ toRouter' = Taken(p, s) /\ held' = held
  BY DEF LegacyInv, ReceiveDone, Receive
<1>3. \/ NextIteration(p) /\ Received(p, s).kind = KindOf(flow, L)
      \/ UNCHANGED <<loop, i>> /\ Received(p, s).kind # KindOf(flow, L)
  BY <1>1, <1>2, WhereAt DEF ReceiveDone
<1>4. /\ p \in Parties /\ Members \subseteq Parties /\ Parties \subseteq Nodes
      /\ L \in DOMAIN Calls(flow) \ Sending(flow) /\ flow \in FlowNames
  BY <1>2, SizeAndFlow DEF Syncing, Sending
<1>5. \A q \in Parties : \A l \in Nat \ Sending(flow) :
        q # p => Iterations(q, l)' = Iterations(q, l)
  <2>1. CASE NextIteration(p)
    BY <1>1, <1>2, <1>4, <2>1, IterationsNext
  <2>2. CASE UNCHANGED <<loop, i>>
    BY <1>2, <2>2 DEF Iterations, Place, Threw
  <2>. QED
    BY <1>3, <2>1, <2>2
<1>6. \A a \in Parties : \A b : SentLoops(a, b)' = SentLoops(a, b)
  <2>1. CASE NextIteration(p)
    BY <1>1, <1>2, <1>4, <2>1, SentSame
  <2>2. CASE UNCHANGED <<loop, i>>
    BY <1>2, <2>2 DEF SentLoops, Iterations, Place, Threw
  <2>. QED
    BY <1>3, <2>1, <2>2
<1>7. /\ s \in Others(p)
      /\ toRouter' \in [Nodes -> [Parties -> Seq(Messages)]]
      /\ toRouter'[s][p] = Tail(toRouter[s][p])
      /\ \A a \in Nodes, b \in Parties :
           a # s \/ b # p => toRouter'[a][b] = toRouter[a][b]
      /\ ConnectionsInv'
  BY <1>2, <1>6, ReceiveStep
<1>8. PICK h \in Sending(flow) :
        /\ Received(p, s).kind = KindOf(flow, h)
        /\ s \notin Got(p, h) /\ Got(p, h)' = Got(p, h) \cup {s}
        /\ \A l \in Sending(flow) : l < h => s \in Got(p, l)
        /\ \A l : l # h => Got(p, l)' = Got(p, l)
        /\ \A b \in Members \ {p} : \A l : Got(b, l)' = Got(b, l)
  BY <1>2, <1>6, ReceiveStep
<1>9. \A b \in Members : \A a \in Others(b) : ContentInv(a, b)'
  BY <1>2, <1>7, ContentTaken DEF Arrived
<1>10. LegacyTyped'
  BY <1>1, <1>2, <1>3, <1>4, <1>7, TypedNext DEF LegacyTyped
<1>11. HeldInv(p)' /\ (TakesTurns(p)' => TakesTurns(p))
  BY <1>1, <1>2, <1>7, <1>8, HeldSynced
<1>12. KindOf(flow, h) = KindOf(flow, L) <=> h = L - 1
  BY <1>4, AllFlowFacts DEF FlowFacts
<1>13. CountInv(p)'
  BY <1>1, <1>2, <1>3, <1>7, <1>8, <1>11, <1>12, CountReceive
<1>14. ASSUME NEW b \in Members \ {p}
       PROVE  CountInv(b)' /\ HeldInv(b)'
  <2>1. held'[b] = held[b] /\ CountInv(b) /\ HeldInv(b)
    BY <1>2 DEF LegacyInv
  <2>2. HeldInv(b)' /\ (TakesTurns(b)' => TakesTurns(b))
    BY <1>2, <1>8, <2>1, HeldSame
  <2>. QED
    BY <1>2, <1>4, <1>5, <1>8, <2>1, <2>2, CountSame
<1>15. Members' = Members /\ \A b : Others(b)' = Others(b)
  BY <1>2 DEF Members, Others
<1>. QED
  BY <1>7, <1>9, <1>10, <1>11, <1>13, <1>14, <1>15 DEF LegacyInv

\* A timeout changes no connection.
LEMMA TimeoutInv ==
  ASSUME LegacyInv, NEW p \in Members, TimeoutCounted(p)
  PROVE  LegacyInv'
<1>1. PICK L \in Collecting(flow) : loop[p] = L
  BY WhereAt DEF LegacyInv, TimeoutCounted
<1>2. /\ LegacyTyped /\ ConnectionsInv /\ CountInv(p) /\ size' = size /\ flow' = flow
      /\ toRouter' = toRouter /\ NextIteration(p)
      /\ held' = [held EXCEPT ![p] = @ (+) Junk(p)]
  BY DEF LegacyInv, TimeoutCounted, transport
<1>3. /\ p \in Parties /\ Members \subseteq Parties /\ flow \in FlowNames
      /\ L \in DOMAIN Calls(flow) \ Sending(flow)
  BY <1>2, SizeAndFlow DEF Collecting, Sending
<1>4. flow = "PlainSum"
  <2>1. L \in Counting(flow)
    BY <1>1 DEF Counting, TimeoutCounted, This
  <2>. QED
    BY <1>3, <2>1, SecretSumLoops, DistributionLoops, PartialSumsLoops, SyncedSumLoops,
       SyncedSharesLoops DEF FlowNames
<1>5. \A a \in Parties : \A b : SentLoops(a, b)' = SentLoops(a, b)
  BY <1>1, <1>2, <1>3, SentSame
<1>6. ASSUME NEW a \in Members, NEW b
      PROVE  GoneLoops(a, b)' = GoneLoops(a, b) /\ Connected(a, b)' = Connected(a, b)
  BY <1>2, <1>3, <1>5, SameGone
<1>7. Members' = Members /\ \A b : Others(b)' = Others(b)
  BY <1>2 DEF Members, Others
<1>8. ConnectionsInv'
  BY <1>2, <1>6, <1>7 DEF ConnectionsInv, Others
<1>9. \A b \in Members : \A l : Got(b, l)' = Got(b, l)
  BY <1>2, <1>6, SameGot DEF Others
<1>10. held[p] \in PartBags /\ Junk(p) \in PartBags /\ held[p] (+) Junk(p) \in PartBags
  BY <1>2, <1>3, PartTypes, BagsAdded DEF LegacyTyped
<1>11. LegacyTyped'
  <2>1. held' \in [Parties -> PartBags]
    BY <1>2, <1>10 DEF LegacyTyped
  <2>. QED
    BY <1>1, <1>2, <1>3, <2>1, TypedNext DEF LegacyTyped
<1>12. Spoilt(p)'
  <2>1. BagIn(<<p, 0>>, Junk(p))
    BY BagHolds DEF Junk, Part
  <2>2. held'[p] = held[p] (+) Junk(p)
    BY <1>2, <1>3 DEF LegacyTyped
  <2>. QED
    BY <1>10, <2>1, <2>2, BagsAdded DEF Spoilt
<1>13. CountInv(p)' /\ HeldInv(p)'
  <2>1. ~TakesTurns(p)' /\ ~TwoInTurn'
    BY <1>2, <1>4, <1>12 DEF TakesTurns, TwoInTurn
  <2>2. Syncing(flow') = {}
    BY <1>2, <1>4, PlainSumLoops
  <2>. QED
    BY <1>2, <1>4, <1>12, <2>1, <2>2 DEF CountInv, SyncCount, SumCount, TurnCount, HeldInv
<1>14. ASSUME NEW b \in Members \ {p}
       PROVE  CountInv(b)' /\ HeldInv(b)'
  <2>1. held'[b] = held[b] /\ CountInv(b) /\ HeldInv(b)
    BY <1>2, <1>3 DEF LegacyInv, LegacyTyped
  <2>2. HeldInv(b)' /\ (TakesTurns(b)' => TakesTurns(b))
    BY <1>2, <1>9, <2>1, HeldSame
  <2>3. \A l \in Nat \ Sending(flow) : Iterations(b, l)' = Iterations(b, l)
    BY <1>1, <1>2, <1>3, IterationsNext
  <2>. QED
    BY <1>2, <1>9, <2>1, <2>2, <2>3, CountSame
<1>15. \A b \in Members : \A a \in Others(b) : ContentInv(a, b)'
  BY <1>2, ContentSame DEF LegacyInv
<1>. QED
  BY <1>7, <1>8, <1>11, <1>13, <1>14, <1>15 DEF LegacyInv

\* Nor does the exception, nor a stutter.
LEMMA QuietInv ==
  ASSUME LegacyInv, size' = size, flow' = flow, toRouter' = toRouter, held' = held, LegacyTyped',
         \A q \in Parties : \A l \in Nat : Iterations(q, l)' = Iterations(q, l)
  PROVE  LegacyInv'
<1>1. LegacyTyped /\ ConnectionsInv /\ Members \subseteq Parties /\ flow \in FlowNames
  BY SizeAndFlow DEF LegacyInv
<1>2. \A a \in Parties : \A b : SentLoops(a, b)' = SentLoops(a, b)
  BY <1>1, FlowIsLoops DEF SentLoops, Sending
<1>3. ASSUME NEW a \in Members, NEW b
      PROVE  GoneLoops(a, b)' = GoneLoops(a, b) /\ Connected(a, b)' = Connected(a, b)
  BY <1>1, <1>2, SameGone
<1>4. Members' = Members /\ \A b : Others(b)' = Others(b)
  BY DEF Members, Others
<1>5. ConnectionsInv'
  BY <1>1, <1>3, <1>4 DEF ConnectionsInv, Others
<1>6. \A b \in Members : \A l : Got(b, l)' = Got(b, l)
  BY <1>3, SameGot DEF Others
<1>7. ASSUME NEW b \in Members
      PROVE  CountInv(b)' /\ HeldInv(b)'
  <2>1. CountInv(b) /\ HeldInv(b)
    BY DEF LegacyInv
  <2>2. HeldInv(b)' /\ (TakesTurns(b)' => TakesTurns(b))
    BY <1>6, <2>1, HeldSame
  <2>3. \A l \in Nat \ Sending(flow) : Iterations(b, l)' = Iterations(b, l)
    BY <1>1
  <2>. QED
    BY <1>1, <1>6, <2>1, <2>2, <2>3, CountSame
<1>8. \A b \in Members : \A a \in Others(b) : ContentInv(a, b)'
  BY ContentSame DEF LegacyInv
<1>. QED
  BY <1>4, <1>5, <1>7, <1>8 DEF LegacyInv

LEMMA ThrowInv ==
  ASSUME LegacyInv, NEW p \in Members, TimeoutThrows(p)
  PROVE  LegacyInv'
<1>1. PICK L \in Throwing(flow) : loop[p] = L
  BY WhereAt DEF LegacyInv, TimeoutThrows, Throwing, This
<1>2. /\ LegacyTyped /\ size' = size /\ flow' = flow
      /\ toRouter' = toRouter /\ held' = held /\ i' = i /\ loop' = [loop EXCEPT ![p] = 0]
  BY DEF LegacyInv, TimeoutThrows, transport
<1>3. p \in Parties /\ flow \in FlowNames
  BY <1>2, SizeAndFlow
<1>4. \A q \in Parties : \A l \in Nat : Iterations(q, l)' = Iterations(q, l)
  BY <1>1, <1>2, <1>3, IterationsThrow
<1>5. LegacyTyped'
  <2>. DEFINE S == 0 .. Len(Calls(flow)) + 1
  <2>1. loop \in [Parties -> S] /\ 0 \in S
    BY <1>2, <1>3, FlowIsLoops DEF LegacyTyped
  <2>. HIDE DEF S
  <2>2. loop' \in [Parties -> S]
    BY <1>2, <2>1
  <2>3. Throwing(flow') # {}
    BY <1>1, <1>2
  <2>. QED
    BY <1>2, <2>2, <2>3 DEF LegacyTyped, S
<1>. QED
  BY <1>2, <1>4, <1>5, QuietInv

LEMMA NextLegacyInv == LegacyInv /\ [Next]_vars => LegacyInv'
<1>. SUFFICES ASSUME LegacyInv, [Next]_vars PROVE LegacyInv'
  OBVIOUS
<1>1. CASE Next
  <2>1. PICK p \in Members : Step(p)
    BY <1>1 DEF Next
  <2>2. CASE Send(p)
    BY <2>2, SendInv
  <2>3. CASE \E s \in Members : ReceiveAdded(p, s) \/ ReceiveDone(p, s)
    BY <2>3, CollectInv, SyncInv
  <2>4. CASE TimeoutCounted(p)
    BY <2>4, TimeoutInv
  <2>5. CASE TimeoutThrows(p)
    BY <2>5, ThrowInv
  <2>. QED
    BY <2>1, <2>2, <2>3, <2>4, <2>5 DEF Step
<1>2. CASE UNCHANGED vars
  <2>1. /\ size' = size /\ flow' = flow /\ toRouter' = toRouter /\ held' = held /\ i' = i
        /\ loop' = loop
    BY <1>2 DEF vars, transport
  <2>2. LegacyTyped'
    BY <2>1 DEF LegacyInv, LegacyTyped, Threw
  <2>3. \A q \in Parties : \A l \in Nat : Iterations(q, l)' = Iterations(q, l)
    BY <2>1 DEF Iterations, Place, Threw
  <2>. QED
    BY <2>1, <2>2, <2>3, QuietInv
<1>. QED
  BY <1>1, <1>2

\* The invariant holds in every state: what a party has counted has come, and
\* what has come is what was sent, in its order (Party.cpp:385-666).
THEOREM LegacyInvariance == Spec => []LegacyInv
<1>1. Init => LegacyInv
  BY InitLegacyInv
<1>2. LegacyInv /\ [Next]_vars => LegacyInv'
  BY NextLegacyInv
<1>. QED
  BY <1>1, <1>2, PTL DEF Spec

-----------------------------------------------------------------------------
(* What follows.                                                           *)

\* A loop that p has left has counted size - 1 messages.
LEMMA LoopDone ==
  ASSUME LegacyTyped, NEW p \in Members, NEW l \in Nat, loop[p] > l
  PROVE  Iterations(p, l) = size - 1 /\ ~Threw(p)
<1>1. loop[p] \in Nat /\ loop[p] # 0
  BY SizeAndFlow, FlowIsLoops DEF LegacyTyped
<1>. QED
  BY <1>1 DEF Iterations, Place, Threw

\* What has come was sent.
LEMMA GotWasSent ==
  ASSUME LegacyTyped, NEW p \in Members, NEW l, NEW q \in Got(p, l)
  PROVE  HasSent(q, p, l)
<1>1. q \in Parties /\ l \in Sending(flow) /\ \E k \in 1 .. Iterations(q, l) : Peer(q, k) = p
  BY SizeAndFlow DEF Got, GoneLoops, GoneOf, SentLoops, Others
<1>2. l \in Nat /\ Place(q) \in Nat
  BY <1>1, SizeAndFlow, FlowIsLoops, PlaceType DEF Sending
<1>3. CASE Threw(q)
  BY <1>3 DEF HasSent
<1>4. CASE ~Threw(q)
  <2>1. Place(q) = loop[q]
    BY <1>4 DEF Place
  <2>2. CASE Place(q) > l
    BY <2>1, <2>2 DEF HasSent
  <2>3. CASE Place(q) = l
    BY <1>1, <1>2, <2>1, <2>3 DEF HasSent, Iterations
  <2>4. CASE Place(q) < l
    BY <1>1, <1>2, <2>4 DEF Iterations
  <2>. QED
    BY <1>2, <2>2, <2>3, <2>4
<1>. QED
  BY <1>3, <1>4

\* TypeOK in every state: in particular what a party has added up, and every
\* message, is a bag of parts (Party.cpp:385-666).
THEOREM LegacyTypeCorrect == Spec => []TypeOK
<1>1. ASSUME LegacyInv PROVE TypeOK
  <2>1. LegacyTyped
    BY <1>1 DEF LegacyInv
  <2>2. \A p \in Parties : IsABag(held[p]) /\ BagToSet(held[p]) \subseteq Parties \X (0 .. N)
    BY <2>1, BagIsABag DEF LegacyTyped
  <2>3. ASSUME NEW s \in Parties, NEW p \in Parties, NEW k \in DOMAIN toRouter[s][p]
        PROVE  toRouter[s][p][k].kind \in Kinds /\ IsABag(toRouter[s][p][k].parts)
    <3>1. toRouter[s][p] \in Seq(Messages)
      BY <2>1, SizeAndFlow DEF LegacyTyped
    <3>2. toRouter[s][p][k] \in Messages
      BY <3>1, LenProperties, ElementOfSeq
    <3>. QED
      BY <3>2, BagIsABag DEF Messages
  <2>. QED
    BY <2>1, <2>2, <2>3 DEF TypeOK, LegacyTyped
<1>. QED
  BY <1>1, LegacyInvariance, PTL

\* A synchronisation is a barrier for any number of parties, whatever messages
\* of other operations are on the connections (Party.cpp:516-559).
THEOREM SyncOrdersOperations == Spec => []SyncIsBarrier
<1>1. ASSUME LegacyInv PROVE SyncIsBarrier
  <2>. SUFFICES ASSUME NEW p \in Members, NEW l \in DOMAIN Calls(flow),
                       Calls(flow)[l].op = "sync", loop[p] > l, NEW q \in Members \ {p}
                PROVE  HasSent(q, p, l - 1)
    BY DEF SyncIsBarrier
  <2>1. LegacyTyped /\ SyncCount(p) /\ l \in Syncing(flow) /\ size \in Nat
    BY <1>1, SizeAndFlow DEF LegacyInv, CountInv, Syncing
  <2>2. l \in Nat
    BY <2>1, SizeAndFlow, FlowIsLoops DEF Syncing
  <2>3. size - 1 <= Cardinality(Got(p, l - 1))
    BY <2>1, <2>2, LoopDone DEF SyncCount
  <2>4. Cardinality(Got(p, l - 1)) = size - 1
    <3>1. Cardinality(Got(p, l - 1)) \in 0 .. size - 1
      BY <2>1, GotType
    <3>. QED
      BY <2>1, <2>3, <3>1
  <2>5. q \in Got(p, l - 1)
    BY <2>1, <2>4, GotType DEF Others
  <2>. QED
    BY <2>1, <2>5, GotWasSent
<1>. QED
  BY <1>1, LegacyInvariance, PTL

\* The two loops of the sum of secrets that count whatever message comes end
\* together: nothing is left behind on a connection (Party.cpp:581-657).
THEOREM SumEndsTogether == Spec => []FinishedAfterAll
<1>1. ASSUME LegacyInv PROVE FinishedAfterAll
  <2>. SUFFICES ASSUME NEW p \in Members, flow = "SecretSum", Finished(p),
                       NEW q \in Members \ {p}
                PROVE  HasSent(q, p, 3) /\ ~Arrived(p, q)
    BY DEF FinishedAfterAll
  <2>1. LegacyTyped /\ SumCount(p) /\ Connected(q, p) /\ size \in Nat
    BY <1>1, SizeAndFlow DEF LegacyInv, CountInv, ConnectionsInv, Others
  <2>2. loop[p] > 4 /\ loop[p] > 2
    <3>1. loop[p] \in Nat
      BY <2>1, SizeAndFlow, FlowIsLoops DEF LegacyTyped
    <3>2. Len(Calls(flow)) = 4
      BY SecretSumLoops
    <3>3. loop[p] > Len(Calls(flow))
      BY DEF Finished
    <3>4. loop[p] > 4
      BY <3>2, <3>3
    <3>. QED
      BY <3>1, <3>4
  <2>3. Iterations(p, 2) = size - 1 /\ Iterations(p, 4) = size - 1
    BY <2>1, <2>2, LoopDone
  <2>4. Cardinality(Got(p, 1)) = size - 1 /\ Cardinality(Got(p, 3)) = size - 1
    <3>1. Cardinality(Got(p, 1)) + Cardinality(Got(p, 3)) = (size - 1) + (size - 1)
      BY <2>1, <2>3 DEF SumCount
    <3>2. Cardinality(Got(p, 1)) \in 0 .. size - 1 /\ Cardinality(Got(p, 3)) \in 0 .. size - 1
      BY <2>1, GotType
    <3>. QED
      BY <2>1, <3>1, <3>2
  <2>5. q \in Got(p, 1) /\ q \in Got(p, 3)
    BY <2>1, <2>4, GotType DEF Others
  <2>6. HasSent(q, p, 3)
    BY <2>1, <2>5, GotWasSent
  <2>7. ASSUME Arrived(p, q) PROVE FALSE
    <3>1. toRouter[q][p] \in Seq(Messages) /\ toRouter[q][p] # <<>>
      BY <2>1, <2>7, SizeAndFlow DEF LegacyTyped, Arrived
    <3>2. 1 \in 1 .. Len(toRouter[q][p])
      BY <3>1, EmptySeq
    <3>3. PICK l \in SentLoops(q, p) : toRouter[q][p][1].kind = KindOf(flow, l)
      BY <2>1, <3>2 DEF Connected, Ordered
    <3>4. l \in {1, 3}
      BY <3>3, SecretSumLoops DEF SentLoops
    <3>5. l \in GoneLoops(q, p)
      BY <2>5, <3>4 DEF Got
    <3>. QED
      BY <3>2, <3>3, <3>5 DEF GoneLoops, GoneOf
  <2>. QED
    BY <2>6, <2>7
<1>. QED
  BY <1>1, LegacyInvariance, PTL

\* receiveShares returns with one share of each input, no matter which other
\* party's call has timed out (Party.cpp:409-435).
THEOREM SharesArriveOnce == Spec => []DistributionIsExact
<1>1. ASSUME LegacyInv PROVE DistributionIsExact
  <2>. SUFFICES ASSUME NEW p \in Members, loop[p] > 2,
                       flow = "Distribution" \/ (flow = "PartialSums" /\ size = 2)
                PROVE  held[p] = OneShareOfEach(p)
    BY DEF DistributionIsExact
  <2>1. LegacyTyped /\ TurnCount(p) /\ HeldInv(p) /\ size \in Nat /\ p \in Parties
    BY <1>1, SizeAndFlow DEF LegacyInv, CountInv
  <2>2. /\ TakesTurns(p) /\ (TwoInTurn \/ flow = "Distribution")
        /\ 1 \in Sending(flow) /\ KindOf(flow, 1) = "Share"
    BY DistributionLoops, PartialSumsLoops DEF TakesTurns, TwoInTurn
  <2>3. Cardinality(Got(p, 1)) = size - 1
    BY <2>1, <2>2, LoopDone DEF TurnCount
  <2>4. {p} \cup Got(p, 1) = Members
    BY <2>1, <2>3, GotType DEF Others
  <2>5. PartialsOf(p) = {}
    <3>1. CASE flow = "Distribution"
      BY <3>1, DistributionLoops DEF PartialsOf
    <3>2. CASE flow = "PartialSums" /\ size = 2
      <4>1. Sending(flow) = {1, 3}
        BY <3>2, PartialSumsLoops
      <4>2. i[p] = 1
        BY <2>1, <3>2 DEF LegacyTyped
      <4>3. Len(Calls(flow)) = 3 /\ Place(p) \in 1 .. Len(Calls(flow)) + 1
        BY <2>1, <3>2, PlaceType, PartialSumsLoops
      <4>4. Iterations(p, 4) = 0
        BY <4>2, <4>3 DEF Iterations
      <4>5. Got(p, 3) = {}
        BY <2>1, <2>2, <4>1, <4>4, GotType DEF TurnCount
      <4>. QED
        BY <2>2, <4>1, <4>5 DEF PartialsOf
    <3>. QED
      BY <3>1, <3>2
  <2>6. Sums(p) = {<<q, p>> : q \in Members}
    BY <2>4, <2>5 DEF Sums
  <2>. QED
    BY <2>1, <2>2, <2>6 DEF HeldInv, OneShareOfEach
<1>. QED
  BY <1>1, LegacyInvariance, PTL

\* A sum that no timed out receive has spoilt has every input once; between two
\* parties this is so of the sums of secrets too, with the synchronisations and
\* without (Party.h:88-108, Party.cpp:563-666).
THEOREM SumsAreRight == Spec => []FinishedSumIsRight
<1>1. ASSUME LegacyInv PROVE FinishedSumIsRight
  <2>. SUFFICES ASSUME NEW p \in Members, Finished(p), ~Spoilt(p),
                       flow = "PlainSum" \/ (flow \in {"SecretSum", "SyncedSum"} /\ size = 2)
                PROVE  held[p] = Total
    BY DEF FinishedSumIsRight, Spoilt
  <2>1. LegacyTyped /\ TurnCount(p) /\ HeldInv(p) /\ size \in Nat /\ p \in Parties
    BY <1>1, SizeAndFlow DEF LegacyInv, CountInv
  <2>2. TakesTurns(p) /\ 1 \in Sending(flow)
    BY PlainSumLoops, SecretSumLoops, SyncedSumLoops DEF TakesTurns, TwoInTurn
  <2>3. /\ loop[p] > 2
        /\ flow = "SecretSum" => loop[p] > 4
        /\ flow = "SyncedSum" => loop[p] > 6
    <3>1. loop[p] \in Nat
      BY <2>1, SizeAndFlow, FlowIsLoops DEF LegacyTyped
    <3>2. /\ flow = "PlainSum" => Len(Calls(flow)) = 2
          /\ flow = "SecretSum" => Len(Calls(flow)) = 4
          /\ flow = "SyncedSum" => Len(Calls(flow)) = 8
      BY PlainSumLoops, SecretSumLoops, SyncedSumLoops
    <3>3. loop[p] > Len(Calls(flow))
      BY DEF Finished
    <3>4. /\ flow = "PlainSum" => loop[p] > 2
          /\ flow = "SecretSum" => loop[p] > 4
          /\ flow = "SyncedSum" => loop[p] > 8
      BY <3>2, <3>3
    <3>. QED
      BY <3>1, <3>4
  <2>4. Cardinality(Got(p, 1)) = size - 1
    BY <2>1, <2>2, <2>3, LoopDone DEF TurnCount
  <2>5. {p} \cup Got(p, 1) = Members
    BY <2>1, <2>4, GotType DEF Others
  <2>6. CASE flow = "PlainSum"
    BY <2>1, <2>5, <2>6 DEF HeldInv, Values, Total
  <2>7. CASE flow \in {"SecretSum", "SyncedSum"} /\ size = 2
    <3>1. PICK l \in Sending(flow) : /\ KindOf(flow, l) = "Partial"
                                     /\ l + 1 \in Nat /\ loop[p] > l + 1
      <4>1. CASE flow = "SecretSum"
        BY <2>3, <4>1, SecretSumLoops
      <4>2. CASE flow = "SyncedSum"
        BY <2>3, <4>2, SyncedSumLoops
      <4>. QED
        BY <2>7, <4>1, <4>2
    <3>2. Cardinality(Got(p, l)) = size - 1
      BY <2>1, <2>2, <3>1, LoopDone DEF TurnCount
    <3>3. PartialsOf(p) = Others(p)
      BY <2>1, <3>1, <3>2, GotType DEF PartialsOf
    <3>4. Sums(p) = Members \X Members
      BY <2>5, <3>3 DEF Sums, Others
    <3>. QED
      BY <2>1, <2>7, <3>4 DEF HeldInv, TwoInTurn, Total
  <2>. QED
    BY <2>6, <2>7
<1>. QED
  BY <1>1, LegacyInvariance, PTL
=============================================================================
