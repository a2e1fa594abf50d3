------------------------ MODULE MPCCommunicationProofs ------------------------
(***************************************************************************)
(* Proofs about MPCCommunication, for any parties, callers and budgets.    *)
(*                                                                         *)
(* That nobody sleeps on a message is not inductive: a message wakes one   *)
(* caller, and another may have taken it by the time that one looks.  What *)
(* is inductive is a count: while anybody sleeps, at least as many callers *)
(* are on their way to look as there are messages in the queue.            *)
(***************************************************************************)
EXTENDS MPCCommunication, FiniteSetTheorems, SequenceTheorems,
        WellFoundedInduction, TLAPS

Asleep(C, f) == {c \in C : f[c] = "waiting"}
Awake(C, f)  == {c \in C : f[c] \in {"woken", "expired"}}

\* Enough of the callers C, which are where f says, look for n messages.
Enough(C, f, n) == Asleep(C, f) # {} => n <= Cardinality(Awake(C, f))

\* One caller at most holds the mutex across a step, and the queue is empty.
Exclusive(C, f, messages) ==
  \A c \in C : f[c] = "blocking" =>
    /\ messages = <<>>
    /\ \A d \in C : f[d] = "blocking" => d = c

PartyInv(p) ==
  /\ owner[p] = "new" => receiver[p] = "none"
  /\ owner[p] = "off" => receiver[p] = "done"
  /\ handler[p] => queue[p] = <<>>
  /\ Exclusive(Callers[p], caller[p], queue[p])
  /\ Enough(Callers[p], caller[p], Len(queue[p]))

\* The inductive invariant (ZMQMPCCommunication.cpp:19-295): receiver thread and
\* owner in step, the mutex held by one caller at most, and for every message in
\* the queue, while anybody sleeps, a caller on its way to look.
CommInv == TypeOK /\ \A p \in Parties : PartyInv(p)

Points   == {"idle", "entering", "blocking", "waiting", "woken", "expired"}
Messages == [from: Parties, msg: Nat]
-----------------------------------------------------------------------------
(* The count, as callers move.                                             *)

\* With an empty queue, or nobody asleep, nobody has to look.
LEMMA NobodyNeeded ==
  ASSUME NEW C, NEW f, IsFiniteSet(C), NEW n \in Nat, n = 0 \/ Asleep(C, f) = {}
  PROVE  Enough(C, f, n)
<1>1. IsFiniteSet(Awake(C, f))
  BY FS_Subset DEF Awake
<1>2. Cardinality(Awake(C, f)) \in Nat
  BY <1>1, FS_CardinalityType
<1>. QED
  BY <1>2 DEF Enough

\* A caller that comes to look, or leaves its sleep, takes nobody off.
LEMMA MoreAwake ==
  ASSUME NEW C, NEW f, NEW g, IsFiniteSet(C), NEW n \in Nat, Enough(C, f, n),
         Awake(C, f) \subseteq Awake(C, g), Asleep(C, g) \subseteq Asleep(C, f)
  PROVE  Enough(C, g, n)
<1>1. IsFiniteSet(Awake(C, g))
  BY FS_Subset DEF Awake
<1>2. IsFiniteSet(Awake(C, f)) /\ Cardinality(Awake(C, f)) <= Cardinality(Awake(C, g))
  BY <1>1, FS_Subset
<1>3. Cardinality(Awake(C, f)) \in Nat /\ Cardinality(Awake(C, g)) \in Nat
  BY <1>1, <1>2, FS_CardinalityType
<1>. QED
  BY <1>2, <1>3 DEF Enough

\* A message that comes with a notification
LEMMA OneWoken ==
  ASSUME NEW C, NEW f, IsFiniteSet(C), NEW n \in Nat, Enough(C, f, n),
         NEW c \in Asleep(C, f), DOMAIN f = C
  PROVE  Enough(C, [f EXCEPT ![c] = "woken"], n + 1)
<1>. DEFINE g == [f EXCEPT ![c] = "woken"]
<1>1. IsFiniteSet(Awake(C, f)) /\ c \notin Awake(C, f)
  BY FS_Subset DEF Awake, Asleep
<1>2. Awake(C, g) = Awake(C, f) \cup {c}
  BY DEF Awake, Asleep
<1>3. Cardinality(Awake(C, g)) = Cardinality(Awake(C, f)) + 1
  BY <1>1, <1>2, FS_AddElement
<1>4. n <= Cardinality(Awake(C, f)) /\ Cardinality(Awake(C, f)) \in Nat
  BY <1>1, FS_CardinalityType DEF Enough
<1>5. n + 1 <= Cardinality(Awake(C, g))
  BY <1>3, <1>4
<1>. QED
  BY <1>5 DEF Enough

\* A caller that looks and takes a message
LEMMA OneTaken ==
  ASSUME NEW C, NEW f, IsFiniteSet(C), NEW n \in Nat, Enough(C, f, n + 1),
         NEW c \in C, f[c] # "waiting", DOMAIN f = C
  PROVE  Enough(C, [f EXCEPT ![c] = "idle"], n)
<1>. DEFINE g == [f EXCEPT ![c] = "idle"]
<1>1. IsFiniteSet(Awake(C, f)) /\ Cardinality(Awake(C, f)) \in Nat
  BY FS_Subset, FS_CardinalityType DEF Awake
<1>2. Asleep(C, g) = Asleep(C, f) /\ Awake(C, g) = Awake(C, f) \ {c}
  BY DEF Asleep, Awake
<1>3. CASE c \in Awake(C, f)
  <2>1. Cardinality(Awake(C, g)) = Cardinality(Awake(C, f)) - 1
    BY <1>1, <1>2, <1>3, FS_RemoveElement
  <2>2. Asleep(C, g) # {} => n <= Cardinality(Awake(C, g))
    <3>. HIDE DEF g
    <3>. QED
      BY <1>1, <1>2, <2>1 DEF Enough
  <2>. QED
    BY <2>2 DEF Enough
<1>4. CASE c \notin Awake(C, f)
  <2>1. Awake(C, g) = Awake(C, f)
    BY <1>2, <1>4
  <2>2. Asleep(C, g) # {} => n <= Cardinality(Awake(C, g))
    <3>. HIDE DEF g
    <3>. QED
      BY <1>1, <1>2, <2>1 DEF Enough
  <2>. QED
    BY <2>2 DEF Enough
<1>. QED
  BY <1>3, <1>4

-----------------------------------------------------------------------------
(* The types.                                                              *)

\* TypeOK of callers that are where a caller moves to
LEMMA CallerType ==
  ASSUME TypeOK, NEW p \in Parties, NEW c \in Callers[p], NEW where \in Points,
         caller' = [caller EXCEPT ![p][c] = where]
  PROVE  /\ DOMAIN caller' = Parties
         /\ \A q \in Parties : caller'[q] \in [Callers[q] -> Points]
         /\ caller'[p] = [caller[p] EXCEPT ![c] = where]
         /\ \A q \in Parties \ {p} : caller'[q] = caller[q]
BY DEF TypeOK, Points

\* What linger 0 keeps of a sequence
LEMMA KeptType ==
  ASSUME NEW S, NEW m \in Seq(S)
  PROVE  Kept(m) \subseteq Seq(S)
<1>1. ASSUME NEW k \in 0 .. Len(m) PROVE SubSeq(m, 1, k) \in Seq(S)
  BY LenProperties, ElementOfSeq
<1>. QED
  BY <1>1 DEF Kept

\* A message that moves
LEMMA FrontType ==
  ASSUME NEW S, NEW m \in Seq(S), m # <<>>
  PROVE  /\ Head(m) \in S /\ Tail(m) \in Seq(S)
         /\ Len(m) \in Nat \ {0} /\ Len(Tail(m)) = Len(m) - 1
OBVIOUS

\* The message in hand goes to the handler.
LEMMA GiveToHandlerType ==
  ASSUME TypeOK, NEW p \in Parties, GiveToHandler(p)
  PROVE  TypeOK'
<1>1. delivered[p] \o held[p] \in Seq(Messages)
  <2>1. delivered[p] \in Seq(Messages) /\ held[p] \in Seq(Messages)
    BY DEF TypeOK, Messages
  <2>. QED
    BY <2>1, ConcatProperties
<1>2. delivered' \in [Parties -> Seq(Messages)]
  BY <1>1 DEF TypeOK, GiveToHandler, Messages
<1>3. held' \in [Parties -> Seq(Messages)]
  BY DEF TypeOK, GiveToHandler, Messages
<1>4. \A q \in Parties : Len(held'[q]) = IF receiver'[q] = "handle" THEN 1 ELSE 0
  BY DEF TypeOK, GiveToHandler
<1>. QED
  BY <1>2, <1>3, <1>4 DEF TypeOK, GiveToHandler, Messages

\* The message in hand goes into the queue.
LEMMA PutIntoQueueType ==
  ASSUME TypeOK, NEW p \in Parties, PutIntoQueue(p)
  PROVE  TypeOK'
<1>1. queue[p] \o held[p] \in Seq(Messages)
  <2>1. queue[p] \in Seq(Messages) /\ held[p] \in Seq(Messages)
    BY DEF TypeOK, Messages
  <2>. QED
    BY <2>1, ConcatProperties
<1>2. queue' \in [Parties -> Seq(Messages)]
  BY <1>1 DEF TypeOK, PutIntoQueue, Messages
<1>3. held' \in [Parties -> Seq(Messages)]
  BY DEF TypeOK, PutIntoQueue, Messages
<1>4. \A q \in Parties : Len(held'[q]) = IF receiver'[q] = "handle" THEN 1 ELSE 0
  BY DEF TypeOK, PutIntoQueue
<1>5. /\ DOMAIN caller' = Parties
      /\ \A q \in Parties : caller'[q] \in [Callers[q] -> Points]
  <2>1. CASE UNCHANGED caller
    BY <2>1 DEF TypeOK, Points
  <2>2. ASSUME NEW c \in Waiting(p), caller' = [caller EXCEPT ![p][c] = "woken"]
        PROVE  <1>5
    BY <2>2, CallerType DEF Waiting, Points
  <2>. QED
    BY <2>1, <2>2 DEF PutIntoQueue, NotifyOne
<1>. QED
  BY <1>2, <1>3, <1>4, <1>5 DEF TypeOK, PutIntoQueue, Messages, Points

\* The threads of the owner and the receiver keep TypeOK.
LEMMA ServiceType ==
  ASSUME TypeOK, NEW p \in Parties, owner[p] = "new" => receiver[p] = "none",
         OwnerStep(p) \/ ReceiverStep(p)
  PROVE  TypeOK'
<1>1. CASE Initialize(p)
  BY <1>1 DEF TypeOK, Initialize
<1>2. CASE BecomeReady(p)
  BY <1>2 DEF TypeOK, BecomeReady
<1>3. ASSUME NEW q \in Parties, SendNext(p, q) PROVE TypeOK'
  <2>1. sent[p] + 1 \in Nat /\ sent' = [sent EXCEPT ![p] = @ + 1]
        /\ wire' = [wire EXCEPT ![p][q] = Append(@, sent[p] + 1)]
    BY <1>3 DEF TypeOK, SendNext, Send
  <2>2. wire[p][q] \in Seq(Nat) /\ Append(wire[p][q], sent[p] + 1) \in Seq(Nat)
    BY <2>1 DEF TypeOK
  <2>3. wire' \in [Parties -> [Parties -> Seq(Nat)]] /\ sent' \in [Parties -> Nat]
    BY <2>1, <2>2 DEF TypeOK
  <2>. QED
    BY <1>3, <2>3 DEF TypeOK, SendNext, Send
<1>4. CASE StopRunning(p)
  BY <1>4 DEF TypeOK, StopRunning
<1>5. CASE NotifyAll(p)
  <2>1. /\ DOMAIN caller' = Parties
        /\ \A q \in Parties : caller'[q] \in [Callers[q] -> Points]
    BY <1>5 DEF TypeOK, NotifyAll, Points
  <2>. QED
    BY <1>5, <2>1 DEF TypeOK, NotifyAll, Points
<1>6. CASE Close(p)
  <2>1. PICK kept \in [Parties -> UNION {Kept(wire[p][q]) : q \in Parties}] :
          wire' = [wire EXCEPT ![p] = kept]
    BY <1>6 DEF Close
  <2>2. ASSUME NEW q \in Parties PROVE Kept(wire[p][q]) \subseteq Seq(Nat)
    <3>1. wire[p][q] \in Seq(Nat)
      BY DEF TypeOK
    <3>. QED
      BY <3>1, KeptType
  <2>3. kept \in [Parties -> Seq(Nat)]
    BY <2>1, <2>2
  <2>4. wire' \in [Parties -> [Parties -> Seq(Nat)]]
    BY <2>1, <2>3 DEF TypeOK
  <2>. QED
    BY <1>6, <2>4 DEF TypeOK, Close
<1>7. CASE TestRunning(p)
  BY <1>7 DEF TypeOK, TestRunning
<1>8. ASSUME NEW s \in Parties, RouterReceive(p, s) PROVE TypeOK'
  <2>1. wire[s][p] \in Seq(Nat) /\ wire[s][p] # <<>>
    BY <1>8 DEF TypeOK, RouterReceive
  <2>2. Head(wire[s][p]) \in Nat /\ Tail(wire[s][p]) \in Seq(Nat)
    BY <2>1, FrontType
  <2>3. wire' \in [Parties -> [Parties -> Seq(Nat)]]
    BY <1>8, <2>2 DEF TypeOK, RouterReceive
  <2>4. [from |-> s, msg |-> Head(wire[s][p])] \in Messages
    BY <2>2 DEF Messages
  <2>5. held' \in [Parties -> Seq(Messages)]
    BY <1>8, <2>4 DEF TypeOK, RouterReceive, Messages
  <2>6. \A q \in Parties : Len(held'[q]) = IF receiver'[q] = "handle" THEN 1 ELSE 0
    BY <1>8 DEF TypeOK, RouterReceive
  <2>. QED
    BY <1>8, <2>3, <2>5, <2>6 DEF TypeOK, RouterReceive, Messages
<1>9. CASE RouterTimeout(p)
  BY <1>9 DEF TypeOK, RouterTimeout
<1>10. CASE CallHandler(p)
  BY <1>10, GiveToHandlerType DEF CallHandler
<1>11. CASE Enqueue(p)
  BY <1>11, PutIntoQueueType DEF Enqueue
<1>. QED
  BY <1>1, <1>2, <1>3, <1>4, <1>5, <1>6, <1>7, <1>8, <1>9, <1>10, <1>11
     DEF OwnerStep, ReceiverStep

\* What a caller does to its party, in one of four ways
LEMMA CallerMoves ==
  ASSUME TypeOK, NEW p \in Parties, NEW c \in Callers[p], ReceiveStep(p, c)
  PROVE  /\ UNCHANGED <<wire, owner, receiver, held, handler, sent>>
         /\ \/ /\ caller[p][c] = "idle" /\ Goto(p, c, "entering")
               /\ UNCHANGED <<queue, delivered>>
            \/ /\ MutexFree(p) /\ caller[p][c] \in {"entering", "woken", "expired"}
               /\ Take(p, c)
            \/ /\ MutexFree(p) /\ queue[p] = <<>>
               /\ \E where \in {"blocking", "idle"} : Goto(p, c, where)
               /\ UNCHANGED <<queue, delivered>>
            \/ /\ caller[p][c] = "blocking" /\ Goto(p, c, "waiting")
               /\ UNCHANGED <<queue, delivered>>
            \/ /\ caller[p][c] \in {"waiting", "woken"}
               /\ \E where \in {"woken", "expired"} : Goto(p, c, where)
               /\ UNCHANGED <<queue, delivered>>
<1>1. CASE CallReceive(p, c)
  BY <1>1 DEF CallReceive
<1>2. CASE Examine(p, c)
  BY <1>2 DEF Examine
<1>3. CASE Block(p, c)
  BY <1>3 DEF Block
<1>4. CASE WakeSpuriously(p, c)
  BY <1>4 DEF WakeSpuriously
<1>5. CASE TimeOut(p, c)
  BY <1>5 DEF TimeOut
<1>6. CASE GiveUp(p, c)
  BY <1>6 DEF GiveUp
<1>. QED
  BY <1>1, <1>2, <1>3, <1>4, <1>5, <1>6 DEF ReceiveStep

\* Calls of receive keep TypeOK.
LEMMA ReceiveType ==
  ASSUME TypeOK, NEW p \in Parties, NEW c \in Callers[p], ReceiveStep(p, c)
  PROVE  TypeOK'
<1>1. /\ UNCHANGED <<wire, owner, receiver, held, handler, sent>>
      /\ \E where \in Points : caller' = [caller EXCEPT ![p][c] = where]
      /\ UNCHANGED <<queue, delivered>> \/ Take(p, c)
  BY CallerMoves DEF Goto, Take, Points
<1>2. /\ DOMAIN caller' = Parties
      /\ \A q \in Parties : caller'[q] \in [Callers[q] -> Points]
  BY <1>1, CallerType
<1>3. /\ queue' \in [Parties -> Seq(Messages)]
      /\ delivered' \in [Parties -> Seq(Messages)]
  <2>1. CASE UNCHANGED <<queue, delivered>>
    BY <2>1 DEF TypeOK, Messages
  <2>2. CASE Take(p, c)
    <3>1. /\ queue[p] \in Seq(Messages) /\ queue[p] # <<>>
          /\ delivered[p] \in Seq(Messages)
      BY <2>2 DEF TypeOK, Take, Messages
    <3>2. Head(queue[p]) \in Messages /\ Tail(queue[p]) \in Seq(Messages)
      BY <3>1, FrontType
    <3>3. Append(delivered[p], Head(queue[p])) \in Seq(Messages)
      BY <3>1, <3>2
    <3>. QED
      BY <2>2, <3>2, <3>3 DEF TypeOK, Take, Messages
  <2>. QED
    BY <1>1, <2>1, <2>2
<1>. QED
  BY <1>1, <1>2, <1>3 DEF TypeOK, Messages, Points

-----------------------------------------------------------------------------
(* The rest of the invariant.                                              *)

\* A party that no step touches keeps its part of the invariant.
LEMMA OtherParty ==
  ASSUME NEW q \in Parties, PartyInv(q),
         owner'[q] = owner[q], receiver'[q] = receiver[q], handler'[q] = handler[q],
         queue'[q] = queue[q], caller'[q] = caller[q]
  PROVE  PartyInv(q)'
BY DEF PartyInv, Exclusive, Enough, Asleep, Awake

\* The service threads of a party keep its part of the invariant.
LEMMA ServiceInv ==
  ASSUME TypeOK, NEW p \in Parties, PartyInv(p), OwnerStep(p) \/ ReceiverStep(p)
  PROVE  PartyInv(p)'
<1>1. /\ owner[p] = "new" => receiver[p] = "none"
      /\ owner[p] = "off" => receiver[p] = "done"
      /\ handler[p] => queue[p] = <<>>
      /\ Exclusive(Callers[p], caller[p], queue[p])
      /\ Enough(Callers[p], caller[p], Len(queue[p]))
  BY DEF PartyInv
<1>2. /\ IsFiniteSet(Callers[p]) /\ DOMAIN caller[p] = Callers[p]
      /\ queue[p] \in Seq(Messages) /\ Len(queue[p]) \in Nat
  <2>1. IsFiniteSet(Callers[p])
    BY CommAssumption
  <2>2. caller[p] \in [Callers[p] -> Points] /\ queue[p] \in Seq(Messages)
    BY DEF TypeOK, Messages, Points
  <2>. QED
    BY <2>1, <2>2
<1>3. ASSUME UNCHANGED <<queue, caller>>, handler' = handler,
             owner'[p] = "new" => receiver'[p] = "none",
             owner'[p] = "off" => receiver'[p] = "done"
      PROVE  PartyInv(p)'
  BY <1>1, <1>3 DEF PartyInv, Exclusive, Enough, Asleep, Awake
<1>4. CASE Initialize(p)
  BY <1>4, <1>3 DEF TypeOK, Initialize
<1>5. CASE BecomeReady(p)
  BY <1>5, <1>3 DEF TypeOK, BecomeReady
<1>6. CASE \E q \in Parties : SendNext(p, q)
  BY <1>6, <1>1, <1>3 DEF SendNext, Send
<1>7. CASE StopRunning(p)
  BY <1>7, <1>3 DEF TypeOK, StopRunning
<1>8. CASE NotifyAll(p)
  <2>. DEFINE f == [c \in Callers[p] |-> IF c \in Waiting(p) THEN "woken" ELSE caller[p][c]]
  <2>1. caller'[p] = f
    BY <1>8 DEF TypeOK, NotifyAll
  <2>2. Asleep(Callers[p], f) = {}
    BY DEF Asleep, Waiting
  <2>3. Exclusive(Callers[p], f, queue[p])
    BY <1>1 DEF Exclusive
  <2>4. Enough(Callers[p], f, Len(queue[p]))
    BY <1>2, <2>2, NobodyNeeded
  <2>5. /\ owner'[p] = "joining" /\ UNCHANGED <<queue, handler>>
    BY <1>8 DEF TypeOK, NotifyAll
  <2>. HIDE DEF f
  <2>. QED
    BY <1>1, <2>1, <2>3, <2>4, <2>5 DEF PartyInv, Exclusive, Enough, Asleep, Awake
<1>9. CASE Close(p)
  BY <1>9, <1>3 DEF TypeOK, Close
<1>10. CASE TestRunning(p)
  BY <1>10, <1>1, <1>3 DEF TypeOK, TestRunning
<1>11. CASE (\E s \in Parties : RouterReceive(p, s)) \/ RouterTimeout(p)
  BY <1>11, <1>1, <1>3 DEF TypeOK, RouterReceive, RouterTimeout
<1>12. CASE CallHandler(p)
  BY <1>12, <1>1, <1>3 DEF TypeOK, CallHandler, GiveToHandler
<1>13. CASE Enqueue(p)
  <2>1. /\ \A c \in Callers[p] : caller[p][c] # "blocking"
        /\ UNCHANGED <<owner, handler>> /\ ~handler[p] /\ receiver[p] = "handle"
    BY <1>13 DEF Enqueue, PutIntoQueue, MutexFree
  <2>2. Len(queue'[p]) = Len(queue[p]) + 1
    <3>1. held[p] \in Seq(Messages) /\ Len(held[p]) = 1
      BY <2>1 DEF TypeOK, Messages
    <3>2. queue'[p] = queue[p] \o held[p]
      BY <1>13 DEF TypeOK, Enqueue, PutIntoQueue
    <3>3. Len(queue[p] \o held[p]) = Len(queue[p]) + Len(held[p])
      BY <1>2, <3>1, ConcatProperties
    <3>. QED
      BY <3>1, <3>2, <3>3
  <2>3. /\ \A c \in Callers[p] : caller'[p][c] # "blocking"
        /\ Enough(Callers[p], caller'[p], Len(queue[p]) + 1)
    <3>1. CASE Waiting(p) = {}
      <4>1. caller' = caller
        BY <1>13, <3>1 DEF Enqueue, PutIntoQueue, NotifyOne
      <4>2. Asleep(Callers[p], caller[p]) = {}
        BY <3>1 DEF Asleep, Waiting
      <4>3. Enough(Callers[p], caller[p], Len(queue[p]) + 1)
        BY <1>2, <4>2, NobodyNeeded
      <4>. QED
        BY <2>1, <4>1, <4>3
    <3>2. CASE Waiting(p) # {}
      <4>1. PICK c \in Waiting(p) : caller' = [caller EXCEPT ![p][c] = "woken"]
        BY <1>13, <3>2 DEF Enqueue, PutIntoQueue, NotifyOne
      <4>2. caller'[p] = [caller[p] EXCEPT ![c] = "woken"] /\ c \in Callers[p]
        BY <4>1 DEF TypeOK, Waiting
      <4>3. c \in Asleep(Callers[p], caller[p])
        BY <4>1 DEF Asleep, Waiting
      <4>4. Enough(Callers[p], [caller[p] EXCEPT ![c] = "woken"], Len(queue[p]) + 1)
        BY <1>1, <1>2, <4>3, OneWoken
      <4>. QED
        BY <1>2, <2>1, <4>2, <4>4
    <3>. QED
      BY <3>1, <3>2
  <2>4. owner'[p] \notin {"new", "off"}
    BY <1>1, <2>1
  <2>5. ~handler'[p]
    BY <2>1
  <2>. QED
    BY <2>2, <2>3, <2>4, <2>5 DEF PartyInv, Exclusive, Enough, Asleep, Awake
<1>. QED
  BY <1>4, <1>5, <1>6, <1>7, <1>8, <1>9, <1>10, <1>11, <1>12, <1>13
     DEF OwnerStep, ReceiverStep

\* A call of receive keeps its party's part of the invariant.
LEMMA ReceiveInv ==
  ASSUME TypeOK, NEW p \in Parties, PartyInv(p), NEW c \in Callers[p], ReceiveStep(p, c)
  PROVE  PartyInv(p)'
<1>1. /\ Exclusive(Callers[p], caller[p], queue[p])
      /\ Enough(Callers[p], caller[p], Len(queue[p]))
      /\ handler[p] => queue[p] = <<>>
  BY DEF PartyInv
<1>2. /\ IsFiniteSet(Callers[p]) /\ DOMAIN caller[p] = Callers[p]
      /\ queue[p] \in Seq(Messages) /\ Len(queue[p]) \in Nat
  <2>1. IsFiniteSet(Callers[p])
    BY CommAssumption
  <2>2. caller[p] \in [Callers[p] -> Points] /\ queue[p] \in Seq(Messages)
    BY DEF TypeOK, Messages, Points
  <2>. QED
    BY <2>1, <2>2
<1>3. UNCHANGED <<owner, receiver, handler>>
  BY CallerMoves
<1>4. SUFFICES /\ handler[p] => queue'[p] = <<>>
               /\ Exclusive(Callers[p], caller'[p], queue'[p])
               /\ Enough(Callers[p], caller'[p], Len(queue'[p]))
  BY <1>3 DEF PartyInv, Exclusive, Enough, Asleep, Awake
<1>5. ASSUME NEW where, Goto(p, c, where)
      PROVE  caller'[p] = [caller[p] EXCEPT ![c] = where]
  BY <1>5 DEF TypeOK, Goto
<1>6. CASE caller[p][c] = "idle" /\ Goto(p, c, "entering") /\ UNCHANGED queue
  <2>. DEFINE f == [caller[p] EXCEPT ![c] = "entering"]
  <2>1. Awake(Callers[p], f) = Awake(Callers[p], caller[p])
        /\ Asleep(Callers[p], f) = Asleep(Callers[p], caller[p])
    BY <1>2, <1>6 DEF Awake, Asleep
  <2>2. Enough(Callers[p], f, Len(queue[p]))
    BY <1>1, <1>2, <2>1, MoreAwake
  <2>3. Exclusive(Callers[p], f, queue[p])
    BY <1>1, <1>2 DEF Exclusive
  <2>. QED
    BY <1>1, <1>5, <1>6, <2>2, <2>3
<1>7. CASE MutexFree(p) /\ caller[p][c] \in {"entering", "woken", "expired"} /\ Take(p, c)
  <2>. DEFINE f == [caller[p] EXCEPT ![c] = "idle"]
              n == Len(Tail(queue[p]))
  <2>1. n \in Nat /\ Len(queue[p]) = n + 1 /\ queue[p] # <<>>
    BY <1>2, <1>7, FrontType DEF Take
  <2>2. Enough(Callers[p], f, n)
    <3>. HIDE DEF n
    <3>. QED
      BY <1>1, <1>2, <1>7, <2>1, OneTaken
  <2>3. Exclusive(Callers[p], f, Tail(queue[p]))
    BY <1>2, <1>7 DEF Exclusive, MutexFree
  <2>4. queue'[p] = Tail(queue[p]) /\ caller'[p] = f
    BY <1>5, <1>7 DEF TypeOK, Take
  <2>. QED
    BY <1>1, <2>1, <2>2, <2>3, <2>4
<1>8. CASE queue[p] = <<>> /\ UNCHANGED queue /\ MutexFree(p)
           /\ \E where \in {"blocking", "idle"} : Goto(p, c, where)
  <2>1. PICK where \in {"blocking", "idle"} : Goto(p, c, where)
    BY <1>8
  <2>. DEFINE f == [caller[p] EXCEPT ![c] = where]
  <2>2. Len(queue[p]) = 0
    BY <1>8
  <2>3. Enough(Callers[p], f, Len(queue[p]))
    BY <1>2, <2>2, NobodyNeeded
  <2>4. Exclusive(Callers[p], f, queue[p])
    BY <1>2, <1>8 DEF Exclusive, MutexFree
  <2>. QED
    BY <1>1, <1>5, <1>8, <2>1, <2>3, <2>4
<1>9. CASE caller[p][c] = "blocking" /\ Goto(p, c, "waiting") /\ UNCHANGED queue
  <2>. DEFINE f == [caller[p] EXCEPT ![c] = "waiting"]
  <2>1. queue[p] = <<>> /\ Len(queue[p]) = 0
    BY <1>1, <1>9 DEF Exclusive
  <2>2. Enough(Callers[p], f, Len(queue[p]))
    BY <1>2, <2>1, NobodyNeeded
  <2>3. Exclusive(Callers[p], f, queue[p])
    BY <1>1, <1>2 DEF Exclusive
  <2>. QED
    BY <1>1, <1>5, <1>9, <2>2, <2>3
<1>10. CASE caller[p][c] \in {"waiting", "woken"} /\ UNCHANGED queue
            /\ \E where \in {"woken", "expired"} : Goto(p, c, where)
  <2>1. PICK where \in {"woken", "expired"} : Goto(p, c, where)
    BY <1>10
  <2>. DEFINE f == [caller[p] EXCEPT ![c] = where]
  <2>2. Awake(Callers[p], caller[p]) \subseteq Awake(Callers[p], f)
        /\ Asleep(Callers[p], f) \subseteq Asleep(Callers[p], caller[p])
    BY <1>2, <1>10 DEF Awake, Asleep
  <2>3. Enough(Callers[p], f, Len(queue[p]))
    BY <1>1, <1>2, <2>2, MoreAwake
  <2>4. Exclusive(Callers[p], f, queue[p])
    BY <1>1, <1>2 DEF Exclusive
  <2>. QED
    BY <1>1, <1>5, <1>10, <2>1, <2>3, <2>4
<1>. QED
  BY <1>6, <1>7, <1>8, <1>9, <1>10, CallerMoves

-----------------------------------------------------------------------------
(* The theorems.                                                           *)

LEMMA InitInv == Init => CommInv
<1>. SUFFICES ASSUME Init PROVE CommInv
  OBVIOUS
<1>1. TypeOK
  BY DEF Init, TypeOK
<1>2. ASSUME NEW p \in Parties PROVE PartyInv(p)
  <2>1. /\ owner[p] = "new" /\ receiver[p] = "none" /\ queue[p] = <<>>
        /\ \A c \in Callers[p] : caller[p][c] = "idle"
    BY <1>2 DEF Init
  <2>2. Asleep(Callers[p], caller[p]) = {}
    BY <2>1 DEF Asleep
  <2>. QED
    BY <2>1, <2>2 DEF PartyInv, Exclusive, Enough
<1>. QED
  BY <1>1, <1>2 DEF CommInv

\* What a step of p leaves alone
LEMMA OneParty ==
  ASSUME TypeOK, NEW p \in Parties, NEW q \in Parties, q # p,
         \/ OwnerStep(p) \/ ReceiverStep(p)
         \/ \E c \in Callers[p] : ReceiveStep(p, c)
  PROVE  /\ owner'[q] = owner[q] /\ receiver'[q] = receiver[q] /\ handler'[q] = handler[q]
         /\ queue'[q] = queue[q] /\ caller'[q] = caller[q]
<1>. USE DEF TypeOK
<1>1. CASE OwnerStep(p)
  <2>1. CASE Initialize(p) \/ BecomeReady(p) \/ StopRunning(p)
    BY <2>1 DEF Initialize, BecomeReady, StopRunning
  <2>2. CASE \E r \in Parties : SendNext(p, r)
    BY <2>2 DEF SendNext, Send
  <2>3. CASE NotifyAll(p)
    BY <2>3 DEF NotifyAll
  <2>4. CASE Close(p)
    BY <2>4 DEF Close
  <2>. QED
    BY <1>1, <2>1, <2>2, <2>3, <2>4 DEF OwnerStep
<1>2. CASE ReceiverStep(p)
  <2>1. CASE TestRunning(p) \/ RouterTimeout(p)
    BY <2>1 DEF TestRunning, RouterTimeout
  <2>2. CASE \E s \in Parties : RouterReceive(p, s)
    BY <2>2 DEF RouterReceive
  <2>3. CASE CallHandler(p)
    BY <2>3 DEF CallHandler, GiveToHandler
  <2>4. CASE Enqueue(p)
    <3>1. queue' = [queue EXCEPT ![p] = @ \o held[p]]
      BY <2>4 DEF Enqueue, PutIntoQueue
    <3>2. receiver' = [receiver EXCEPT ![p] = "test"] /\ UNCHANGED <<owner, handler>>
      BY <2>4 DEF Enqueue, PutIntoQueue
    <3>3. NotifyOne(p)
      BY <2>4 DEF Enqueue, PutIntoQueue
    <3>4. caller'[q] = caller[q]
      BY <3>3 DEF NotifyOne
    <3>. QED
      BY <3>1, <3>2, <3>4
  <2>. QED
    BY <1>2, <2>1, <2>2, <2>3, <2>4 DEF ReceiverStep
<1>3. CASE \E c \in Callers[p] : ReceiveStep(p, c)
  <2>1. PICK c \in Callers[p] : ReceiveStep(p, c)
    BY <1>3
  <2>2. /\ UNCHANGED <<owner, receiver, handler>>
        /\ \E where : Goto(p, c, where)
        /\ UNCHANGED queue \/ Take(p, c)
    <3>1. Take(p, c) => Goto(p, c, "idle")
      BY DEF Take
    <3>. QED
      BY <2>1, <3>1, CallerMoves
  <2>3. PICK where : caller' = [caller EXCEPT ![p][c] = where]
    BY <2>2 DEF Goto
  <2>4. caller'[q] = caller[q]
    BY <2>3
  <2>5. queue'[q] = queue[q]
    BY <2>2 DEF Take
  <2>. QED
    BY <2>2, <2>4, <2>5
<1>. QED
  BY <1>1, <1>2, <1>3

LEMMA StepInv == CommInv /\ [Next]_vars => CommInv'
<1>. SUFFICES ASSUME CommInv, [Next]_vars PROVE CommInv'
  OBVIOUS
<1>1. TypeOK /\ \A p \in Parties : PartyInv(p)
  BY DEF CommInv
<1>2. CASE UNCHANGED vars
  <2>1. TypeOK'
    BY <1>1, <1>2 DEF TypeOK, vars
  <2>2. ASSUME NEW p \in Parties PROVE PartyInv(p)'
    BY <1>1, <1>2, OtherParty DEF vars
  <2>. QED
    BY <2>1, <2>2 DEF CommInv
<1>3. ASSUME NEW p \in Parties, OwnerStep(p) \/ ReceiverStep(p) PROVE CommInv'
  <2>1. TypeOK'
    BY <1>1, <1>3, ServiceType DEF PartyInv
  <2>2. PartyInv(p)'
    BY <1>1, <1>3, ServiceInv
  <2>3. ASSUME NEW q \in Parties, q # p PROVE PartyInv(q)'
    BY <1>1, <1>3, <2>3, OneParty, OtherParty
  <2>. QED
    BY <2>1, <2>2, <2>3 DEF CommInv
<1>4. ASSUME NEW p \in Parties, NEW c \in Callers[p], ReceiveStep(p, c) PROVE CommInv'
  <2>1. TypeOK'
    BY <1>1, <1>4, ReceiveType
  <2>2. PartyInv(p)'
    BY <1>1, <1>4, ReceiveInv
  <2>3. ASSUME NEW q \in Parties, q # p PROVE PartyInv(q)'
    BY <1>1, <1>4, <2>3, OneParty, OtherParty
  <2>. QED
    BY <2>1, <2>2, <2>3 DEF CommInv
<1>. QED
  BY <1>2, <1>3, <1>4 DEF Next

\* (ZMQMPCCommunication.cpp:69-186, 229-295)  Callers, mutex, receiver thread and
\* owner are in step, and while anybody sleeps enough callers are awake.
THEOREM MessagingInvariance == Spec => []CommInv
BY InitInv, StepInv, PTL DEF Spec

\* (ZMQMPCCommunication.cpp:19-295)  The state of every thread has its type.
THEOREM MessagingTypeCorrect == Spec => []TypeOK
<1>1. CommInv => TypeOK
  BY DEF CommInv
<1>. QED
  BY <1>1, MessagingInvariance, PTL

\* (ZMQMPCCommunication.cpp:167-186, 289-293)  No caller sleeps on a message
\* that nobody is on its way to take, for any number of callers and messages.
THEOREM NoLostNotification == Spec => []NobodySleepsOnAMessage
<1>1. CommInv => NobodySleepsOnAMessage
  <2>. SUFFICES ASSUME CommInv, NEW p \in Parties, queue[p] # <<>>, Waiting(p) # {}
                PROVE  \E c \in Callers[p] : caller[p][c] \in {"woken", "expired"}
    BY DEF NobodySleepsOnAMessage
  <2>1. /\ queue[p] \in Seq(Messages)
        /\ Enough(Callers[p], caller[p], Len(queue[p]))
    BY DEF CommInv, PartyInv, TypeOK, Messages
  <2>2. Len(queue[p]) \in Nat /\ Len(queue[p]) # 0
    BY <2>1, EmptySeq
  <2>3. Asleep(Callers[p], caller[p]) # {}
    BY DEF Asleep, Waiting
  <2>4. Len(queue[p]) <= Cardinality(Awake(Callers[p], caller[p]))
    BY <2>1, <2>3 DEF Enough
  <2>5. Awake(Callers[p], caller[p]) # {}
    <3>1. Cardinality({}) = 0
      BY FS_EmptySet
    <3>. DEFINE A == Awake(Callers[p], caller[p])
    <3>2. Len(queue[p]) <= Cardinality(A)
      BY <2>4
    <3>. HIDE DEF A
    <3>3. ASSUME A = {} PROVE FALSE
      <4>1. Cardinality(A) = 0
        BY <3>1, <3>3
      <4>. QED
        BY <2>2, <3>2, <4>1
    <3>. QED
      BY <3>3 DEF A
  <2>. QED
    BY <2>5 DEF Awake
<1>. QED
  BY <1>1, MessagingInvariance, PTL

\* (ZMQMPCCommunication.cpp:69-100)  Once shutdown has returned, no message is
\* given to the handler, and none is put into the queue.
THEOREM ShutdownIsQuiet == Spec => QuietAfterShutdown
<1>1. CommInv /\ [Next]_vars =>
        \A p \in Parties : owner[p] = "off" =>
          /\ handler[p] => delivered'[p] = delivered[p]
          /\ Len(queue'[p]) <= Len(queue[p])
  <2>. SUFFICES ASSUME CommInv, [Next]_vars, NEW p \in Parties, owner[p] = "off"
                PROVE  /\ handler[p] => delivered'[p] = delivered[p]
                       /\ Len(queue'[p]) <= Len(queue[p])
    OBVIOUS
  <2>1. /\ receiver[p] = "done"
        /\ handler[p] => queue[p] = <<>>
        /\ queue[p] \in Seq(Messages)
    BY DEF CommInv, PartyInv, TypeOK, Messages
  <2>2. Len(queue[p]) \in Nat
    BY <2>1
  <2>3. CASE queue'[p] = queue[p] /\ delivered'[p] = delivered[p]
    BY <2>2, <2>3
  <2>4. ASSUME NEW q \in Parties, OwnerStep(q)
        PROVE  queue'[p] = queue[p] /\ delivered'[p] = delivered[p]
    <3>1. UNCHANGED <<queue, delivered>>
      BY <2>4 DEF OwnerStep, Initialize, BecomeReady, SendNext, Send, StopRunning,
                  NotifyAll, Close
    <3>. QED
      BY <3>1
  <2>5. ASSUME NEW q \in Parties, ReceiverStep(q)
        PROVE  queue'[p] = queue[p] /\ delivered'[p] = delivered[p]
    <3>1. CASE UNCHANGED <<queue, delivered>>
      BY <3>1
    <3>2. CASE CallHandler(q) \/ Enqueue(q)
      <4>1. receiver[q] = "handle" /\ q # p
        BY <2>1, <3>2 DEF CallHandler, GiveToHandler, Enqueue, PutIntoQueue
      <4>2. DOMAIN queue = Parties /\ DOMAIN delivered = Parties
        BY DEF CommInv, TypeOK
      <4>. QED
        BY <3>2, <4>1, <4>2 DEF CallHandler, GiveToHandler, Enqueue, PutIntoQueue
    <3>. QED
      BY <2>5, <3>1, <3>2 DEF ReceiverStep, TestRunning, RouterReceive, RouterTimeout
  <2>6. ASSUME NEW q \in Parties, NEW c \in Callers[q], ReceiveStep(q, c)
        PROVE  \/ queue'[p] = queue[p] /\ delivered'[p] = delivered[p]
               \/ queue[p] # <<>> /\ queue'[p] = Tail(queue[p])
    <3>1. UNCHANGED <<queue, delivered>> \/ Take(q, c)
      BY <2>6, CallerMoves DEF CommInv
    <3>2. CASE UNCHANGED <<queue, delivered>>
      BY <3>2
    <3>3. CASE Take(q, c)
      <4>1. /\ queue[q] # <<>>
            /\ delivered' = [delivered EXCEPT ![q] = Append(@, Head(queue[q]))]
            /\ queue' = [queue EXCEPT ![q] = Tail(@)]
        BY <3>3 DEF Take
      <4>2. p \in DOMAIN queue
        BY DEF CommInv, TypeOK
      <4>3. CASE q = p
        BY <4>1, <4>2, <4>3
      <4>4. CASE q # p
        BY <4>1, <4>4
      <4>. QED
        BY <4>3, <4>4
    <3>. QED
      BY <3>1, <3>2, <3>3
  <2>7. CASE queue[p] # <<>> /\ queue'[p] = Tail(queue[p])
    <3>1. Len(Tail(queue[p])) = Len(queue[p]) - 1
      BY <2>1, <2>7, FrontType
    <3>. QED
      BY <2>1, <2>2, <2>7, <3>1
  <2>8. CASE UNCHANGED vars
    BY <2>3, <2>8 DEF vars
  <2>. QED
    BY <2>3, <2>4, <2>5, <2>6, <2>7, <2>8 DEF Next
<1>. QED
  BY <1>1, MessagingInvariance, PTL DEF Spec, QuietAfterShutdown

-----------------------------------------------------------------------------
(* What one sender has sent of a sequence of messages.                     *)

\* The least number of a set of naturals, for proofs by induction.
LEMMA NatLeast ==
  ASSUME NEW T \in SUBSET Nat, T # {}
  PROVE  \E x \in T : \A y \in T : x <= y
<1>. DEFINE R == {ss \in Nat \X Nat : ss[1] < ss[2]}
<1>1. IsWellFoundedOn(R, Nat)
  BY NatLessThanWellFounded DEF OpToRel
<1>2. \E x \in T : \A y \in T : ~(<<y, x>> \in R)
  <2>. HIDE DEF R
  <2>. QED
    BY <1>1, WFMin
<1>3. PICK x \in T : \A y \in T : ~(<<y, x>> \in R)
  BY <1>2
<1>4. \A y \in T : ~(y < x)
  BY <1>3
<1>. QED
  BY <1>4

\* f holds what s has sent of the first 0, 1, ..., k messages.
IsFront(f, messages, s, k) ==
  f = [i \in 0 .. k |->
         IF i = 0 THEN <<>>
         ELSE IF messages[i].from = s THEN Append(f[i - 1], messages[i].msg)
         ELSE f[i - 1]]

LEMMA FrontValue ==
  ASSUME NEW f, NEW messages, NEW s, NEW k \in Nat, IsFront(f, messages, s, k),
         NEW i \in 0 .. k
  PROVE  f[i] = IF i = 0 THEN <<>>
                ELSE IF messages[i].from = s THEN Append(f[i - 1], messages[i].msg)
                ELSE f[i - 1]
BY DEF IsFront

LEMMA FrontExists ==
  ASSUME NEW n \in Nat, NEW messages, NEW s
  PROVE  \E f : IsFront(f, messages, s, n)
<1>. DEFINE T == {k \in 0 .. n : ~ \E f : IsFront(f, messages, s, k)}
<1>. SUFFICES ASSUME T # {} PROVE FALSE
  <2>1. n \notin T
    OBVIOUS
  <2>. QED
    BY <2>1
<1>1. T \in SUBSET Nat
  OBVIOUS
<1>2. PICK k \in T : \A y \in T : k <= y
  <2>. HIDE DEF T
  <2>. QED
    BY <1>1, NatLeast
<1>3. k # 0
  <2>1. IsFront([i \in 0 .. 0 |-> <<>>], messages, s, 0)
    BY DEF IsFront
  <2>. QED
    BY <2>1
<1>4. PICK f : IsFront(f, messages, s, k - 1)
  BY <1>2, <1>3
<1>. DEFINE last == IF messages[k].from = s THEN Append(f[k - 1], messages[k].msg)
                    ELSE f[k - 1]
            g == [i \in 0 .. k |-> IF i = k THEN last ELSE f[i]]
<1>5. IsFront(g, messages, s, k)
  <2>1. ASSUME NEW i \in 0 .. k
        PROVE  g[i] = IF i = 0 THEN <<>>
                      ELSE IF messages[i].from = s THEN Append(g[i - 1], messages[i].msg)
                      ELSE g[i - 1]
    <3>1. i < k => f[i] = IF i = 0 THEN <<>>
                          ELSE IF messages[i].from = s THEN Append(f[i - 1], messages[i].msg)
                          ELSE f[i - 1]
      <4>1. i < k => i \in 0 .. k - 1
        OBVIOUS
      <4>2. k - 1 \in Nat
        BY <1>3
      <4>. QED
        BY <1>4, <4>1, <4>2, FrontValue
    <3>2. i # 0 => i - 1 \in 0 .. k /\ i - 1 # k /\ g[i - 1] = f[i - 1]
      OBVIOUS
    <3>. QED
      BY <1>3, <3>1, <3>2
  <2>. QED
    BY <2>1 DEF IsFront
<1>. QED
  BY <1>5

\* Two such functions agree as far as the messages do.
LEMMA FrontsAgree ==
  ASSUME NEW m, NEW n, NEW s, NEW f, NEW g, NEW k \in Nat, NEW l \in Nat, NEW j \in Nat,
         IsFront(f, m, s, k), IsFront(g, n, s, l), j <= k, j <= l,
         \A i \in 1 .. j : m[i] = n[i]
  PROVE  f[j] = g[j]
<1>. DEFINE T == {i \in 0 .. j : f[i] # g[i]}
<1>. SUFFICES ASSUME T # {} PROVE FALSE
  <2>1. j \in 0 .. j
    OBVIOUS
  <2>. QED
    BY <2>1
<1>1. T \in SUBSET Nat
  OBVIOUS
<1>2. PICK i \in T : \A y \in T : i <= y
  <2>. HIDE DEF T
  <2>. QED
    BY <1>1, NatLeast
<1>3. i # 0
  BY <1>2 DEF IsFront
<1>4. i - 1 \in 0 .. j /\ f[i - 1] = g[i - 1]
  BY <1>2, <1>3
<1>5. m[i] = n[i] /\ i \in 0 .. k /\ i \in 0 .. l
  BY <1>3
<1>6. f[i] = IF m[i].from = s THEN Append(f[i - 1], m[i].msg) ELSE f[i - 1]
  BY <1>3, <1>5 DEF IsFront
<1>7. g[i] = IF n[i].from = s THEN Append(g[i - 1], n[i].msg) ELSE g[i - 1]
  BY <1>3, <1>5 DEF IsFront
<1>. QED
  BY <1>4, <1>5, <1>6, <1>7

LEMMA FromSenderIsFront ==
  ASSUME NEW m \in Seq(Messages), NEW s
  PROVE  \E f : IsFront(f, m, s, Len(m)) /\ FromSender(m, s) = f[Len(m)]
<1>1. Len(m) \in Nat
  OBVIOUS
<1>. DEFINE f == CHOOSE f : IsFront(f, m, s, Len(m))
<1>2. IsFront(f, m, s, Len(m))
  BY <1>1, FrontExists
<1>3. FromSender(m, s) = f[Len(m)]
  BY DEF FromSender, IsFront
<1>. QED
  BY <1>2, <1>3

LEMMA FromSenderOfNone ==
  ASSUME NEW s PROVE FromSender(<<>>, s) = <<>>
<1>1. <<>> \in Seq(Messages) /\ Len(<<>>) = 0
  OBVIOUS
<1>2. PICK f : IsFront(f, <<>>, s, 0) /\ FromSender(<<>>, s) = f[0]
  BY <1>1, FromSenderIsFront
<1>. QED
  BY <1>2 DEF IsFront

\* One more message at the end
LEMMA FromSenderOfAppend ==
  ASSUME NEW m \in Seq(Messages), NEW x \in Messages, NEW s
  PROVE  FromSender(Append(m, x), s) =
           IF x.from = s THEN Append(FromSender(m, s), x.msg) ELSE FromSender(m, s)
<1>. DEFINE n == Append(m, x)
            l == Len(m)
<1>1. n \in Seq(Messages) /\ Len(n) = l + 1 /\ l \in Nat /\ n[l + 1] = x
      /\ \A i \in 1 .. l : n[i] = m[i]
  OBVIOUS
<1>2. PICK f : IsFront(f, m, s, l) /\ FromSender(m, s) = f[l]
  BY FromSenderIsFront
<1>. HIDE DEF n, l
<1>3. PICK g : IsFront(g, n, s, l + 1) /\ FromSender(n, s) = g[l + 1]
  BY <1>1, FromSenderIsFront
<1>4. f[l] = g[l]
  BY <1>1, <1>2, <1>3, FrontsAgree
<1>5. g[l + 1] = IF x.from = s THEN Append(g[l], x.msg) ELSE g[l]
  <2>1. l + 1 \in Nat /\ l + 1 \in 0 .. l + 1 /\ l + 1 # 0 /\ (l + 1) - 1 = l
    BY <1>1
  <2>. DEFINE j == l + 1
  <2>. HIDE DEF j
  <2>2. g[j] = IF n[j].from = s THEN Append(g[j - 1], n[j].msg) ELSE g[j - 1]
    BY <1>3, <2>1, FrontValue DEF j
  <2>. QED
    BY <1>1, <2>1, <2>2 DEF j
<1>. QED
  BY <1>2, <1>3, <1>4, <1>5 DEF n

LEMMA FrontIsSequence ==
  ASSUME NEW m \in Seq(Messages), NEW s, NEW f, IsFront(f, m, s, Len(m)),
         NEW j \in 0 .. Len(m)
  PROVE  f[j] \in Seq(Nat)
<1>. DEFINE Ok(i) == f[i] \in Seq(Nat)
            T == {i \in 0 .. Len(m) : ~Ok(i)}
<1>1. Len(m) \in Nat
  OBVIOUS
<1>2. Ok(0)
  <2>1. f[0] = <<>>
    BY <1>1, FrontValue
  <2>. QED
    BY <2>1
<1>3. ASSUME NEW i \in 1 .. Len(m), Ok(i - 1) PROVE Ok(i)
  <2>1. f[i] = IF m[i].from = s THEN Append(f[i - 1], m[i].msg) ELSE f[i - 1]
    BY <1>1, FrontValue
  <2>2. m[i].msg \in Nat
    <3>1. m[i] \in Messages
      OBVIOUS
    <3>. QED
      BY <3>1 DEF Messages
  <2>. QED
    BY <1>3, <2>1, <2>2
<1>. HIDE DEF Ok
<1>4. T = {}
  <2>. SUFFICES ASSUME T # {} PROVE FALSE
    OBVIOUS
  <2>1. T \in SUBSET Nat
    BY <1>1
  <2>2. PICK i \in T : \A y \in T : i <= y
    <3>. HIDE DEF T
    <3>. QED
      BY <2>1, NatLeast
  <2>3. i \in 1 .. Len(m) /\ i - 1 \in 0 .. Len(m)
    BY <1>1, <1>2
  <2>4. Ok(i - 1)
    BY <2>2, <2>3
  <2>. QED
    BY <1>3, <2>3, <2>4
<1>. QED
  BY <1>4 DEF Ok

LEMMA FromSenderType ==
  ASSUME NEW m \in Seq(Messages), NEW s
  PROVE  FromSender(m, s) \in Seq(Nat)
<1>1. PICK f : IsFront(f, m, s, Len(m)) /\ FromSender(m, s) = f[Len(m)]
  BY FromSenderIsFront
<1>2. Len(m) \in 0 .. Len(m)
  OBVIOUS
<1>. QED
  BY <1>1, <1>2, FrontIsSequence

LEMMA ConcatAppend ==
  ASSUME NEW a \in Seq(Nat), NEW b \in Seq(Nat), NEW x \in Nat
  PROVE  a \o Append(b, x) = Append(a \o b, x)
OBVIOUS

LEMMA PassOn ==
  ASSUME NEW f \in Seq(Nat), NEW w \in Seq(Nat), NEW m \in Nat
  PROVE  /\ Append(f, m) \o w = f \o (<<m>> \o w)
         /\ (<<m>> \o f) \o w = <<m>> \o (f \o w)
<1>1. <<m>> \in Seq(Nat)
  OBVIOUS
<1>2. Append(f, m) = f \o <<m>>
  BY AppendIsConcat
<1>. QED
  BY <1>1, <1>2, ConcatAssociative

\* The first message taken off
LEMMA FromSenderOfHead ==
  ASSUME NEW m \in Seq(Messages), m # <<>>, NEW s
  PROVE  FromSender(m, s) =
           (IF Head(m).from = s THEN <<Head(m).msg>> ELSE <<>>) \o FromSender(Tail(m), s)
<1>. DEFINE t == Tail(m)
            l == Len(m)
            x == Head(m)
            first == IF x.from = s THEN <<x.msg>> ELSE <<>>
<1>1. /\ t \in Seq(Messages) /\ Len(t) = l - 1 /\ l \in Nat \ {0} /\ x = m[1]
      /\ x \in Messages
      /\ \A i \in 1 .. l - 1 : t[i] = m[i + 1]
  OBVIOUS
<1>2. first \in Seq(Nat) /\ x.msg \in Nat
  BY <1>1 DEF Messages
<1>3. PICK f : IsFront(f, m, s, l) /\ FromSender(m, s) = f[l]
  BY FromSenderIsFront
<1>4. PICK g : IsFront(g, t, s, l - 1) /\ FromSender(t, s) = g[l - 1]
  BY <1>1, FromSenderIsFront
<1>5. \A i \in 0 .. l : f[i] \in Seq(Nat)
  BY <1>3, FrontIsSequence
<1>6. \A i \in 0 .. l - 1 : g[i] \in Seq(Nat)
  BY <1>1, <1>4, FrontIsSequence
<1>. HIDE DEF t, l, x
<1>7. l - 1 \in Nat /\ l \in Nat
  BY <1>1
<1>8. f[0] = <<>> /\ g[0] = <<>>
  BY <1>3, <1>4, <1>7, FrontValue
<1>9. f[1] = first
  <2>1. f[1] = IF m[1].from = s THEN Append(f[1 - 1], m[1].msg) ELSE f[1 - 1]
    <3>1. 1 \in 0 .. l /\ 1 # 0
      BY <1>1
    <3>. QED
      BY <1>3, <1>7, <3>1, FrontValue
  <2>2. f[1 - 1] = <<>> /\ m[1] = x
    BY <1>1, <1>8
  <2>3. Append(<<>>, x.msg) = <<x.msg>>
    OBVIOUS
  <2>. QED
    BY <2>1, <2>2, <2>3
<1>. HIDE DEF first
<1>. DEFINE Ok(i) == f[i + 1] = first \o g[i]
            T == {i \in 0 .. l - 1 : ~Ok(i)}
<1>10. Ok(0)
  BY <1>2, <1>8, <1>9
<1>11. ASSUME NEW i \in 1 .. l - 1, NEW j \in 0 .. l - 1, j = i - 1, Ok(j) PROVE Ok(i)
  <2>1. j + 1 = i
    BY <1>11
  <2>2. f[i] = first \o g[j]
    BY <1>11, <2>1
  <2>3. t[i] = m[i + 1] /\ t[i] \in Messages
    BY <1>1
  <2>4. g[i] = IF t[i].from = s THEN Append(g[j], t[i].msg) ELSE g[j]
    BY <1>4, <1>7, <1>11, FrontValue
  <2>5. f[i + 1] = IF m[i + 1].from = s THEN Append(f[i], m[i + 1].msg) ELSE f[i]
    <3>1. i + 1 \in 0 .. l /\ i + 1 # 0 /\ (i + 1) - 1 = i
      BY <1>7
    <3>. DEFINE k == i + 1
    <3>. HIDE DEF k
    <3>2. f[k] = IF m[k].from = s THEN Append(f[k - 1], m[k].msg) ELSE f[k - 1]
      BY <1>3, <1>7, <3>1, FrontValue DEF k
    <3>. QED
      BY <3>1, <3>2 DEF k
  <2>6. g[j] \in Seq(Nat) /\ t[i].msg \in Nat
    BY <1>6, <2>3 DEF Messages
  <2>7. first \o Append(g[j], t[i].msg) = Append(first \o g[j], t[i].msg)
    BY <1>2, <2>6, ConcatAppend
  <2>. QED
    BY <2>2, <2>3, <2>4, <2>5, <2>7
<1>. HIDE DEF Ok
<1>12. T = {}
  <2>. SUFFICES ASSUME T # {} PROVE FALSE
    OBVIOUS
  <2>1. T \in SUBSET Nat
    BY <1>7
  <2>2. PICK i \in T : \A y \in T : i <= y
    <3>. HIDE DEF T
    <3>. QED
      BY <2>1, NatLeast
  <2>3. i \in 1 .. l - 1 /\ i - 1 \in 0 .. l - 1
    BY <1>7, <1>10
  <2>4. Ok(i - 1)
    BY <2>2, <2>3
  <2>. QED
    BY <1>11, <2>3, <2>4
<1>13. f[l] = first \o g[l - 1]
  <2>. DEFINE i == l - 1
  <2>1. i \in 0 .. l - 1 /\ i + 1 = l
    BY <1>7
  <2>2. Ok(i)
    BY <1>12, <2>1
  <2>. QED
    BY <2>1, <2>2 DEF Ok
<1>. QED
  BY <1>3, <1>4, <1>13 DEF t, x, first

-----------------------------------------------------------------------------
(* The refinement of Mailbox.                                              *)

StatusOf  == [p \in Parties |-> Status(p)]
ChannelOf == [s \in Parties |-> [p \in Parties |-> UnderWay(s, p)]]

\* Nothing is in the queue of a party that has not been initialized.
BoxInv == CommInv /\ \A p \in Parties : owner[p] = "new" => queue[p] = <<>>

LEMMA InsideType ==
  ASSUME TypeOK, NEW p \in Parties, NEW s \in Parties
  PROVE  /\ queue[p] \in Seq(Messages) /\ held[p] \in Seq(Messages)
         /\ queue[p] \o held[p] \in Seq(Messages)
         /\ FromSender(queue[p] \o held[p], s) \in Seq(Nat)
         /\ wire[s][p] \in Seq(Nat) /\ UnderWay(s, p) \in Seq(Nat)
<1>1. /\ queue[p] \in Seq(Messages) /\ held[p] \in Seq(Messages)
      /\ wire[s][p] \in Seq(Nat)
  <2>1. queue[p] \in Seq(Messages) /\ held[p] \in Seq(Messages)
    BY DEF TypeOK, Messages
  <2>2. wire[s][p] \in Seq(Nat)
    BY DEF TypeOK
  <2>. QED
    BY <2>1, <2>2
<1>2. queue[p] \o held[p] \in Seq(Messages)
  BY <1>1, ConcatProperties
<1>3. FromSender(queue[p] \o held[p], s) \in Seq(Nat)
  BY <1>2, FromSenderType
<1>4. UnderWay(s, p) \in Seq(Nat)
  BY <1>1, <1>3, ConcatProperties DEF UnderWay
<1>. QED
  BY <1>1, <1>2, <1>3, <1>4

\* With nothing in its hands, what the thread has is what the queue holds.
LEMMA ConcatEmpty ==
  ASSUME NEW S, NEW m \in Seq(S)
  PROVE  m \o <<>> = m /\ <<>> \o m = m
BY ConcatEmptySeq

LEMMA HeldFacts ==
  ASSUME TypeOK, NEW p \in Parties
  PROVE  /\ receiver[p] # "handle" => held[p] = <<>>
         /\ receiver[p] = "handle" =>
              \E x \in Messages : held[p] = <<x>>
<1>1. held[p] \in Seq(Messages) /\ Len(held[p]) = IF receiver[p] = "handle" THEN 1 ELSE 0
  BY DEF TypeOK, Messages
<1>2. CASE receiver[p] # "handle"
  <2>1. Len(held[p]) = 0
    BY <1>1, <1>2
  <2>2. held[p] = <<>>
    BY <1>1, <2>1, EmptySeq
  <2>. QED
    BY <1>2, <2>2
<1>3. CASE receiver[p] = "handle"
  <2>1. Len(held[p]) = 1
    BY <1>1, <1>3
  <2>2. held[p][1] \in Messages /\ held[p] = <<held[p][1]>>
    BY <1>1, <2>1
  <2>. QED
    BY <1>3, <2>2
<1>. QED
  BY <1>2, <1>3

\* A step that nobody outside sees
LEMMA BoxStutter ==
  ASSUME \A p \in Parties : Status(p)' = Status(p),
         \A s, p \in Parties : UnderWay(s, p)' = UnderWay(s, p),
         delivered' = delivered
  PROVE  UNCHANGED <<StatusOf, ChannelOf, delivered>>
BY DEF StatusOf, ChannelOf

\* The first message that is under way from its sender is given to p.
LEMMA BoxDeliver ==
  ASSUME TypeOK, UNCHANGED owner, NEW p \in Parties, owner[p] # "new",
         NEW x \in Messages, NEW rest \in Seq(Nat),
         UnderWay(x.from, p) = <<x.msg>> \o rest, UnderWay(x.from, p)' = rest,
         \A s, q \in Parties : s # x.from \/ q # p => UnderWay(s, q)' = UnderWay(s, q),
         delivered' = [delivered EXCEPT ![p] = Append(@, x)]
  PROVE  Box!Deliver(x.from, p)
<1>. DEFINE s == x.from
<1>1. s \in Parties /\ x.msg \in Nat /\ x = [from |-> s, msg |-> x.msg]
  BY DEF Messages
<1>2. ChannelOf[s][p] = <<x.msg>> \o rest
  BY <1>1 DEF ChannelOf
<1>3. Head(ChannelOf[s][p]) = x.msg /\ Tail(ChannelOf[s][p]) = rest /\ ChannelOf[s][p] # <<>>
  BY <1>1, <1>2
<1>4. UNCHANGED StatusOf
  BY DEF StatusOf, Status
<1>5. StatusOf[p] # "new"
  BY DEF StatusOf, Status
<1>6. ChannelOf' = [ChannelOf EXCEPT ![s][p] = rest]
  BY <1>1 DEF ChannelOf
<1>. QED
  BY <1>1, <1>3, <1>4, <1>5, <1>6 DEF Box!Deliver, StatusOf, ChannelOf

\* The receiver thread takes the front of a channel into its hands.
LEMMA RouterReceiveIsHidden ==
  ASSUME TypeOK, NEW p \in Parties, NEW s \in Parties, RouterReceive(p, s)
  PROVE  UNCHANGED <<StatusOf, ChannelOf, delivered>>
<1>. DEFINE m == Head(wire[s][p])
            x == [from |-> s, msg |-> m]
<1>1. /\ receiver[p] = "recv" /\ wire[s][p] # <<>>
      /\ held' = [held EXCEPT ![p] = <<x>>] /\ wire' = [wire EXCEPT ![s][p] = Tail(@)]
      /\ UNCHANGED <<owner, queue, delivered>>
  BY DEF RouterReceive
<1>2. wire[s][p] \in Seq(Nat) /\ queue[p] \in Seq(Messages)
  BY InsideType
<1>3. m \in Nat /\ Tail(wire[s][p]) \in Seq(Nat) /\ wire[s][p] = <<m>> \o Tail(wire[s][p])
  BY <1>1, <1>2
<1>4. x \in Messages /\ x.from = s /\ x.msg = m
  BY <1>3 DEF Messages
<1>5. held[p] = <<>> /\ held'[p] = <<x>> /\ queue'[p] = queue[p]
  BY <1>1, HeldFacts DEF TypeOK
<1>6. wire'[s][p] = Tail(wire[s][p])
      /\ \A r, q \in Parties : r # s \/ q # p => wire'[r][q] = wire[r][q]
  BY <1>1 DEF TypeOK
<1>. HIDE DEF m, x
<1>7. queue[p] \o held[p] = queue[p] /\ queue'[p] \o held'[p] = Append(queue[p], x)
  BY <1>2, <1>4, <1>5, ConcatEmpty
<1>8. ASSUME NEW r \in Parties, NEW q \in Parties PROVE UnderWay(r, q)' = UnderWay(r, q)
  <2>1. CASE q # p
    <3>1. held'[q] = held[q] /\ queue'[q] = queue[q] /\ wire'[r][q] = wire[r][q]
      BY <1>1, <1>6, <2>1 DEF TypeOK
    <3>. QED
      BY <3>1 DEF UnderWay
  <2>2. CASE q = p /\ r # s
    <3>1. FromSender(Append(queue[p], x), r) = FromSender(queue[p], r)
      BY <1>2, <1>4, <2>2, FromSenderOfAppend
    <3>. QED
      BY <1>6, <1>7, <2>2, <3>1 DEF UnderWay
  <2>3. CASE q = p /\ r = s
    <3>. DEFINE f == FromSender(queue[p], s)
    <3>1. FromSender(Append(queue[p], x), s) = Append(f, m)
      BY <1>2, <1>4, FromSenderOfAppend
    <3>2. f \in Seq(Nat)
      BY <1>2, FromSenderType
    <3>3. UnderWay(s, p) = f \o wire[s][p] /\ UnderWay(s, p)' = Append(f, m) \o Tail(wire[s][p])
      BY <1>6, <1>7, <3>1 DEF UnderWay
    <3>. HIDE DEF f
    <3>4. Append(f, m) \o Tail(wire[s][p]) = f \o (<<m>> \o Tail(wire[s][p]))
      BY <1>3, <3>2, PassOn
    <3>. QED
      BY <1>3, <2>3, <3>3, <3>4
  <2>. QED
    BY <2>1, <2>2, <2>3
<1>9. \A q \in Parties : Status(q)' = Status(q)
  BY <1>1 DEF Status
<1>. QED
  BY <1>1, <1>8, <1>9, BoxStutter

\* A message that goes into the queue stays under way.
LEMMA EnqueueIsHidden ==
  ASSUME TypeOK, NEW p \in Parties, Enqueue(p)
  PROVE  UNCHANGED <<StatusOf, ChannelOf, delivered>>
<1>1. /\ queue' = [queue EXCEPT ![p] = @ \o held[p]] /\ held' = [held EXCEPT ![p] = <<>>]
      /\ UNCHANGED <<wire, owner, delivered>>
  BY DEF Enqueue, PutIntoQueue
<1>2. queue[p] \o held[p] \in Seq(Messages)
  BY InsideType
<1>3. queue'[p] \o held'[p] = queue[p] \o held[p]
  <2>1. queue'[p] = queue[p] \o held[p] /\ held'[p] = <<>>
    BY <1>1 DEF TypeOK
  <2>. QED
    BY <1>2, <2>1, ConcatEmpty
<1>4. \A q \in Parties \ {p} : queue'[q] = queue[q] /\ held'[q] = held[q]
  BY <1>1 DEF TypeOK
<1>5. \A s, q \in Parties : UnderWay(s, q)' = UnderWay(s, q)
  BY <1>1, <1>3, <1>4 DEF UnderWay
<1>6. \A q \in Parties : Status(q)' = Status(q)
  BY <1>1 DEF Status
<1>. QED
  BY <1>1, <1>5, <1>6, BoxStutter

\* What is taken off the front of a party's messages is what was first under
\* way from its sender, and from nobody else.
LEMMA TakenFromFront ==
  ASSUME NEW a \in Seq(Messages), a # <<>>, NEW s
  PROVE  /\ s = Head(a).from => FromSender(a, s) = <<Head(a).msg>> \o FromSender(Tail(a), s)
         /\ s # Head(a).from => FromSender(a, s) = FromSender(Tail(a), s)
<1>1. Tail(a) \in Seq(Messages)
  OBVIOUS
<1>2. FromSender(Tail(a), s) \in Seq(Nat)
  BY <1>1, FromSenderType
<1>3. <<>> \o FromSender(Tail(a), s) = FromSender(Tail(a), s)
  BY <1>2, ConcatEmpty
<1>. QED
  BY <1>3, FromSenderOfHead

\* p is given the first of what its queue and its thread hold.
LEMMA FrontIsDelivered ==
  ASSUME TypeOK, UNCHANGED <<owner, wire>>, NEW p \in Parties, owner[p] # "new",
         NEW a \in Seq(Messages), a = queue[p] \o held[p], a # <<>>,
         queue'[p] \o held'[p] = Tail(a),
         \A q \in Parties \ {p} : queue'[q] = queue[q] /\ held'[q] = held[q],
         delivered' = [delivered EXCEPT ![p] = Append(@, Head(a))]
  PROVE  Box!Deliver(Head(a).from, p)
<1>. DEFINE x == Head(a)
            s == x.from
            rest == FromSender(Tail(a), s) \o wire[s][p]
<1>1. x \in Messages /\ Tail(a) \in Seq(Messages)
  BY FrontType
<1>2. s \in Parties /\ x.msg \in Nat
  BY <1>1 DEF Messages
<1>3. FromSender(Tail(a), s) \in Seq(Nat) /\ wire[s][p] \in Seq(Nat)
  BY <1>1, <1>2, FromSenderType, InsideType
<1>4. rest \in Seq(Nat)
  BY <1>3, ConcatProperties
<1>5. UnderWay(s, p) = <<x.msg>> \o rest
  <2>1. UnderWay(s, p) = (<<x.msg>> \o FromSender(Tail(a), s)) \o wire[s][p]
    BY TakenFromFront DEF UnderWay
  <2>. DEFINE f == FromSender(Tail(a), s)
              w == wire[s][p]
  <2>. HIDE DEF f, w, x
  <2>2. (<<x.msg>> \o f) \o w = <<x.msg>> \o (f \o w)
    BY <1>2, <1>3, PassOn DEF f, w
  <2>. QED
    BY <2>1, <2>2 DEF f, w
<1>6. UnderWay(s, p)' = rest
  BY DEF UnderWay
<1>7. ASSUME NEW r \in Parties, NEW q \in Parties, r # s \/ q # p
      PROVE  UnderWay(r, q)' = UnderWay(r, q)
  <2>1. CASE q # p
    BY <2>1 DEF UnderWay
  <2>2. CASE q = p
    <3>1. FromSender(a, r) = FromSender(Tail(a), r)
      BY <1>7, <2>2, TakenFromFront
    <3>. QED
      BY <2>2, <3>1 DEF UnderWay
  <2>. QED
    BY <2>1, <2>2
<1>. HIDE DEF rest
<1>8. delivered' = [delivered EXCEPT ![p] = Append(@, x)]
  OBVIOUS
<1>. HIDE DEF x
<1>9. Box!Deliver(s, p)
  BY <1>1, <1>4, <1>5, <1>6, <1>7, <1>8, BoxDeliver
<1>. QED
  BY <1>9 DEF x

LEMMA CallHandlerDelivers ==
  ASSUME CommInv, NEW p \in Parties, CallHandler(p)
  PROVE  \E s \in Parties : Box!Deliver(s, p)
<1>1. /\ handler[p] /\ receiver[p] = "handle"
      /\ delivered' = [delivered EXCEPT ![p] = @ \o held[p]]
      /\ held' = [held EXCEPT ![p] = <<>>]
      /\ UNCHANGED <<wire, owner, queue>>
  BY DEF CallHandler, GiveToHandler
<1>2. TypeOK /\ queue[p] = <<>> /\ owner[p] # "new"
  BY <1>1 DEF CommInv, PartyInv
<1>3. PICK x \in Messages : held[p] = <<x>>
  BY <1>1, <1>2, HeldFacts
<1>. DEFINE a == <<x>>
<1>4. a \in Seq(Messages) /\ a # <<>> /\ Head(a) = x /\ Tail(a) = <<>>
  OBVIOUS
<1>5. a = queue[p] \o held[p]
  BY <1>2, <1>3, <1>4, ConcatEmpty
<1>6. queue'[p] \o held'[p] = Tail(a)
  <2>1. queue'[p] = <<>> /\ held'[p] = <<>>
    BY <1>1, <1>2 DEF TypeOK
  <2>. QED
    BY <1>4, <2>1, ConcatEmpty
<1>7. \A q \in Parties \ {p} : queue'[q] = queue[q] /\ held'[q] = held[q]
  BY <1>1, <1>2 DEF TypeOK
<1>8. delivered' = [delivered EXCEPT ![p] = Append(@, Head(a))]
  <2>1. delivered[p] \in Seq(Messages)
    BY <1>2 DEF TypeOK, Messages
  <2>2. Append(delivered[p], x) = delivered[p] \o <<x>>
    BY <2>1, AppendIsConcat
  <2>. QED
    BY <1>1, <1>3, <1>4, <2>2
<1>9. Box!Deliver(Head(a).from, p)
  <2>. HIDE DEF a
  <2>. QED
    BY <1>1, <1>2, <1>4, <1>5, <1>6, <1>7, <1>8, FrontIsDelivered
<1>. QED
  BY <1>4, <1>9 DEF Messages

LEMMA TakeDelivers ==
  ASSUME TypeOK, NEW p \in Parties, NEW c \in Callers[p], Take(p, c),
         UNCHANGED <<wire, owner, held>>, owner[p] # "new"
  PROVE  \E s \in Parties : Box!Deliver(s, p)
<1>1. /\ queue[p] # <<>>
      /\ delivered' = [delivered EXCEPT ![p] = Append(@, Head(queue[p]))]
      /\ queue' = [queue EXCEPT ![p] = Tail(@)]
  BY DEF Take
<1>2. queue[p] \in Seq(Messages) /\ held[p] \in Seq(Messages)
  <2>. PICK s \in Parties : TRUE
    OBVIOUS
  <2>. QED
    BY InsideType
<1>. DEFINE q == queue[p]
            h == held[p]
            a == q \o h
<1>. HIDE DEF q, h
<1>3. /\ a \in Seq(Messages) /\ a # <<>>
      /\ Head(a) = Head(q) /\ Tail(a) = Tail(q) \o h /\ Head(q) \in Messages
  <2>1. q \in Seq(Messages) /\ h \in Seq(Messages) /\ q # <<>>
    BY <1>1, <1>2 DEF q, h
  <2>2. a \in Seq(Messages)
    BY <2>1, ConcatProperties
  <2>3. a # <<>>
    BY <2>1
  <2>4. Head(a) = Head(q) /\ Head(q) \in Messages
    BY <2>1
  <2>5. Tail(a) = Tail(q) \o h
    BY <2>1
  <2>. QED
    BY <2>2, <2>3, <2>4, <2>5
<1>4. queue'[p] \o held'[p] = Tail(a)
  <2>1. queue'[p] = Tail(q) /\ held'[p] = h
    BY <1>1 DEF TypeOK, q, h
  <2>. QED
    BY <1>3, <2>1
<1>5. \A r \in Parties \ {p} : queue'[r] = queue[r] /\ held'[r] = held[r]
  BY <1>1 DEF TypeOK
<1>6. delivered' = [delivered EXCEPT ![p] = Append(@, Head(a))]
  BY <1>1, <1>3 DEF q
<1>7. a = queue[p] \o held[p]
  BY DEF q, h
<1>. HIDE DEF a
<1>8. Box!Deliver(Head(a).from, p)
  BY <1>3, <1>4, <1>5, <1>6, <1>7, FrontIsDelivered
<1>. QED
  BY <1>3, <1>8 DEF Messages

LEMMA SendIsSeen ==
  ASSUME TypeOK, NEW p \in Parties, NEW q \in Parties, SendNext(p, q)
  PROVE  \E m \in UNION {1 .. Budget[r] : r \in Parties} : Box!Send(p, q, m)
<1>. DEFINE m == sent[p] + 1
<1>1. /\ sent[p] < Budget[p] /\ owner[p] = "up" /\ q # p
      /\ wire' = [wire EXCEPT ![p][q] = Append(@, m)]
      /\ UNCHANGED <<owner, queue, held, delivered>>
  BY DEF SendNext, Send
<1>2. m \in 1 .. Budget[p] /\ m \in Nat
  <2>1. sent[p] \in Nat /\ Budget[p] \in Nat
    BY CommAssumption DEF TypeOK
  <2>. QED
    BY <1>1, <2>1
<1>. HIDE DEF m
<1>3. /\ FromSender(queue[q] \o held[q], p) \in Seq(Nat) /\ wire[p][q] \in Seq(Nat)
  BY InsideType
<1>4. wire'[p][q] = Append(wire[p][q], m)
      /\ \A r, s \in Parties : r # p \/ s # q => wire'[r][s] = wire[r][s]
  BY <1>1 DEF TypeOK
<1>5. UnderWay(p, q)' = Append(UnderWay(p, q), m)
  <2>. DEFINE f == FromSender(queue[q] \o held[q], p)
              w == wire[p][q]
  <2>1. UnderWay(p, q) = f \o w /\ UnderWay(p, q)' = f \o Append(w, m)
    BY <1>1, <1>4 DEF UnderWay
  <2>2. f \in Seq(Nat) /\ w \in Seq(Nat)
    BY <1>3
  <2>. HIDE DEF f, w
  <2>. QED
    BY <1>2, <2>1, <2>2, ConcatAppend
<1>6. \A r, s \in Parties : r # p \/ s # q => UnderWay(r, s)' = UnderWay(r, s)
  BY <1>1, <1>4 DEF UnderWay
<1>7. ChannelOf' = [ChannelOf EXCEPT ![p][q] = Append(@, m)]
  BY <1>5, <1>6 DEF ChannelOf
<1>8. UNCHANGED StatusOf /\ StatusOf[p] = "open"
  BY <1>1 DEF StatusOf, Status
<1>9. Box!Send(p, q, m)
  BY <1>1, <1>7, <1>8 DEF Box!Send, StatusOf, ChannelOf
<1>. QED
  BY <1>2, <1>9

\* The first n elements of a sequence.
LEMMA PrefixFacts ==
  ASSUME NEW s \in Seq(Nat), NEW n \in 0 .. Len(s)
  PROVE  /\ SubSeq(s, 1, n) \in Seq(Nat) /\ Len(SubSeq(s, 1, n)) = n
         /\ \A k \in 1 .. n : SubSeq(s, 1, n)[k] = s[k]
<1>1. \A k \in 1 .. n : s[k] \in Nat
  OBVIOUS
<1>2. n \in Int /\ 1 \in Int /\ n - 1 + 1 = n /\ n \in Nat
  OBVIOUS
<1>3. /\ SubSeq(s, 1, n) \in Seq(Nat)
      /\ Len(SubSeq(s, 1, n)) = IF 1 <= n THEN n - 1 + 1 ELSE 0
      /\ \A k \in 1 .. n - 1 + 1 : SubSeq(s, 1, n)[k] = s[1 + k - 1]
  BY <1>1, <1>2, SubSeqProperties
<1>. QED
  BY <1>2, <1>3

\* To lose the end of what is in the socket is to lose the end of what is
\* under way.
LEMMA KeptOfChannel ==
  ASSUME NEW i \in Seq(Nat), NEW w \in Seq(Nat), NEW j \in 0 .. Len(w)
  PROVE  /\ i \o SubSeq(w, 1, j) = SubSeq(i \o w, 1, Len(i) + j)
         /\ Len(i) + j \in 0 .. Len(i \o w)
<1>1. SubSeq(w, 1, j) \in Seq(Nat) /\ Len(SubSeq(w, 1, j)) = j
      /\ \A k \in 1 .. j : SubSeq(w, 1, j)[k] = w[k]
  BY PrefixFacts
<1>2. i \o w \in Seq(Nat) /\ Len(i \o w) = Len(i) + Len(w) /\ Len(i) \in Nat /\ Len(w) \in Nat
  OBVIOUS
<1>. DEFINE a == i \o SubSeq(w, 1, j)
            b == SubSeq(i \o w, 1, Len(i) + j)
<1>3. a \in Seq(Nat) /\ Len(a) = Len(i) + j
  BY <1>1
<1>4. /\ b \in Seq(Nat) /\ Len(b) = Len(i) + j
      /\ \A k \in 1 .. Len(i) + j : b[k] = (i \o w)[k]
  <2>1. Len(i) + j \in 0 .. Len(i \o w)
    BY <1>2
  <2>. QED
    BY <1>2, <2>1, PrefixFacts
<1>5. ASSUME NEW k \in 1 .. Len(i) + j PROVE a[k] = b[k]
  <2>1. b[k] = (i \o w)[k]
    BY <1>4
  <2>2. CASE k <= Len(i)
    <3>1. a[k] = i[k] /\ (i \o w)[k] = i[k]
      BY <1>1, <1>2, <2>2
    <3>. QED
      BY <2>1, <3>1
  <2>3. CASE k > Len(i)
    <3>1. k - Len(i) \in 1 .. j
      BY <1>2, <2>3
    <3>2. a[k] = SubSeq(w, 1, j)[k - Len(i)] /\ (i \o w)[k] = w[k - Len(i)]
      BY <1>1, <1>2, <2>3
    <3>. QED
      BY <1>1, <2>1, <3>1, <3>2
  <2>. QED
    BY <1>2, <2>2, <2>3
<1>. HIDE DEF a, b
<1>6. a = b
  BY <1>3, <1>4, <1>5, SeqEqual
<1>. QED
  BY <1>2, <1>6 DEF a, b

LEMMA CloseIsSeen ==
  ASSUME TypeOK, NEW p \in Parties, Close(p)
  PROVE  Box!Close(p)
<1>1. PICK kept \in [Parties -> UNION {Kept(wire[p][q]) : q \in Parties}] :
        /\ \A q \in Parties : kept[q] \in Kept(wire[p][q])
        /\ wire' = [wire EXCEPT ![p] = kept]
  BY DEF Close
<1>2. /\ owner[p] = "joining" /\ owner' = [owner EXCEPT ![p] = "off"]
      /\ UNCHANGED <<queue, held, delivered>>
  BY DEF Close
<1>3. StatusOf[p] = "open" /\ StatusOf' = [StatusOf EXCEPT ![p] = "closed"]
  <2>1. owner'[p] = "off" /\ \A q \in Parties \ {p} : owner'[q] = owner[q]
    BY <1>2 DEF TypeOK
  <2>2. Status(p)' = "closed" /\ Status(p) = "open"
    BY <1>2, <2>1 DEF Status
  <2>3. \A q \in Parties \ {p} : Status(q)' = Status(q)
    BY <2>1 DEF Status
  <2>. QED
    BY <2>2, <2>3 DEF StatusOf
<1>4. ASSUME NEW r \in Parties, NEW q \in Parties
      PROVE  \E k \in 0 .. Len(UnderWay(r, q)) :
               /\ UnderWay(r, q)' = SubSeq(UnderWay(r, q), 1, k)
               /\ r # p => k = Len(UnderWay(r, q))
  <2>. DEFINE i == FromSender(queue[q] \o held[q], r)
              w == wire[r][q]
  <2>1. i \in Seq(Nat) /\ w \in Seq(Nat) /\ UnderWay(r, q) \in Seq(Nat)
    BY InsideType
  <2>2. UnderWay(r, q) = i \o w /\ UnderWay(r, q)' = i \o wire'[r][q]
    BY <1>2 DEF UnderWay
  <2>3. CASE r # p
    <3>1. wire'[r][q] = w
      BY <1>1, <2>3 DEF TypeOK
    <3>2. Len(UnderWay(r, q)) \in 0 .. Len(UnderWay(r, q))
      BY <2>1
    <3>3. UnderWay(r, q)' = SubSeq(UnderWay(r, q), 1, Len(UnderWay(r, q)))
      <4>. DEFINE u == UnderWay(r, q)
      <4>1. UnderWay(r, q)' = u /\ u \in Seq(Nat)
        BY <2>1, <2>2, <3>1
      <4>. HIDE DEF u
      <4>2. SubSeq(u, 1, Len(u)) = u
        BY <4>1, SubSeqFull
      <4>. QED
        BY <4>1, <4>2 DEF u
    <3>. QED
      BY <3>2, <3>3
  <2>4. CASE r = p
    <3>1. wire'[r][q] = kept[q] /\ kept[q] \in Kept(w)
      BY <1>1, <2>4 DEF TypeOK
    <3>. HIDE DEF i, w
    <3>2. PICK j \in 0 .. Len(w) : kept[q] = SubSeq(w, 1, j)
      BY <3>1 DEF Kept
    <3>3. i \o SubSeq(w, 1, j) = SubSeq(i \o w, 1, Len(i) + j)
          /\ Len(i) + j \in 0 .. Len(i \o w)
      BY <2>1, KeptOfChannel
    <3>. QED
      BY <2>2, <2>4, <3>1, <3>2, <3>3
  <2>. QED
    BY <2>3, <2>4
<1>5. \A r, q \in Parties :
        ChannelOf[r][q] = UnderWay(r, q) /\ ChannelOf'[r][q] = UnderWay(r, q)'
  BY DEF ChannelOf
<1>6. \A r, q \in Parties :
        \E k \in 0 .. Len(ChannelOf[r][q]) :
          /\ ChannelOf'[r][q] = SubSeq(ChannelOf[r][q], 1, k)
          /\ r # p => k = Len(ChannelOf[r][q])
  <2>. SUFFICES ASSUME NEW r \in Parties, NEW q \in Parties
                PROVE  \E k \in 0 .. Len(ChannelOf[r][q]) :
                         /\ ChannelOf'[r][q] = SubSeq(ChannelOf[r][q], 1, k)
                         /\ r # p => k = Len(ChannelOf[r][q])
    OBVIOUS
  <2>1. PICK k \in 0 .. Len(UnderWay(r, q)) :
          /\ UnderWay(r, q)' = SubSeq(UnderWay(r, q), 1, k)
          /\ r # p => k = Len(UnderWay(r, q))
    BY <1>4
  <2>2. ChannelOf[r][q] = UnderWay(r, q) /\ ChannelOf'[r][q] = UnderWay(r, q)'
    BY <1>5
  <2>. HIDE DEF ChannelOf
  <2>. QED
    BY <2>1, <2>2
<1>. QED
  BY <1>2, <1>3, <1>6 DEF Box!Close, StatusOf, ChannelOf
\* A step that touches neither the statuses nor what is under way
LEMMA InnerStep ==
  ASSUME \A p \in Parties : Status(p)' = Status(p),
         UNCHANGED <<wire, held, queue, delivered>>
  PROVE  UNCHANGED <<StatusOf, ChannelOf, delivered>>
<1>1. \A s, p \in Parties : UnderWay(s, p)' = UnderWay(s, p)
  BY DEF UnderWay
<1>. QED
  BY <1>1, BoxStutter

LEMMA OwnerRefines ==
  ASSUME BoxInv, NEW p \in Parties, OwnerStep(p)
  PROVE  Box!Next \/ UNCHANGED <<StatusOf, ChannelOf, delivered>>
<1>1. TypeOK
  BY DEF BoxInv, CommInv
<1>2. CASE Initialize(p)
  <2>1. /\ owner[p] = "new" /\ owner' = [owner EXCEPT ![p] = "starting"]
        /\ UNCHANGED <<wire, held, queue, delivered>>
    BY <1>2 DEF Initialize
  <2>2. owner'[p] = "starting" /\ \A q \in Parties \ {p} : owner'[q] = owner[q]
    BY <1>1, <2>1 DEF TypeOK
  <2>3. /\ Status(p) = "new" /\ Status(p)' = "open"
        /\ \A q \in Parties \ {p} : Status(q)' = Status(q)
    BY <2>1, <2>2 DEF Status
  <2>4. StatusOf[p] = "new" /\ StatusOf' = [StatusOf EXCEPT ![p] = "open"]
    BY <2>3 DEF StatusOf
  <2>5. \A s, q \in Parties : UnderWay(s, q)' = UnderWay(s, q)
    BY <2>1 DEF UnderWay
  <2>6. UNCHANGED <<ChannelOf, delivered>>
    BY <2>1, <2>5 DEF ChannelOf
  <2>7. Box!Open(p)
    BY <2>4, <2>6 DEF Box!Open, StatusOf, ChannelOf
  <2>. QED
    BY <2>7 DEF Box!Next
<1>3. CASE BecomeReady(p) \/ StopRunning(p) \/ NotifyAll(p)
  <2>1. /\ UNCHANGED <<wire, held, queue, delivered>>
        /\ owner[p] \in {"starting", "up", "stopping"}
        /\ \E o \in {"up", "stopping", "joining"} : owner' = [owner EXCEPT ![p] = o]
    BY <1>3 DEF BecomeReady, StopRunning, NotifyAll
  <2>2. /\ owner'[p] \in {"up", "stopping", "joining"}
        /\ \A q \in Parties \ {p} : owner'[q] = owner[q]
    BY <1>1, <2>1 DEF TypeOK
  <2>3. \A q \in Parties : Status(q)' = Status(q)
    <3>1. Status(p)' = Status(p)
      BY <2>1, <2>2 DEF Status
    <3>2. \A q \in Parties \ {p} : Status(q)' = Status(q)
      BY <2>2 DEF Status
    <3>. QED
      BY <3>1, <3>2
  <2>. QED
    BY <2>1, <2>3, InnerStep
<1>4. ASSUME NEW q \in Parties, SendNext(p, q) PROVE Box!Next
  <2>1. \E m \in UNION {1 .. Budget[r] : r \in Parties} : Box!Send(p, q, m)
    BY <1>1, <1>4, SendIsSeen
  <2>. QED
    BY <2>1 DEF Box!Next
<1>5. CASE Close(p)
  <2>1. Box!Close(p)
    BY <1>1, <1>5, CloseIsSeen
  <2>. QED
    BY <2>1 DEF Box!Next
<1>. QED
  BY <1>2, <1>3, <1>4, <1>5 DEF OwnerStep

LEMMA ReceiverRefines ==
  ASSUME BoxInv, NEW p \in Parties, ReceiverStep(p)
  PROVE  Box!Next \/ UNCHANGED <<StatusOf, ChannelOf, delivered>>
<1>1. TypeOK /\ CommInv
  BY DEF BoxInv, CommInv
<1>2. CASE TestRunning(p) \/ RouterTimeout(p)
  <2>1. UNCHANGED <<owner, wire, held, queue, delivered>>
    BY <1>2 DEF TestRunning, RouterTimeout
  <2>2. \A q \in Parties : Status(q)' = Status(q)
    BY <2>1 DEF Status
  <2>. QED
    BY <2>1, <2>2, InnerStep
<1>3. ASSUME NEW s \in Parties, RouterReceive(p, s)
      PROVE  UNCHANGED <<StatusOf, ChannelOf, delivered>>
  BY <1>1, <1>3, RouterReceiveIsHidden
<1>4. CASE CallHandler(p)
  <2>1. \E s \in Parties : Box!Deliver(s, p)
    BY <1>1, <1>4, CallHandlerDelivers
  <2>. QED
    BY <2>1 DEF Box!Next
<1>5. CASE Enqueue(p)
  BY <1>1, <1>5, EnqueueIsHidden
<1>. QED
  BY <1>2, <1>3, <1>4, <1>5 DEF ReceiverStep

LEMMA CallerRefines ==
  ASSUME BoxInv, NEW p \in Parties, NEW c \in Callers[p], ReceiveStep(p, c)
  PROVE  Box!Next \/ UNCHANGED <<StatusOf, ChannelOf, delivered>>
<1>1. TypeOK /\ CommInv
  BY DEF BoxInv, CommInv
<1>2. /\ UNCHANGED <<wire, owner, held>>
      /\ UNCHANGED <<queue, delivered>> \/ Take(p, c)
  BY <1>1, CallerMoves
<1>3. CASE UNCHANGED <<queue, delivered>>
  <2>1. \A q \in Parties : Status(q)' = Status(q)
    BY <1>2 DEF Status
  <2>. QED
    BY <1>2, <1>3, <2>1, InnerStep
<1>4. CASE Take(p, c)
  <2>1. owner[p] # "new"
    BY <1>4 DEF BoxInv, Take
  <2>2. \E s \in Parties : Box!Deliver(s, p)
    BY <1>1, <1>2, <1>4, <2>1, TakeDelivers
  <2>. QED
    BY <2>2 DEF Box!Next
<1>. QED
  BY <1>2, <1>3, <1>4

\* A party becomes new never again, and its queue is not filled while it is.
LEMMA BoxStep == BoxInv /\ [Next]_vars => BoxInv'
<1>. SUFFICES ASSUME BoxInv, [Next]_vars PROVE BoxInv'
  OBVIOUS
<1>1. CommInv /\ CommInv' /\ TypeOK /\ \A p \in Parties : PartyInv(p)
  BY StepInv DEF BoxInv, CommInv
<1>2. ASSUME NEW p \in Parties, owner'[p] = "new" PROVE queue'[p] = <<>>
  <2>1. CASE UNCHANGED vars
    BY <1>2, <2>1 DEF BoxInv, vars
  <2>2. ASSUME NEW q \in Parties, OwnerStep(q) PROVE owner[p] = "new" /\ UNCHANGED queue
    <3>1. /\ UNCHANGED queue
          /\ UNCHANGED owner \/ \E o : o # "new" /\ owner' = [owner EXCEPT ![q] = o]
      BY <2>2 DEF OwnerStep, Initialize, BecomeReady, SendNext, Send, StopRunning,
                  NotifyAll, Close
    <3>. QED
      BY <1>1, <1>2, <3>1 DEF TypeOK
  <2>3. ASSUME NEW q \in Parties, ReceiverStep(q)
        PROVE  owner[p] = "new" /\ queue'[p] = queue[p]
    <3>1. /\ UNCHANGED owner
          /\ \/ UNCHANGED queue
             \/ receiver[q] = "handle" /\ \E m : queue' = [queue EXCEPT ![q] = m]
      BY <2>3 DEF ReceiverStep, TestRunning, RouterReceive, RouterTimeout, CallHandler,
                  GiveToHandler, Enqueue, PutIntoQueue
    <3>2. owner[p] = "new" /\ receiver[p] # "handle"
      BY <1>1, <1>2, <3>1 DEF PartyInv
    <3>3. p \in DOMAIN queue
      BY <1>1 DEF TypeOK
    <3>. QED
      BY <3>1, <3>2, <3>3
  <2>4. ASSUME NEW q \in Parties, NEW c \in Callers[q], ReceiveStep(q, c)
        PROVE  owner[p] = "new" /\ queue'[p] = queue[p]
    <3>1. UNCHANGED owner /\ (UNCHANGED queue \/ Take(q, c))
      BY <1>1, <2>4, CallerMoves
    <3>2. Take(q, c) => queue[q] # <<>> /\ \E m : queue' = [queue EXCEPT ![q] = m]
      BY DEF Take
    <3>3. owner[p] = "new" /\ queue[p] = <<>>
      BY <1>2, <3>1 DEF BoxInv
    <3>4. p \in DOMAIN queue
      BY <1>1 DEF TypeOK
    <3>. QED
      BY <3>1, <3>2, <3>3, <3>4
  <2>5. owner[p] = "new" => queue[p] = <<>>
    BY DEF BoxInv
  <2>. QED
    BY <2>1, <2>2, <2>3, <2>4, <2>5 DEF Next
<1>. QED
  BY <1>1, <1>2 DEF BoxInv

\* (ZMQMPCCommunication.cpp:102-186, 229-295)  Through sockets, receiver thread,
\* queue or handler, the messages of a sender arrive once each and in order,
\* whoever calls receive; only a closing sender loses any.
THEOREM MessagingIsMailbox == Spec => ImplementsMailbox
<1>1. Init => BoxInv
  BY InitInv DEF BoxInv, Init
<1>2. Init => Box!Init
  <2>. SUFFICES ASSUME Init PROVE Box!Init
    OBVIOUS
  <2>1. \A p \in Parties : Status(p) = "new"
    BY DEF Init, Status
  <2>2. ASSUME NEW s \in Parties, NEW p \in Parties PROVE UnderWay(s, p) = <<>>
    <3>1. queue[p] = <<>> /\ held[p] = <<>> /\ wire[s][p] = <<>>
      BY DEF Init
    <3>2. <<>> \o <<>> = <<>>
      BY ConcatEmpty
    <3>. QED
      BY <3>1, <3>2, FromSenderOfNone DEF UnderWay
  <2>. QED
    BY <2>1, <2>2 DEF Init, Box!Init
<1>3. BoxInv /\ [Next]_vars => [Box!Next]_<<StatusOf, ChannelOf, delivered>>
  <2>. SUFFICES ASSUME BoxInv, [Next]_vars
                PROVE  Box!Next \/ UNCHANGED <<StatusOf, ChannelOf, delivered>>
    OBVIOUS
  <2>1. CASE UNCHANGED vars
    <3>1. UNCHANGED <<owner, wire, held, queue, delivered>>
      BY <2>1 DEF vars
    <3>2. \A p \in Parties : Status(p)' = Status(p)
      BY <3>1 DEF Status
    <3>. QED
      BY <3>1, <3>2, InnerStep
  <2>. QED
    BY <2>1, OwnerRefines, ReceiverRefines, CallerRefines DEF Next
<1>. QED
  BY <1>1, <1>2, <1>3, BoxStep, PTL DEF Spec, ImplementsMailbox, Box!Spec, StatusOf, ChannelOf
=============================================================================
