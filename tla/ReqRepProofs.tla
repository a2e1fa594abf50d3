---------------------------- MODULE ReqRepProofs ----------------------------
(***************************************************************************)
(* Proofs about ReqRep, for every number of parties, every choice of whom  *)
(* they send to, and every bound.                                          *)
(***************************************************************************)
EXTENDS ReqRep, SequenceTheorems, TLAPS

-----------------------------------------------------------------------------
(* The inductive invariant.                                                *)

\* What a party in sendTo has at hand, and one that is to reply: the second never
\* finds its REP socket owing nothing.  (The converse is false: a receive that
\* throws leaves a reply owed.)
CallOK ==
  \A p \in Parties :
    /\ InSendTo(p) => todo[p] # <<>> /\ calls[p] + Len(todo[p]) <= MaxCalls + 1
    /\ pc[p] = "await" => Head(todo[p]) \in waiting[p]
    /\ pc[p] = "reply" => Owes(p)

\* Every stage of the exchange a sendTo waits for carries its number.
Fresh ==
  \A p, t \in Parties : pc[p] = "await" /\ t = Head(todo[p]) =>
    /\ \A k \in 1 .. Len(request[p][t]) : request[p][t][k] = calls[p]
    /\ \A k \in 1 .. Len(answer[t][p]) : answer[t][p][k] = calls[p]
    /\ serving[t] = p => asked[t] = calls[p]

ReqRepInv == TypeOK /\ CallOK /\ LockStep /\ Fresh

-----------------------------------------------------------------------------
LEMMA HeadOfTodo ==
  ASSUME NEW p \in Parties, TypeOK, CallOK, InSendTo(p)
  PROVE  Head(todo[p]) \in Parties /\ Tail(todo[p]) \in Seq(Parties)
         /\ Len(Tail(todo[p])) = Len(todo[p]) - 1
BY DEF TypeOK, CallOK

LEMMA NoneIsNoParty == None \notin Parties
BY DEF None, Parties

LEMMA PartiesAreNodes == Parties \subseteq Nodes
BY ReqRepAssumption DEF Parties, Nodes

\* The catch of sendTo.
LEMMA FailedType ==
  ASSUME NEW p \in Parties, TypeOK, CallOK, InSendTo(p), Failed(p)
  PROVE  /\ todo' \in [Parties -> Seq(Parties)]
         /\ calls' = calls
         /\ retries' \in [Parties -> 0 .. MaxRetries - 1]
         /\ threw' \in [Parties -> SUBSET Numbers]
         /\ \/ pc' = [pc EXCEPT ![p] = "send"] /\ todo' = todo
            \/ pc' = [pc EXCEPT ![p] = "idle"]
<1> USE DEF Failed, Goto
<1>1. /\ pc \in [Nodes -> {"new", "failed", "idle", "send", "await", "receive", "reply",
                           "closed"}]
      /\ todo \in [Parties -> Seq(Parties)]
      /\ retries \in [Parties -> 0 .. MaxRetries - 1]
      /\ threw \in [Parties -> SUBSET Numbers]
      /\ calls[p] \in Numbers
  BY DEF TypeOK
<1>2. MaxRetries \in Nat \ {0}
  BY ReqRepAssumption
<1>3. CASE retries[p] + 1 < MaxRetries
  <2>1. retries[p] \in 0 .. MaxRetries - 1
    BY <1>1
  <2>2. retries[p] + 1 \in 0 .. MaxRetries - 1
    BY <2>1, <1>2, <1>3
  <2> QED BY <1>1, <1>3, <2>2
<1>4. CASE ~(retries[p] + 1 < MaxRetries)
  <2>1. <<>> \in Seq(Parties)
    OBVIOUS
  <2>2. threw[p] \cup {calls[p]} \in SUBSET Numbers
    BY <1>1
  <2> QED BY <1>1, <1>4, <2>1, <2>2
<1> QED BY <1>3, <1>4

-----------------------------------------------------------------------------
(* Type correctness.                                                       *)

States == {"new", "failed", "idle", "send", "await", "receive", "reply", "closed"}

LEMMA TypeNext == TypeOK /\ CallOK /\ [Next]_vars => TypeOK'
<1> SUFFICES ASSUME TypeOK, CallOK, [Next]_vars PROVE TypeOK'
  OBVIOUS
<1> USE PartiesAreNodes DEF vars, client, service, wire, Goto
<1>0. /\ pc \in [Nodes -> States]
      /\ todo \in [Parties -> Seq(Parties)]
      /\ calls \in [Parties -> Numbers]
      /\ retries \in [Parties -> 0 .. MaxRetries - 1]
      /\ threw \in [Parties -> SUBSET Numbers]
      /\ waiting \in [Parties -> SUBSET Parties]
      /\ serving \in [Parties -> Parties \cup {None}]
      /\ asked \in [Parties -> Numbers]
      /\ request \in [Parties -> [Parties -> Seq(Numbers)]]
      /\ answer \in [Parties -> [Parties -> Seq(Numbers)]]
      /\ interrupts \in 0 .. MaxInterrupts
  BY DEF TypeOK, States
<1>c. 0 \in 0 .. MaxRetries - 1 /\ MaxInterrupts \in Nat /\ MaxCalls \in Nat /\ N \in Nat
  BY ReqRepAssumption
<1>1. ASSUME NEW p \in Nodes, Start(p) PROVE TypeOK'
  BY <1>0, <1>1 DEF Start, TypeOK, States
<1>2. ASSUME NEW p \in Parties, NEW targets \in Seq(Parties), targets # <<>>,
             Call(p, targets)
      PROVE  TypeOK'
  <2>1. calls[p] + 1 \in Numbers
    <3>1. Len(targets) \in Nat \ {0}
      BY <1>2, EmptySeq
    <3>2. calls[p] \in Nat /\ calls[p] + Len(targets) <= MaxCalls
      BY <1>0, <1>2 DEF Call, Numbers
    <3> QED BY <1>c, <3>1, <3>2 DEF Numbers
  <2> QED BY <1>0, <1>2, <1>c, <2>1 DEF Call, TypeOK, States
<1>3. ASSUME NEW p \in Parties, SendRequest(p) PROVE TypeOK'
  <2>1. Head(todo[p]) \in Parties
    BY <1>3, HeadOfTodo DEF SendRequest, InSendTo
  <2>2. calls[p] \in Numbers /\ Append(request[p][Head(todo[p])], calls[p]) \in Seq(Numbers)
    BY <1>0, <2>1
  <2>3. request' \in [Parties -> [Parties -> Seq(Numbers)]]
    BY <1>0, <1>3, <2>1, <2>2 DEF SendRequest
  <2>4. waiting' \in [Parties -> SUBSET Parties]
    BY <1>0, <1>3, <2>1 DEF SendRequest
  <2>5. pc' \in [Nodes -> States]
    BY <1>0, <1>3 DEF SendRequest, States
  <2> QED BY <1>0, <1>3, <2>3, <2>4, <2>5 DEF SendRequest, TypeOK, States
<1>4. ASSUME NEW p \in Parties, SendRefused(p) \/ Interrupt(p) PROVE TypeOK'
  <2>1. InSendTo(p) /\ Failed(p)
    BY <1>4 DEF SendRefused, Interrupt, InSendTo
  <2>2. pc' \in [Nodes -> States]
    BY <1>0, <2>1, FailedType DEF States
  <2>3. interrupts' \in 0 .. MaxInterrupts
    <3>1. interrupts \in Nat /\ interrupts < MaxInterrupts
          => interrupts + 1 \in 0 .. MaxInterrupts
      BY <1>c
    <3>2. interrupts \in Nat
      BY <1>0
    <3> QED BY <1>0, <1>4, <3>1, <3>2 DEF SendRefused, Interrupt
  <2>4. UNCHANGED <<waiting, service, wire>>
    BY <1>4 DEF SendRefused, Interrupt
  <2>5. /\ todo' \in [Parties -> Seq(Parties)]
        /\ calls' = calls
        /\ retries' \in [Parties -> 0 .. MaxRetries - 1]
        /\ threw' \in [Parties -> SUBSET Numbers]
    BY <2>1, FailedType
  <2> QED BY <1>0, <2>2, <2>3, <2>4, <2>5 DEF TypeOK, States
<1>5. ASSUME NEW p \in Parties, ReceiveReply(p) PROVE TypeOK'
  <2>1. Head(todo[p]) \in Parties /\ Tail(todo[p]) \in Seq(Parties)
        /\ Len(Tail(todo[p])) = Len(todo[p]) - 1
    BY <1>5, HeadOfTodo DEF ReceiveReply, InSendTo
  <2>2. Tail(answer[Head(todo[p])][p]) \in Seq(Numbers)
    <3>1. answer[Head(todo[p])][p] \in Seq(Numbers)
      BY <1>0, <2>1
    <3>2. answer[Head(todo[p])][p] # <<>>
      BY <1>5 DEF ReceiveReply
    <3> QED BY <3>1, <3>2
  <2>3. answer' \in [Parties -> [Parties -> Seq(Numbers)]]
    BY <1>0, <1>5, <2>1, <2>2 DEF ReceiveReply
  <2>4. calls' \in [Parties -> Numbers]
    <3>1. CASE Tail(todo[p]) = <<>>
      BY <1>0, <1>5, <3>1 DEF ReceiveReply
    <3>2. CASE Tail(todo[p]) # <<>>
      <4>1. Len(Tail(todo[p])) > 0
        BY <2>1, <3>2, EmptySeq
      <4>2. calls[p] + Len(todo[p]) <= MaxCalls + 1
        BY <1>5 DEF CallOK, InSendTo, ReceiveReply
      <4>3. Len(todo[p]) \in Nat /\ calls[p] \in Nat
        BY <1>0 DEF Numbers
      <4>4. calls[p] + 1 \in Numbers
        BY <1>c, <2>1, <4>1, <4>2, <4>3 DEF Numbers
      <4> QED BY <1>0, <1>5, <3>2, <4>4 DEF ReceiveReply
    <3> QED BY <3>1, <3>2
  <2>5. pc' \in [Nodes -> States]
    <3>1. pc' = [pc EXCEPT ![p] = "idle"] \/ pc' = [pc EXCEPT ![p] = "send"]
      BY <1>5 DEF ReceiveReply
    <3> QED BY <1>0, <3>1 DEF States
  <2>6. /\ todo' \in [Parties -> Seq(Parties)]
        /\ waiting' \in [Parties -> SUBSET Parties]
        /\ retries' \in [Parties -> 0 .. MaxRetries - 1]
    BY <1>0, <1>5, <1>c, <2>1 DEF ReceiveReply
  <2> QED BY <1>0, <1>5, <2>3, <2>4, <2>5, <2>6 DEF ReceiveReply, TypeOK, States
<1>6. ASSUME NEW p \in Parties, CallReceive(p) \/ ReceiveRefused(p) \/ ReceiveThrows(p)
      PROVE  TypeOK'
  <2>1. CASE CallReceive(p) \/ ReceiveRefused(p)
    BY <1>0, <2>1 DEF CallReceive, ReceiveRefused, TypeOK, States
  <2>2. CASE ReceiveThrows(p)
    <3>1. interrupts' \in 0 .. MaxInterrupts
      BY <1>0, <2>2, <1>c DEF ReceiveThrows
    <3> QED BY <1>0, <2>2, <3>1 DEF ReceiveThrows, TypeOK, States
  <2> QED BY <1>6, <2>1, <2>2
<1>7. ASSUME NEW p \in Parties, NEW q \in Parties,
             ReceiveRequest(p, q) \/ ReceiveTooLong(p, q)
      PROVE  TypeOK'
  <2>1. TakeRequest(p, q)
    BY <1>7 DEF ReceiveRequest, ReceiveTooLong
  <2>2. Head(request[q][p]) \in Numbers /\ Tail(request[q][p]) \in Seq(Numbers)
    BY <1>0, <2>1 DEF TakeRequest
  <2>3. pc' \in [Nodes -> States]
    BY <1>0, <1>7 DEF ReceiveRequest, ReceiveTooLong, States
  <2> QED BY <1>0, <2>1, <2>2, <2>3 DEF TakeRequest, TypeOK, States
<1>8. ASSUME NEW p \in Parties, Reply(p) PROVE TypeOK'
  <2>1. serving[p] \in Parties
    BY <1>0, <1>8 DEF Reply, Owes
  <2>2. asked[p] \in Numbers /\ Append(answer[p][serving[p]], asked[p]) \in Seq(Numbers)
    BY <1>0, <2>1
  <2>3. answer' \in [Parties -> [Parties -> Seq(Numbers)]]
    BY <1>0, <1>8, <2>1, <2>2 DEF Reply
  <2> QED BY <1>0, <1>8, <2>3 DEF Reply, TypeOK, States
<1>9. ASSUME NEW p \in Parties, Close(p) PROVE TypeOK'
  <2>1. <<>> \in Seq(Numbers)
    OBVIOUS
  <2>2. request' \in [Parties -> [Parties -> Seq(Numbers)]]
    BY <1>0, <1>9, <2>1 DEF Close
  <2>3. answer' \in [Parties -> [Parties -> Seq(Numbers)]]
    BY <1>0, <1>9, <2>1 DEF Close
  <2>4. serving' \in [Parties -> Parties \cup {None}]
    BY <1>0, <1>9 DEF Close
  <2> QED BY <1>0, <1>9, <2>2, <2>3, <2>4 DEF Close, TypeOK, States
<1>10. ASSUME UNCHANGED vars PROVE TypeOK'
  BY <1>0, <1>10 DEF TypeOK, States
<1>11. ASSUME NEW p \in Parties, CallSendTo(p) PROVE TypeOK'
  <2>1. PICK t \in Targets[p] : Call(p, <<t>>)
    BY <1>11 DEF CallSendTo
  <2>2. t \in Parties
    BY <2>1, ReqRepAssumption
  <2>3. <<t>> \in Seq(Parties) /\ <<t>> # <<>>
    BY <2>2
  <2> QED BY <1>2, <2>1, <2>3
<1>12. ASSUME NEW p \in Parties, CallSendToAll(p) PROVE TypeOK'
  <2> DEFINE others == [k \in 1 .. N - 1 |-> IF k < p THEN k ELSE k + 1]
  <2>1. others \in Seq(Parties) /\ Len(others) = N - 1 /\ N > 2
    BY <1>12, <1>c DEF CallSendToAll, Parties
  <2>2. others # <<>>
    BY <2>1, EmptySeq, <1>c
  <2> QED BY <1>2, <1>12, <2>1, <2>2 DEF CallSendToAll
<1> QED BY <1>1, <1>3, <1>4, <1>5, <1>6, <1>7, <1>8, <1>9, <1>10, <1>11, <1>12
       DEF Next, Send, Serve

-----------------------------------------------------------------------------
(* What the calls leave at hand.                                           *)

LEMMA CallOKNext == TypeOK /\ CallOK /\ [Next]_vars => CallOK'
<1> SUFFICES ASSUME TypeOK, CallOK, [Next]_vars, NEW a \in Parties
             PROVE  /\ InSendTo(a)' => (todo[a] # <<>>)' /\ (calls[a] + Len(todo[a]) <= MaxCalls + 1)'
                    /\ (pc[a] = "await" => Head(todo[a]) \in waiting[a])'
                    /\ (pc[a] = "reply" => Owes(a))'
  BY DEF CallOK
<1> USE PartiesAreNodes DEF vars, client, service, wire, Goto, InSendTo, Owes
<1>t. /\ pc \in [Nodes -> States]
      /\ todo \in [Parties -> Seq(Parties)]
      /\ calls \in [Parties -> Numbers]
      /\ waiting \in [Parties -> SUBSET Parties]
      /\ serving \in [Parties -> Parties \cup {None}]
      /\ asked \in [Parties -> Numbers]
      /\ request \in [Parties -> [Parties -> Seq(Numbers)]]
      /\ answer \in [Parties -> [Parties -> Seq(Numbers)]]
  BY DEF TypeOK, States
<1>c. MaxCalls \in Nat /\ N \in Nat
  BY ReqRepAssumption
<1>o. /\ InSendTo(a) => todo[a] # <<>> /\ calls[a] + Len(todo[a]) <= MaxCalls + 1
      /\ pc[a] = "await" => Head(todo[a]) \in waiting[a]
      /\ pc[a] = "reply" => Owes(a)
  BY DEF CallOK
<1>n. calls[a] \in Nat /\ Len(todo[a]) \in Nat
  BY <1>t DEF Numbers
<1>1. CASE \E p \in Nodes : Start(p)
  BY <1>1, <1>o, <1>t DEF Start
<1>2. ASSUME NEW p \in Parties, NEW targets \in Seq(Parties), targets # <<>>, Call(p, targets)
      PROVE  /\ InSendTo(a)' => (todo[a] # <<>>)' /\ (calls[a] + Len(todo[a]) <= MaxCalls + 1)'
             /\ (pc[a] = "await" => Head(todo[a]) \in waiting[a])'
             /\ (pc[a] = "reply" => Owes(a))'
  <2>1. CASE a = p
    <3>1. calls'[a] = calls[a] + 1 /\ todo'[a] = targets /\ pc'[a] = "send"
          /\ serving' = serving /\ calls[a] + Len(targets) <= MaxCalls /\ pc[a] = "idle"
      BY <1>2, <1>t, <2>1 DEF Call
    <3>2. Len(targets) \in Nat
      BY <1>2
    <3> QED BY <1>2, <1>n, <1>c, <1>o, <3>1, <3>2
  <2>2. CASE a # p
    BY <1>2, <1>t, <1>o, <2>2 DEF Call
  <2> QED BY <2>1, <2>2
<1>3. CASE \E p \in Parties : SendRequest(p)
  <2> PICK p \in Parties : SendRequest(p)
    BY <1>3
  <2>1. CASE a = p
    BY <1>t, <1>o, <2>1 DEF SendRequest
  <2>2. CASE a # p
    BY <1>t, <1>o, <2>2 DEF SendRequest
  <2> QED BY <2>1, <2>2
<1>4. CASE \E p \in Parties : SendRefused(p) \/ Interrupt(p)
  <2> PICK p \in Parties : SendRefused(p) \/ Interrupt(p)
    BY <1>4
  <2>1. InSendTo(p) /\ Failed(p) /\ waiting' = waiting /\ serving' = serving
    BY DEF SendRefused, Interrupt
  <2>2. /\ calls' = calls
        /\ (pc' = [pc EXCEPT ![p] = "send"] /\ todo' = todo) \/ pc' = [pc EXCEPT ![p] = "idle"]
    BY <2>1, FailedType
  <2>3. CASE a = p
    BY <1>t, <1>o, <2>1, <2>2, <2>3
  <2>4. CASE a # p
    <3>1. todo'[a] = todo[a]
      BY <1>t, <2>1, <2>4 DEF Failed
    <3> QED BY <1>t, <1>o, <2>1, <2>2, <2>4, <3>1
  <2> QED BY <2>3, <2>4
<1>5. CASE \E p \in Parties : ReceiveReply(p)
  <2> PICK p \in Parties : ReceiveReply(p)
    BY <1>5
  <2>1. CASE a # p
    <3>1. /\ pc'[a] = pc[a] /\ todo'[a] = todo[a] /\ waiting'[a] = waiting[a]
          /\ serving' = serving /\ calls'[a] = calls[a]
      BY <1>t, <2>1 DEF ReceiveReply
    <3> QED BY <1>o, <3>1
  <2>2. CASE a = p /\ Tail(todo[p]) = <<>>
    BY <1>t, <1>o, <2>2 DEF ReceiveReply
  <2>3. CASE a = p /\ Tail(todo[p]) # <<>>
    <3>1. /\ pc[a] = "await" /\ pc'[a] = "send" /\ serving' = serving
          /\ calls'[a] = calls[a] + 1 /\ todo'[a] = Tail(todo[a])
      BY <1>t, <2>3 DEF ReceiveReply
    <3>2. Len(Tail(todo[a])) = Len(todo[a]) - 1
      BY <3>1, HeadOfTodo
    <3> QED BY <1>o, <1>n, <1>c, <2>3, <3>1, <3>2
  <2> QED BY <2>1, <2>2, <2>3
<1>6. CASE \E p \in Parties : CallReceive(p) \/ ReceiveRefused(p) \/ ReceiveThrows(p)
  BY <1>6, <1>t, <1>o DEF CallReceive, ReceiveRefused, ReceiveThrows
<1>7. CASE \E p, q \in Parties : ReceiveRequest(p, q) \/ ReceiveTooLong(p, q)
  <2> PICK p \in Parties, q \in Parties : ReceiveRequest(p, q) \/ ReceiveTooLong(p, q)
    BY <1>7
  <2>1. TakeRequest(p, q) /\ (pc' = [pc EXCEPT ![p] = "reply"] \/ pc' = [pc EXCEPT ![p] = "idle"])
    BY DEF ReceiveRequest, ReceiveTooLong
  <2> QED BY <1>t, <1>o, <2>1, NoneIsNoParty DEF TakeRequest
<1>8. CASE \E p \in Parties : Reply(p)
  BY <1>8, <1>t, <1>o DEF Reply
<1>9. CASE \E p \in Parties : Close(p)
  BY <1>9, <1>t, <1>o DEF Close
<1>10. CASE UNCHANGED vars
  BY <1>10, <1>o
<1>11. CASE \E p \in Parties : CallSendTo(p)
  <2> PICK p \in Parties : CallSendTo(p)
    BY <1>11
  <2> PICK t \in Targets[p] : Call(p, <<t>>)
    BY DEF CallSendTo
  <2>1. t \in Parties
    BY ReqRepAssumption
  <2>2. <<t>> \in Seq(Parties) /\ <<t>> # <<>>
    BY <2>1
  <2> QED BY <1>2, <2>2
<1>12. CASE \E p \in Parties : CallSendToAll(p)
  <2> PICK p \in Parties : CallSendToAll(p)
    BY <1>12
  <2> DEFINE others == [k \in 1 .. N - 1 |-> IF k < p THEN k ELSE k + 1]
  <2>1. others \in Seq(Parties) /\ Len(others) = N - 1 /\ N > 2
    BY <1>c DEF CallSendToAll, Parties
  <2>2. others # <<>>
    BY <2>1, EmptySeq, <1>c
  <2>3. Call(p, others)
    BY DEF CallSendToAll
  <2> QED BY <1>2, <2>1, <2>2, <2>3
<1> QED BY <1>1, <1>3, <1>4, <1>5, <1>6, <1>7, <1>8, <1>9, <1>10, <1>11, <1>12
       DEF Next, Send, Serve

-----------------------------------------------------------------------------
(* The lock step.                                                          *)

Locked(p, t) ==
  /\ Outstanding(p, t) <= 1
  /\ t \notin waiting[p] => Outstanding(p, t) = 0
  /\ t \in waiting[p] /\ pc[t] # "closed" => Outstanding(p, t) = 1

LEMMA OutstandingSame ==
  ASSUME NEW a \in Parties, NEW t \in Parties, pc[a] # "closed", LockStep,
         request'[a][t] = request[a][t], answer'[t][a] = answer[t][a],
         serving'[t] = a <=> serving[t] = a,
         t \in waiting'[a] <=> t \in waiting[a],
         pc[t] = "closed" => pc'[t] = "closed"
  PROVE  Locked(a, t)'
<1>1. Locked(a, t)
  BY DEF LockStep, Locked
<1>2. Outstanding(a, t)' = Outstanding(a, t)
  BY DEF Outstanding
<1> QED BY <1>1, <1>2 DEF Locked

\* An exchange in numbers.
Busy(p, t) == IF serving[t] = p THEN 1 ELSE 0

LEMMA WireTypes ==
  ASSUME TypeOK, NEW a \in Parties, NEW t \in Parties
  PROVE  /\ request[a][t] \in Seq(Numbers) /\ Len(request[a][t]) \in Nat
         /\ answer[t][a] \in Seq(Numbers) /\ Len(answer[t][a]) \in Nat
         /\ Busy(a, t) \in Nat
         /\ Outstanding(a, t) = Len(request[a][t]) + Len(answer[t][a]) + Busy(a, t)
<1>1. request[a] \in [Parties -> Seq(Numbers)] /\ answer[t] \in [Parties -> Seq(Numbers)]
  BY DEF TypeOK
<1>2. request[a][t] \in Seq(Numbers) /\ answer[t][a] \in Seq(Numbers)
  BY <1>1
<1>3. Len(request[a][t]) \in Nat /\ Len(answer[t][a]) \in Nat
  BY <1>2
<1>4. Busy(a, t) \in Nat
  BY DEF Busy
<1>5. Outstanding(a, t) = Len(request[a][t]) + Len(answer[t][a]) + Busy(a, t)
  BY DEF Outstanding, Busy
<1> QED BY <1>2, <1>3, <1>4, <1>5

\* The arithmetic of the four steps that move an exchange on, and of close.
LEMMA SumZero ==
  ASSUME NEW l \in Nat, NEW m \in Nat, NEW b \in Nat, l + m + b = 0
  PROVE  l = 0 /\ m = 0 /\ b = 0
OBVIOUS

LEMMA SumSent ==
  ASSUME NEW l \in Nat, NEW m \in Nat, NEW b \in Nat, l + m + b = 0
  PROVE  (l + 1) + m + b = 1
OBVIOUS

LEMMA SumEnded ==
  ASSUME NEW l \in Nat, NEW m \in Nat, NEW b \in Nat, l + m + b <= 1, m > 0
  PROVE  l + (m - 1) + b = 0
OBVIOUS

LEMMA SumMoved ==
  ASSUME NEW l \in Nat, NEW m \in Nat
  PROVE  (l - 1) + m + 1 = l + m + 0 /\ l + (m + 1) + 0 = l + m + 1
OBVIOUS

LEMMA SumLess ==
  ASSUME NEW l \in Nat, NEW m \in Nat, NEW b \in Nat, NEW n \in Nat, n <= m
  PROVE  l + n + 0 <= l + m + b /\ l + n + 0 \in Nat /\ l + m + b \in Nat
OBVIOUS

LEMMA LockStepNext == TypeOK /\ CallOK /\ LockStep /\ [Next]_vars => LockStep'
<1> SUFFICES ASSUME TypeOK, CallOK, LockStep, [Next]_vars, NEW a \in Parties,
                    NEW t \in Parties, pc'[a] # "closed"
             PROVE  Locked(a, t)'
  BY DEF LockStep, Locked
<1> USE PartiesAreNodes DEF vars, client, service, wire, Goto
<1>t. /\ pc \in [Nodes -> States]
      /\ todo \in [Parties -> Seq(Parties)]
      /\ calls \in [Parties -> Numbers]
      /\ waiting \in [Parties -> SUBSET Parties]
      /\ serving \in [Parties -> Parties \cup {None}]
      /\ asked \in [Parties -> Numbers]
      /\ request \in [Parties -> [Parties -> Seq(Numbers)]]
      /\ answer \in [Parties -> [Parties -> Seq(Numbers)]]
  BY DEF TypeOK, States
<1>c. N \in Nat
  BY ReqRepAssumption
<1>k. ASSUME NEW p \in Nodes, NEW where \in States, pc[p] # "closed",
             pc' = [pc EXCEPT ![p] = where], UNCHANGED <<waiting, service, wire>>
      PROVE  Locked(a, t)'
  BY <1>k, <1>t, OutstandingSame
<1>1. CASE \E p \in Nodes : Start(p)
  <2> PICK p \in Nodes : Start(p)
    BY <1>1
  <2> QED BY <1>k DEF Start, States
<1>2. CASE \E p \in Parties : CallSendTo(p) \/ CallSendToAll(p)
  <2> PICK p \in Parties : CallSendTo(p) \/ CallSendToAll(p)
    BY <1>2
  <2>1. pc[p] = "idle" /\ pc' = [pc EXCEPT ![p] = "send"] /\ UNCHANGED <<waiting, service, wire>>
    BY DEF CallSendTo, CallSendToAll, Call
  <2> QED BY <1>k, <2>1 DEF States
<1>3. CASE \E p \in Parties : SendRequest(p)
  <2> PICK p \in Parties : SendRequest(p)
    BY <1>3
  <2>h. Head(todo[p]) \in Parties
    BY HeadOfTodo DEF SendRequest, InSendTo
  <2> PICK u \in Parties : u = Head(todo[p])
    BY <2>h
  <2>2. /\ pc[p] = "send" /\ u \notin waiting[p]
        /\ request' = [request EXCEPT ![p][u] = Append(@, calls[p])]
        /\ waiting' = [waiting EXCEPT ![p] = @ \cup {u}]
        /\ pc' = [pc EXCEPT ![p] = "await"]
        /\ UNCHANGED <<answer, serving>>
    BY DEF SendRequest
  <2>3. CASE a = p /\ t = u
    <3>1. /\ Len(request[p][u]) \in Nat /\ Len(answer[u][p]) \in Nat /\ Busy(p, u) \in Nat
          /\ request[p][u] \in Seq(Numbers)
          /\ Outstanding(p, u) = Len(request[p][u]) + Len(answer[u][p]) + Busy(p, u)
      BY WireTypes
    <3>2. Outstanding(p, u) = 0
      BY <2>2 DEF LockStep
    <3>3. request'[p][u] = Append(request[p][u], calls[p]) /\ u \in waiting'[p]
      BY <1>t, <2>2
    <3>4. Len(request'[p][u]) = Len(request[p][u]) + 1
      <4>1. Len(Append(request[p][u], calls[p])) = Len(request[p][u]) + 1
        BY ONLY <3>1
      <4> QED BY <3>3, <4>1
    <3>5. Outstanding(p, u)' = Len(request'[p][u]) + Len(answer[u][p]) + Busy(p, u)
      BY <2>2 DEF Outstanding, Busy
    <3>6. Outstanding(p, u)' = 1
      <4>1. Len(request[p][u]) + Len(answer[u][p]) + Busy(p, u) = 0
        BY <3>1, <3>2
      <4>2. (Len(request[p][u]) + 1) + Len(answer[u][p]) + Busy(p, u) = 1
        <5>1. Len(request[p][u]) \in Nat /\ Len(answer[u][p]) \in Nat /\ Busy(p, u) \in Nat
          BY <3>1
        <5> QED BY ONLY <4>1, <5>1, SumSent
      <4>3. Outstanding(p, u)'
              = (Len(request[p][u]) + 1) + Len(answer[u][p]) + Busy(p, u)
        BY ONLY <3>4, <3>5
      <4> QED BY ONLY <4>2, <4>3
    <3> QED BY <2>3, <3>3, <3>6 DEF Locked
  <2>4. CASE ~(a = p /\ t = u)
    <3>1. request'[a][t] = request[a][t] /\ (t \in waiting'[a] <=> t \in waiting[a])
      BY <1>t, <2>2, <2>4
    <3>2. pc[a] # "closed" /\ (pc[t] = "closed" => pc'[t] = "closed")
      BY <1>t, <2>2
    <3> QED BY <2>2, <3>1, <3>2, OutstandingSame
  <2> QED BY <2>3, <2>4
<1>4. CASE \E p \in Parties : SendRefused(p) \/ Interrupt(p)
  <2> PICK p \in Parties : SendRefused(p) \/ Interrupt(p)
    BY <1>4
  <2>1. InSendTo(p) /\ Failed(p) /\ UNCHANGED <<waiting, service, wire>>
    BY DEF SendRefused, Interrupt, InSendTo
  <2>2. pc' = [pc EXCEPT ![p] = "send"] \/ pc' = [pc EXCEPT ![p] = "idle"]
    BY <2>1, FailedType
  <2>3. pc[p] # "closed"
    BY <2>1 DEF InSendTo
  <2> QED BY <1>k, <2>1, <2>2, <2>3 DEF States
<1>5. CASE \E p \in Parties : ReceiveReply(p)
  <2> PICK p \in Parties : ReceiveReply(p)
    BY <1>5
  <2>h. Head(todo[p]) \in Parties
    BY HeadOfTodo DEF ReceiveReply, InSendTo
  <2> PICK u \in Parties : u = Head(todo[p])
    BY <2>h
  <2>2. /\ pc[p] = "await" /\ answer[u][p] # <<>>
        /\ answer' = [answer EXCEPT ![u][p] = Tail(@)]
        /\ waiting' = [waiting EXCEPT ![p] = @ \ {u}]
        /\ pc' = [pc EXCEPT ![p] = "idle"] \/ pc' = [pc EXCEPT ![p] = "send"]
        /\ UNCHANGED <<request, serving>>
    BY DEF ReceiveReply
  <2>3. CASE a = p /\ t = u
    <3>1. /\ Len(request[p][u]) \in Nat /\ Len(answer[u][p]) \in Nat /\ Busy(p, u) \in Nat
          /\ answer[u][p] \in Seq(Numbers)
          /\ Outstanding(p, u) = Len(request[p][u]) + Len(answer[u][p]) + Busy(p, u)
      BY WireTypes
    <3>2. Outstanding(p, u) <= 1
      BY <2>2 DEF LockStep
    <3>3. answer'[u][p] = Tail(answer[u][p]) /\ u \notin waiting'[p]
      BY <1>t, <2>2
    <3>4. Len(answer[u][p]) > 0 /\ Len(Tail(answer[u][p])) = Len(answer[u][p]) - 1
      BY <2>2, <3>1, EmptySeq
    <3>5. Outstanding(p, u)' = Len(request[p][u]) + Len(answer'[u][p]) + Busy(p, u)
      BY <2>2 DEF Outstanding, Busy
    <3>6. Outstanding(p, u)' = 0
      <4>1. Len(request[p][u]) + Len(answer[u][p]) + Busy(p, u) <= 1
        BY <3>1, <3>2
      <4>2. Len(request[p][u]) + (Len(answer[u][p]) - 1) + Busy(p, u) = 0
        BY <3>1, <3>4, <4>1, SumEnded
      <4> QED BY <3>3, <3>4, <3>5, <4>2
    <3> QED BY <2>3, <3>3, <3>6 DEF Locked
  <2>4. CASE ~(a = p /\ t = u)
    <3>1. answer'[t][a] = answer[t][a] /\ (t \in waiting'[a] <=> t \in waiting[a])
      BY <1>t, <2>2, <2>4
    <3>2. pc[a] # "closed" /\ (pc[t] = "closed" => pc'[t] = "closed")
      BY <1>t, <2>2
    <3> QED BY <2>2, <3>1, <3>2, OutstandingSame
  <2> QED BY <2>3, <2>4
<1>6. CASE \E p \in Parties : CallReceive(p) \/ ReceiveRefused(p) \/ ReceiveThrows(p)
  <2> PICK p \in Parties : CallReceive(p) \/ ReceiveRefused(p) \/ ReceiveThrows(p)
    BY <1>6
  <2> QED BY <1>k DEF CallReceive, ReceiveRefused, ReceiveThrows, States
<1>7. CASE \E p, q \in Parties : ReceiveRequest(p, q) \/ ReceiveTooLong(p, q)
  <2> PICK p \in Parties, q \in Parties : ReceiveRequest(p, q) \/ ReceiveTooLong(p, q)
    BY <1>7
  <2>1. /\ pc[p] = "receive" /\ request[q][p] # <<>>
        /\ request' = [request EXCEPT ![q][p] = Tail(@)]
        /\ serving' = [serving EXCEPT ![p] = q]
        /\ pc' = [pc EXCEPT ![p] = "reply"] \/ pc' = [pc EXCEPT ![p] = "idle"]
        /\ UNCHANGED <<answer, waiting>>
    BY DEF ReceiveRequest, ReceiveTooLong, TakeRequest
  <2>2. serving[p] = None
    BY DEF ReceiveRequest, ReceiveTooLong, TakeRequest, Owes
  <2>3. CASE a = q /\ t = p
    <3>1. /\ Len(request[q][p]) \in Nat /\ Len(answer[p][q]) \in Nat
          /\ request[q][p] \in Seq(Numbers)
          /\ Outstanding(q, p) = Len(request[q][p]) + Len(answer[p][q]) + Busy(q, p)
      BY WireTypes
    <3>2. Len(request[q][p]) > 0 /\ Len(Tail(request[q][p])) = Len(request[q][p]) - 1
      BY <2>1, <3>1, EmptySeq
    <3>3. request'[q][p] = Tail(request[q][p]) /\ serving'[p] = q
      BY <1>t, <2>1
    <3>4. pc[a] # "closed"
      BY <1>t, <2>1
    <3>5. Outstanding(a, t)' = Outstanding(a, t)
      <4>1. Busy(q, p) = 0
        BY <2>2, NoneIsNoParty DEF Busy
      <4>2. Outstanding(q, p)' = Len(request'[q][p]) + Len(answer[p][q]) + 1
        BY <2>1, <3>3 DEF Outstanding
      <4>3. Outstanding(q, p)' = (Len(request[q][p]) - 1) + Len(answer[p][q]) + 1
        BY <3>2, <3>3, <4>2
      <4>4. Outstanding(q, p) = Len(request[q][p]) + Len(answer[p][q]) + 0
        BY <3>1, <4>1
      <4>5. Outstanding(q, p)' = Outstanding(q, p)
        BY <3>1, <4>3, <4>4, SumMoved
      <4> QED BY <2>3, <4>5
    <3>6. pc[t] # "closed"
      BY <2>1, <2>3
    <3> QED BY <2>1, <3>4, <3>5, <3>6 DEF Locked, LockStep
  <2>4. CASE ~(a = q /\ t = p)
    <3>1. request'[a][t] = request[a][t] /\ (serving'[t] = a <=> serving[t] = a)
      BY <1>t, <2>1, <2>2, <2>4, NoneIsNoParty
    <3>2. pc[a] # "closed" /\ (pc[t] = "closed" => pc'[t] = "closed")
      BY <1>t, <2>1
    <3> QED BY <2>1, <3>1, <3>2, OutstandingSame
  <2> QED BY <2>3, <2>4
<1>8. CASE \E p \in Parties : Reply(p)
  <2> PICK p \in Parties : Reply(p)
    BY <1>8
  <2>h. serving[p] \in Parties
    BY <1>t DEF Reply, Owes
  <2> PICK q \in Parties : q = serving[p]
    BY <2>h
  <2>1. pc[p] \in {"reply", "idle"}
    BY DEF Reply
  <2>2. /\ answer' = [answer EXCEPT ![p][q] = IF pc[q] = "closed" THEN @ ELSE Append(@, asked[p])]
        /\ serving' = [serving EXCEPT ![p] = None]
        /\ pc' = [pc EXCEPT ![p] = "idle"]
        /\ UNCHANGED <<request, waiting>>
    BY DEF Reply
  <2>p. pc[a] # "closed" /\ (pc[t] = "closed" => pc'[t] = "closed")
    BY <1>t, <2>1, <2>2
  <2>3. CASE a = q /\ t = p
    <3>1. /\ Len(request[q][p]) \in Nat /\ Len(answer[p][q]) \in Nat
          /\ answer[p][q] \in Seq(Numbers) /\ asked[p] \in Numbers
          /\ Outstanding(q, p) = Len(request[q][p]) + Len(answer[p][q]) + Busy(q, p)
      BY <1>t, <2>1, WireTypes
    <3>2. answer'[p][q] = Append(answer[p][q], asked[p])
      BY <1>t, <2>1, <2>2, <2>3, <2>p
    <3>3. Len(answer'[p][q]) = Len(answer[p][q]) + 1
      BY <3>1, <3>2
    <3>4. serving'[p] # q
      BY <1>t, <2>1, <2>2, NoneIsNoParty
    <3>5. Outstanding(a, t)' = Outstanding(a, t)
      <4>1. Busy(q, p) = 1
        BY DEF Busy
      <4>2. Outstanding(q, p)' = Len(request[q][p]) + Len(answer'[p][q]) + 0
        BY <2>2, <3>4 DEF Outstanding
      <4>3. Outstanding(q, p)' = Len(request[q][p]) + (Len(answer[p][q]) + 1) + 0
        BY <3>3, <4>2
      <4>4. Outstanding(q, p) = Len(request[q][p]) + Len(answer[p][q]) + 1
        BY <3>1, <4>1
      <4>5. Outstanding(q, p)' = Outstanding(q, p)
        BY <3>1, <4>3, <4>4, SumMoved
      <4> QED BY <2>3, <4>5
    <3>6. pc[t] # "closed"
      BY <2>1, <2>3
    <3> QED BY <2>2, <2>p, <3>5, <3>6 DEF Locked, LockStep
  <2>4. CASE ~(a = q /\ t = p)
    <3>1. answer'[t][a] = answer[t][a]
      BY <1>t, <2>1, <2>2, <2>4
    <3>2. serving'[t] = a <=> serving[t] = a
      BY <1>t, <2>1, <2>2, <2>4, NoneIsNoParty
    <3> QED BY <2>2, <2>p, <3>1, <3>2, OutstandingSame
  <2> QED BY <2>3, <2>4
<1>9. CASE \E p \in Parties : Close(p)
  <2> PICK p \in Parties : Close(p)
    BY <1>9
  <2>1. /\ pc[p] = "idle" /\ pc' = [pc EXCEPT ![p] = "closed"]
        /\ serving' = [serving EXCEPT ![p] = None]
        /\ UNCHANGED waiting
    BY DEF Close
  <2>2. a # p /\ pc[a] # "closed"
    BY <1>t, <2>1
  <2>3. request'[a][t] = request[a][t]
    BY <1>t, <2>2 DEF Close
  <2>4. t # p => answer'[t][a] = answer[t][a]
    BY <1>t, <2>2 DEF Close
  <2>5. answer'[t][a] = answer[t][a] \/ answer'[t][a] = <<>>
    BY <1>t, <2>2 DEF Close
  <2>6. CASE t # p
    <3>1. serving'[t] = serving[t] /\ (pc[t] = "closed" => pc'[t] = "closed")
      BY <1>t, <2>1, <2>6
    <3> QED BY <2>1, <2>2, <2>3, <2>4, <2>6, <3>1, OutstandingSame
  <2>7. CASE t = p
    <3>1. /\ Len(answer[t][a]) \in Nat /\ Len(request[a][t]) \in Nat /\ Busy(a, t) \in Nat
          /\ Outstanding(a, t) = Len(request[a][t]) + Len(answer[t][a]) + Busy(a, t)
      BY WireTypes
    <3>2. Len(answer'[t][a]) \in Nat /\ Len(answer'[t][a]) <= Len(answer[t][a])
      BY <2>5, <3>1, EmptySeq
    <3>3. Outstanding(a, t)' <= Outstanding(a, t) /\ Outstanding(a, t)' \in Nat
          /\ Outstanding(a, t) \in Nat
      <4>1. serving'[t] # a
        BY <1>t, <2>1, <2>7, NoneIsNoParty
      <4>2. Outstanding(a, t)' = Len(request[a][t]) + Len(answer'[t][a]) + 0
        BY <2>3, <4>1 DEF Outstanding
      <4>3. /\ Len(answer[t][a]) \in Nat /\ Len(request[a][t]) \in Nat /\ Busy(a, t) \in Nat
            /\ Len(answer'[t][a]) \in Nat /\ Len(answer'[t][a]) <= Len(answer[t][a])
        BY <3>1, <3>2
      <4>4. /\ Len(request[a][t]) + Len(answer'[t][a]) + 0
                 <= Len(request[a][t]) + Len(answer[t][a]) + Busy(a, t)
            /\ Len(request[a][t]) + Len(answer'[t][a]) + 0 \in Nat
            /\ Len(request[a][t]) + Len(answer[t][a]) + Busy(a, t) \in Nat
        BY ONLY <4>3, SumLess
      <4> QED BY <3>1, <4>2, <4>4
    <3>4. pc'[t] = "closed"
      BY <1>t, <2>1, <2>7
    <3> QED BY <2>1, <2>2, <3>3, <3>4 DEF Locked, LockStep
  <2> QED BY <2>6, <2>7
<1>10. CASE UNCHANGED vars
  BY <1>10, OutstandingSame
<1> QED BY <1>1, <1>2, <1>3, <1>4, <1>5, <1>6, <1>7, <1>8, <1>9, <1>10
       DEF Next, Send, Serve

-----------------------------------------------------------------------------
(* What an exchange carries.                                               *)

FreshAt(p, t) ==
  /\ \A k \in 1 .. Len(request[p][t]) : request[p][t][k] = calls[p]
  /\ \A k \in 1 .. Len(answer[t][p]) : answer[t][p][k] = calls[p]
  /\ serving[t] = p => asked[t] = calls[p]

LEMMA FreshSame ==
  ASSUME NEW a \in Parties, NEW t \in Parties, Fresh, pc[a] = "await",
         t = Head(todo[a]), calls'[a] = calls[a],
         request'[a][t] = request[a][t],
         answer'[t][a] = answer[t][a],
         serving'[t] = serving[t], asked'[t] = asked[t]
  PROVE  FreshAt(a, t)'
BY DEF Fresh, FreshAt

\* A sequence that carries one number only.
LEMMA SentAlone ==
  ASSUME NEW v
  PROVE  \A k \in 1 .. Len(Append(<<>>, v)) : Append(<<>>, v)[k] = v
OBVIOUS

LEMMA SameElements ==
  ASSUME NEW s \in Seq(Numbers), NEW v, Len(s) > 0, \A k \in 1 .. Len(s) : s[k] = v
  PROVE  Head(s) = v /\ \A k \in 1 .. Len(Tail(s)) : Tail(s)[k] = v
<1>1. Len(s) \in Nat
  OBVIOUS
<1>2. Head(s) = s[1] /\ 1 \in 1 .. Len(s)
  BY <1>1
<1>3. Len(Tail(s)) = Len(s) - 1
  OBVIOUS
<1>4. ASSUME NEW k \in 1 .. Len(Tail(s)) PROVE Tail(s)[k] = v
  <2>1. k + 1 \in 1 .. Len(s)
    BY <1>1, <1>3
  <2>2. Tail(s)[k] = s[k + 1]
    BY <1>1, <1>3
  <2> QED BY <2>1, <2>2
<1> QED BY <1>2, <1>4

LEMMA FreshNext == TypeOK /\ CallOK /\ LockStep /\ Fresh /\ [Next]_vars => Fresh'
<1> SUFFICES ASSUME TypeOK, CallOK, LockStep, Fresh, [Next]_vars, NEW a \in Parties,
                    NEW t \in Parties, pc'[a] = "await", t = Head(todo'[a])
             PROVE  FreshAt(a, t)'
  BY DEF Fresh, FreshAt
<1> USE PartiesAreNodes DEF vars, client, service, wire, Goto
<1>t. /\ pc \in [Nodes -> States]
      /\ todo \in [Parties -> Seq(Parties)]
      /\ calls \in [Parties -> Numbers]
      /\ waiting \in [Parties -> SUBSET Parties]
      /\ serving \in [Parties -> Parties \cup {None}]
      /\ asked \in [Parties -> Numbers]
      /\ request \in [Parties -> [Parties -> Seq(Numbers)]]
      /\ answer \in [Parties -> [Parties -> Seq(Numbers)]]
  BY DEF TypeOK, States
<1>k. ASSUME NEW p \in Nodes, NEW where \in States, where # "await",
             pc' = [pc EXCEPT ![p] = where], UNCHANGED <<service, wire>>,
             a # p => todo'[a] = todo[a] /\ calls'[a] = calls[a]
      PROVE  FreshAt(a, t)'
  <2>1. a # p /\ pc[a] = "await"
    BY <1>k, <1>t
  <2> QED BY <1>k, <2>1, FreshSame
<1>1. CASE \E p \in Nodes : Start(p)
  <2> PICK p \in Nodes : Start(p)
    BY <1>1
  <2> QED BY <1>k DEF Start, States
<1>2. CASE \E p \in Parties : CallSendTo(p) \/ CallSendToAll(p)
  <2> PICK p \in Parties : CallSendTo(p) \/ CallSendToAll(p)
    BY <1>2
  <2>1. PICK targets : Call(p, targets)
    BY DEF CallSendTo, CallSendToAll
  <2>2. /\ pc' = [pc EXCEPT ![p] = "send"] /\ UNCHANGED <<service, wire>>
        /\ a # p => todo'[a] = todo[a] /\ calls'[a] = calls[a]
    BY <1>t, <2>1 DEF Call
  <2> QED BY <1>k, <2>2 DEF States
<1>3. CASE \E p \in Parties : SendRequest(p)
  <2> PICK p \in Parties : SendRequest(p)
    BY <1>3
  <2>h. Head(todo[p]) \in Parties
    BY HeadOfTodo DEF SendRequest, InSendTo
  <2> PICK u \in Parties : u = Head(todo[p])
    BY <2>h
  <2>2. /\ pc[p] = "send" /\ u \notin waiting[p]
        /\ request' = [request EXCEPT ![p][u] = Append(@, calls[p])]
        /\ pc' = [pc EXCEPT ![p] = "await"]
        /\ UNCHANGED <<todo, calls, answer, service>>
    BY DEF SendRequest
  <2>3. CASE a = p
    <3>1. t = u
      BY <2>2, <2>3
    <3>2. /\ request[p][u] \in Seq(Numbers) /\ Len(request[p][u]) \in Nat
          /\ Len(answer[u][p]) \in Nat /\ Busy(p, u) \in Nat
          /\ Outstanding(p, u) = Len(request[p][u]) + Len(answer[u][p]) + Busy(p, u)
      BY WireTypes
    <3>3. Outstanding(p, u) = 0
      BY <2>2 DEF LockStep
    <3>4. Len(request[p][u]) = 0 /\ Len(answer[u][p]) = 0 /\ Busy(p, u) = 0
      BY ONLY <3>2, <3>3, SumZero
    <3>5. request[p][u] = <<>> /\ serving[u] # p
      BY <3>2, <3>4, EmptySeq DEF Busy
    <3>6. request'[p][u] = Append(request[p][u], calls[p])
      BY <1>t, <2>2
    <3>7. \A k \in 1 .. Len(request'[p][u]) : request'[p][u][k] = calls'[p]
      BY <2>2, <3>5, <3>6, SentAlone
    <3>8. \A k \in 1 .. Len(answer'[u][p]) : answer'[u][p][k] = calls'[p]
      BY <2>2, <3>4
    <3>9. serving'[u] # p
      BY <2>2, <3>5
    <3> QED BY <2>3, <3>1, <3>7, <3>8, <3>9 DEF FreshAt
  <2>4. CASE a # p
    <3>1. request'[a][t] = request[a][t] /\ pc[a] = "await"
      BY <1>t, <2>2, <2>4
    <3> QED BY <2>2, <3>1, FreshSame
  <2> QED BY <2>3, <2>4
<1>4. CASE \E p \in Parties : SendRefused(p) \/ Interrupt(p)
  <2> PICK p \in Parties : SendRefused(p) \/ Interrupt(p)
    BY <1>4
  <2>1. InSendTo(p) /\ Failed(p) /\ UNCHANGED <<service, wire>>
    BY DEF SendRefused, Interrupt, InSendTo
  <2>2. /\ pc' = [pc EXCEPT ![p] = "send"] \/ pc' = [pc EXCEPT ![p] = "idle"]
        /\ calls' = calls
    BY <2>1, FailedType
  <2>3. a # p => todo'[a] = todo[a]
    BY <1>t, <2>1 DEF Failed
  <2> QED BY <1>k, <2>1, <2>2, <2>3 DEF States
<1>5. CASE \E p \in Parties : ReceiveReply(p)
  <2> PICK p \in Parties : ReceiveReply(p)
    BY <1>5
  <2>0. pc' = [pc EXCEPT ![p] = "idle"] \/ pc' = [pc EXCEPT ![p] = "send"]
    BY DEF ReceiveReply
  <2>1. a # p
    BY <1>t, <2>0
  <2>h. Head(todo[p]) \in Parties
    BY HeadOfTodo DEF ReceiveReply, InSendTo
  <2> PICK u \in Parties : u = Head(todo[p])
    BY <2>h
  <2>2. answer' = [answer EXCEPT ![u][p] = Tail(@)] /\ UNCHANGED <<request, service>>
    BY DEF ReceiveReply
  <2>3. pc[a] = "await" /\ todo'[a] = todo[a] /\ calls'[a] = calls[a]
    BY <1>t, <2>1 DEF ReceiveReply
  <2>4. answer'[t][a] = answer[t][a]
    BY <1>t, <2>1, <2>2
  <2> QED BY <2>2, <2>3, <2>4, FreshSame
<1>6. CASE \E p \in Parties : CallReceive(p) \/ ReceiveRefused(p) \/ ReceiveThrows(p)
  <2> PICK p \in Parties : CallReceive(p) \/ ReceiveRefused(p) \/ ReceiveThrows(p)
    BY <1>6
  <2> QED BY <1>k DEF CallReceive, ReceiveRefused, ReceiveThrows, States
<1>7. CASE \E p, q \in Parties : ReceiveRequest(p, q) \/ ReceiveTooLong(p, q)
  <2> PICK p \in Parties, q \in Parties : ReceiveRequest(p, q) \/ ReceiveTooLong(p, q)
    BY <1>7
  <2>1. /\ request[q][p] # <<>>
        /\ request' = [request EXCEPT ![q][p] = Tail(@)]
        /\ serving' = [serving EXCEPT ![p] = q]
        /\ asked' = [asked EXCEPT ![p] = Head(request[q][p])]
        /\ pc' = [pc EXCEPT ![p] = "reply"] \/ pc' = [pc EXCEPT ![p] = "idle"]
        /\ UNCHANGED <<client, answer>>
    BY DEF ReceiveRequest, ReceiveTooLong, TakeRequest
  <2>2. pc[a] = "await" /\ t = Head(todo[a]) /\ calls' = calls
    BY <1>t, <2>1
  <2>3. FreshAt(a, t)
    BY <2>2 DEF Fresh, FreshAt
  <2>4. CASE a = q /\ t = p
    <3>1. request[q][p] \in Seq(Numbers) /\ Len(request[q][p]) \in Nat
      BY WireTypes
    <3>2. request'[q][p] = Tail(request[q][p]) /\ asked'[p] = Head(request[q][p])
      BY <1>t, <2>1
    <3>3. Len(request[q][p]) > 0
      BY <2>1, <3>1, EmptySeq
    <3>4. \A k \in 1 .. Len(request[q][p]) : request[q][p][k] = calls[q]
      BY <2>3, <2>4 DEF FreshAt
    <3>5. Head(request[q][p]) = calls[q]
      BY <3>1, <3>3, <3>4, SameElements
    <3>6. \A k \in 1 .. Len(Tail(request[q][p])) : Tail(request[q][p])[k] = calls[q]
      BY <3>1, <3>3, <3>4, SameElements
    <3>7. \A k \in 1 .. Len(request'[a][t]) : request'[a][t][k] = calls'[a]
      BY <2>2, <2>4, <3>2, <3>6
    <3>8. asked'[t] = calls'[a]
      BY <2>2, <2>4, <3>2, <3>5
    <3>9. answer' = answer
      BY <2>1
    <3> QED BY <2>2, <2>3, <3>7, <3>8, <3>9 DEF FreshAt
  <2>5. CASE t = p /\ a # q
    <3>1. request'[a][t] = request[a][t] /\ serving'[t] # a
      BY <1>t, <2>1, <2>5
    <3> QED BY <2>1, <2>2, <2>3, <3>1 DEF FreshAt
  <2>6. CASE t # p
    <3>1. request'[a][t] = request[a][t] /\ serving'[t] = serving[t] /\ asked'[t] = asked[t]
      BY <1>t, <2>1, <2>6
    <3> QED BY <2>1, <2>2, <3>1, FreshSame
  <2> QED BY <2>4, <2>5, <2>6
<1>8. CASE \E p \in Parties : Reply(p)
  <2> PICK p \in Parties : Reply(p)
    BY <1>8
  <2>h. serving[p] \in Parties
    BY <1>t DEF Reply, Owes
  <2> PICK q \in Parties : q = serving[p]
    BY <2>h
  <2>1. /\ answer' = [answer EXCEPT ![p][q] = IF pc[q] = "closed" THEN @ ELSE Append(@, asked[p])]
        /\ serving' = [serving EXCEPT ![p] = None]
        /\ pc' = [pc EXCEPT ![p] = "idle"]
        /\ UNCHANGED <<client, asked, request>>
    BY DEF Reply
  <2>2. pc[a] = "await" /\ t = Head(todo[a]) /\ calls' = calls
    BY <1>t, <2>1
  <2>3. FreshAt(a, t)
    BY <2>2 DEF Fresh, FreshAt
  <2>4. CASE a = q /\ t = p
    <3>1. /\ answer[p][q] \in Seq(Numbers) /\ asked[p] \in Numbers
          /\ Len(answer[p][q]) \in Nat
      BY <1>t, WireTypes
    <3>2. answer'[p][q] = Append(answer[p][q], asked[p])
      BY <1>t, <2>1, <2>2, <2>4
    <3>3. asked[p] = calls[q] /\ \A k \in 1 .. Len(answer[p][q]) : answer[p][q][k] = calls[q]
      BY <2>3, <2>4 DEF FreshAt
    <3>4. \A k \in 1 .. Len(Append(answer[p][q], asked[p])) :
            Append(answer[p][q], asked[p])[k] = calls[q]
      BY <3>1, <3>3
    <3>5. \A k \in 1 .. Len(answer'[t][a]) : answer'[t][a][k] = calls'[a]
      BY <2>2, <2>4, <3>2, <3>4
    <3>6. serving'[t] # a
      BY <1>t, <2>1, <2>4, NoneIsNoParty
    <3> QED BY <2>1, <2>2, <2>3, <3>5, <3>6 DEF FreshAt
  <2>5. CASE ~(a = q /\ t = p)
    <3>1. answer'[t][a] = answer[t][a]
      BY <1>t, <2>1, <2>5
    <3>2. serving'[t] = serving[t] \/ serving'[t] # a
      BY <1>t, <2>1, NoneIsNoParty
    <3> QED BY <2>1, <2>2, <2>3, <3>1, <3>2 DEF FreshAt
  <2> QED BY <2>4, <2>5
<1>9. CASE \E p \in Parties : Close(p)
  <2> PICK p \in Parties : Close(p)
    BY <1>9
  <2>1. /\ pc' = [pc EXCEPT ![p] = "closed"]
        /\ serving' = [serving EXCEPT ![p] = None]
        /\ UNCHANGED <<client, asked>>
    BY DEF Close
  <2>2. a # p /\ pc[a] = "await" /\ t = Head(todo[a]) /\ calls' = calls
    BY <1>t, <2>1
  <2>3. FreshAt(a, t)
    BY <2>2 DEF Fresh, FreshAt
  <2>4. request'[a][t] = request[a][t]
    BY <1>t, <2>2 DEF Close
  <2>5. answer'[t][a] = answer[t][a] \/ answer'[t][a] = <<>>
    BY <1>t, <2>2 DEF Close
  <2>6. \A k \in 1 .. Len(answer'[t][a]) : answer'[t][a][k] = calls'[a]
    BY <2>2, <2>3, <2>5, EmptySeq DEF FreshAt
  <2>7. serving'[t] = a => serving[t] = a
    BY <1>t, <2>1, NoneIsNoParty
  <2> QED BY <2>1, <2>2, <2>3, <2>4, <2>6, <2>7 DEF FreshAt
<1>10. CASE UNCHANGED vars
  BY <1>10, FreshSame
<1> QED BY <1>1, <1>2, <1>3, <1>4, <1>5, <1>6, <1>7, <1>8, <1>9, <1>10
       DEF Next, Send, Serve
-----------------------------------------------------------------------------
(* The theorems.                                                           *)

LEMMA InitReqRepInv == Init => ReqRepInv
<1> SUFFICES ASSUME Init PROVE ReqRepInv
  OBVIOUS
<1>1. TypeOK
  <2>1. 0 \in Numbers /\ 0 \in 0 .. MaxRetries - 1 /\ 0 \in 0 .. MaxInterrupts
    BY ReqRepAssumption DEF Numbers
  <2>2. <<>> \in Seq(Parties) /\ <<>> \in Seq(Numbers)
    OBVIOUS
  <2> QED BY <2>1, <2>2 DEF Init, TypeOK
<1>2. \A p \in Parties : pc[p] = "new"
  BY PartiesAreNodes DEF Init
<1>3. CallOK
  BY <1>2 DEF CallOK, InSendTo
<1>4. LockStep
  <2> SUFFICES ASSUME NEW a \in Parties, NEW t \in Parties
               PROVE  Outstanding(a, t) = 0 /\ t \notin waiting[a]
    BY DEF LockStep
  <2>1. request[a][t] = <<>> /\ answer[t][a] = <<>> /\ serving[t] = None
    BY DEF Init
  <2>2. Len(request[a][t]) = 0 /\ Len(answer[t][a]) = 0 /\ serving[t] # a
    BY <2>1, NoneIsNoParty
  <2> QED BY <2>2 DEF Init, Outstanding
<1>5. Fresh
  BY <1>2 DEF Fresh
<1> QED BY <1>1, <1>3, <1>4, <1>5 DEF ReqRepInv

\* (NetIOMPReqRep.cpp:53-172)  Every exchange under way carries the number of the
\* call that waits for it: as a request, while a party serves it or owes the reply
\* after its receive has thrown, and as a reply.
THEOREM Invariance == Spec => []ReqRepInv
<1>1. ReqRepInv /\ [Next]_vars => ReqRepInv'
  BY TypeNext, CallOKNext, LockStepNext, FreshNext DEF ReqRepInv
<1> QED BY <1>1, InitReqRepInv, PTL DEF Spec

\* (NetIOMPReqRep.cpp:53-172)  Every variable keeps its type: no sendTo counts its
\* tries or its messages past their bounds.
THEOREM TypeCorrect == Spec => []TypeOK
<1>1. ReqRepInv => TypeOK
  BY DEF ReqRepInv
<1> QED BY <1>1, Invariance, PTL

\* (NetIOMPReqRep.cpp:70-91, 107-151)  A REQ socket that waits has one exchange
\* under way and any other has none, whatever fails, however often sendTo tries
\* again, and whoever closes.
THEOREM ExchangesInLockStep == Spec => []LockStep
<1>1. ReqRepInv => LockStep
  BY DEF ReqRepInv
<1> QED BY <1>1, Invariance, PTL

\* (NetIOMPReqRep.cpp:76-85)  The reply that ends a sendTo answers the message of
\* that sendTo.
THEOREM RepliesMatch == Spec => []AnswerIsForThisCall
<1>1. ReqRepInv => AnswerIsForThisCall
  <2> SUFFICES ASSUME ReqRepInv, NEW p \in Parties, pc[p] = "await",
                      answer[Head(todo[p])][p] # <<>>
               PROVE  Head(answer[Head(todo[p])][p]) = calls[p]
    BY DEF AnswerIsForThisCall
  <2>1. Head(todo[p]) \in Parties
    BY HeadOfTodo DEF ReqRepInv, InSendTo
  <2> PICK t \in Parties : t = Head(todo[p])
    BY <2>1
  <2>2. answer[t][p] \in Seq(Numbers) /\ Len(answer[t][p]) \in Nat
    BY WireTypes DEF ReqRepInv
  <2>3. Len(answer[t][p]) > 0
    BY <2>2, EmptySeq
  <2>4. \A k \in 1 .. Len(answer[t][p]) : answer[t][p][k] = calls[p]
    BY DEF ReqRepInv, Fresh
  <2> QED BY <2>2, <2>3, <2>4, SameElements
<1> QED BY <1>1, Invariance, PTL

-----------------------------------------------------------------------------
(* Where no ZeroMQ call fails.                                             *)

LEMMA OnlyFailuresNext ==
  ReqRepInv /\ OnlyFailuresFail /\ [Next]_vars => OnlyFailuresFail'
<1> SUFFICES ASSUME ReqRepInv, OnlyFailuresFail, [Next]_vars, interrupts' = 0, NEW a \in Parties
             PROVE  threw'[a] = {}
                    /\ waiting'[a] = IF pc'[a] = "await" THEN {Head(todo'[a])} ELSE {}
  BY DEF OnlyFailuresFail
<1> USE PartiesAreNodes DEF vars, client, service, wire, Goto
<1>t. /\ pc \in [Nodes -> States]
      /\ todo \in [Parties -> Seq(Parties)]
      /\ threw \in [Parties -> SUBSET Numbers]
      /\ waiting \in [Parties -> SUBSET Parties]
      /\ interrupts \in 0 .. MaxInterrupts
  BY DEF ReqRepInv, TypeOK, States
<1>i. interrupts \in Nat /\ interrupts + 1 # 0
  BY <1>t, ReqRepAssumption
<1>k. ASSUME interrupts = 0
      PROVE  \A p \in Parties :
               /\ threw[p] = {}
               /\ waiting[p] = IF pc[p] = "await" THEN {Head(todo[p])} ELSE {}
  BY <1>k DEF OnlyFailuresFail
<1>m. ASSUME NEW p \in Nodes, NEW where \in States, where # "await", pc[p] # "await",
             pc' = [pc EXCEPT ![p] = where], UNCHANGED <<threw, waiting>>,
             a # p => todo'[a] = todo[a], interrupts = 0
      PROVE  threw'[a] = {}
             /\ waiting'[a] = IF pc'[a] = "await" THEN {Head(todo'[a])} ELSE {}
  BY <1>m, <1>t, <1>k
<1>1. CASE \E p \in Nodes : Start(p)
  <2> PICK p \in Nodes : Start(p)
    BY <1>1
  <2> QED BY <1>m DEF Start, States
<1>2. CASE \E p \in Parties : CallSendTo(p) \/ CallSendToAll(p)
  <2> PICK p \in Parties : CallSendTo(p) \/ CallSendToAll(p)
    BY <1>2
  <2>1. PICK targets : Call(p, targets)
    BY DEF CallSendTo, CallSendToAll
  <2>2. a # p => todo'[a] = todo[a]
    BY <1>t, <2>1 DEF Call
  <2> QED BY <1>m, <2>1, <2>2 DEF Call, States
<1>3. CASE \E p \in Parties : SendRequest(p)
  <2> PICK p \in Parties : SendRequest(p)
    BY <1>3
  <2>1. interrupts = 0
    BY DEF SendRequest
  <2>2. CASE a = p
    BY <1>t, <1>k, <2>1, <2>2 DEF SendRequest
  <2>3. CASE a # p
    BY <1>t, <1>k, <2>1, <2>3 DEF SendRequest
  <2> QED BY <2>2, <2>3
<1>4. CASE \E p \in Parties : SendRefused(p)
  <2> PICK p \in Parties : SendRefused(p)
    BY <1>4
  <2>1. interrupts = 0 /\ pc[p] = "send" /\ Head(todo[p]) \in waiting[p]
    BY DEF SendRefused
  <2>2. waiting[p] = {}
    BY <1>k, <2>1
  <2> QED BY <2>1, <2>2
<1>5. CASE \E p \in Parties : ReceiveReply(p)
  <2> PICK p \in Parties : ReceiveReply(p)
    BY <1>5
  <2>1. interrupts = 0 /\ pc[p] = "await"
    BY DEF ReceiveReply
  <2>2. waiting[p] = {Head(todo[p])}
    BY <1>k, <2>1
  <2>3. CASE a = p
    <3>1. waiting'[p] = waiting[p] \ {Head(todo[p])} /\ threw' = threw
      BY <1>t DEF ReceiveReply
    <3>2. waiting'[p] = {}
      BY <2>2, <3>1
    <3>3. pc'[p] # "await"
      BY <1>t DEF ReceiveReply
    <3> QED BY <1>k, <2>1, <2>3, <3>1, <3>2, <3>3
  <2>4. CASE a # p
    BY <1>t, <1>k, <2>1, <2>4 DEF ReceiveReply
  <2> QED BY <2>3, <2>4
<1>6. CASE \E p \in Parties : CallReceive(p) \/ ReceiveRefused(p)
  <2> PICK p \in Parties : CallReceive(p) \/ ReceiveRefused(p)
    BY <1>6
  <2> QED BY <1>m DEF CallReceive, ReceiveRefused, States
<1>7. CASE \E p, q \in Parties : ReceiveRequest(p, q) \/ ReceiveTooLong(p, q)
  <2> PICK p \in Parties, q \in Parties : ReceiveRequest(p, q) \/ ReceiveTooLong(p, q)
    BY <1>7
  <2> QED BY <1>m DEF ReceiveRequest, ReceiveTooLong, TakeRequest, States
<1>8. CASE \E p \in Parties : Reply(p)
  <2> PICK p \in Parties : Reply(p)
    BY <1>8
  <2> QED BY <1>m DEF Reply, States
<1>9. CASE \E p \in Parties : Close(p)
  <2> PICK p \in Parties : Close(p)
    BY <1>9
  <2> QED BY <1>m DEF Close, States
<1>10. CASE \E p \in Parties : Interrupt(p) \/ ReceiveThrows(p)
  BY <1>10, <1>i DEF Interrupt, ReceiveThrows
<1>11. CASE UNCHANGED vars
  BY <1>11, <1>k
<1> QED BY <1>1, <1>2, <1>3, <1>4, <1>5, <1>6, <1>7, <1>8, <1>9, <1>10, <1>11
       DEF Next, Send, Serve

\* (NetIOMPReqRep.cpp:86-95)  As long as no ZeroMQ call fails from outside, no
\* sendTo throws and none leaves its REQ socket waiting.
THEOREM FailuresComeFromOutside == Spec => []OnlyFailuresFail
<1>1. Init => OnlyFailuresFail
  <2> SUFFICES ASSUME Init, NEW p \in Parties
               PROVE  threw[p] = {} /\ waiting[p] = {} /\ pc[p] # "await"
    BY DEF OnlyFailuresFail
  <2> QED BY PartiesAreNodes DEF Init
<1> QED BY <1>1, OnlyFailuresNext, Invariance, PTL DEF Spec
=============================================================================
