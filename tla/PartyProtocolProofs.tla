------------------------- MODULE PartyProtocolProofs -------------------------
(***************************************************************************)
(* Proofs about module PartyProtocol, for any number N of parties and with *)
(* timeouts at any moment.                                                 *)
(*                                                                         *)
(* The inductive invariant has one part per pair of processes.  Seen from  *)
(* one party p, the secret holder has done the first Progress(p) steps of  *)
(* its program, and what is under way between the two of them is one of    *)
(* the few lines of SessionAt.  Opening(p) says what p has added up, and   *)
(* Peers(q, p) that q sends p at most one opening, which p adds at most    *)
(* once.                                                                   *)
(***************************************************************************)
EXTENDS PartyProtocol, FiniteSetTheorems, SequenceTheorems, TLAPS

\* The steps of its program the secret holder has done as far as p can tell.
Progress(p) == dealer.step - 1 + (IF p < dealer.to THEN 1 ELSE 0)

\* What is under way between the secret holder and a party after the first k
\* steps of the program: the requests the party has not received, the replies
\* the secret holder has not received, where the party is, whether it has
\* stored its shares, and its product.
After0(req, rep, at, has, y) ==
  req = <<>> /\ rep = <<>> /\ at = "loop" /\ ~has /\ y = "zero"

After1(req, rep, at, has, y) ==
  /\ rep = <<>> /\ ~has /\ y = "zero"
  /\ \/ req = <<"SendShares">> /\ at = "loop"
     \/ req = <<>> /\ at \in {"shares", "loop"}

After2(req, rep, at, has, y) ==
  /\ y = "zero"
  /\ \/ req = <<"SendShares", "Shares">> /\ rep = <<>> /\ at = "loop" /\ ~has
     \/ req = <<"Shares">> /\ rep = <<>> /\ at \in {"shares", "loop"} /\ ~has
     \/ req = <<>> /\ rep = <<>> /\ at \in {"loop", "dead"} /\ ~has
     \/ req = <<>> /\ rep = <<"Success">> /\ at = "loop" /\ has

After3(req, rep, at, has, y) ==
  req = <<>> /\ rep = <<>> /\ at = "loop" /\ has /\ y = "zero"

After4(req, rep, at, has, y) ==
  /\ at = "loop" /\ has /\ y = "zero"
  /\ \/ req = <<"Addition">> /\ rep = <<>>
     \/ req = <<>> /\ rep = <<"Sum">>

After5(req, rep, at, has, y) ==
  req = <<>> /\ rep = <<>> /\ at = "loop" /\ has /\ y = "zero"

After6(req, rep, at, has, y) ==
  /\ rep = <<>> /\ has /\ y = "zero"
  /\ \/ req = <<"Multiplication">> /\ at = "loop"
     \/ req = <<>> /\ at = "triple"
     \/ at = "dead"

After7(req, rep, at, has, y) ==
  /\ has
  /\ \/ req = <<"Multiplication", "Triple">> /\ rep = <<>> /\ at = "loop" /\ y = "zero"
     \/ req = <<"Triple">> /\ rep = <<>> /\ at = "triple" /\ y = "zero"
     \/ req = <<>> /\ rep = <<"Success">> /\ at = "open" /\ y = "zero"
     \/ rep \in {<<>>, <<"Success">>} /\ at = "dead" /\ y = "zero"
     \/ req = <<>> /\ rep = <<"Success", "Success">> /\ at = "loop" /\ y = "product"

After8(req, rep, at, has, y) ==
  /\ has
  /\ \/ req = <<>> /\ rep = <<>> /\ at = "open" /\ y = "zero"
     \/ rep = <<>> /\ at = "dead" /\ y = "zero"
     \/ req = <<>> /\ rep = <<"Success">> /\ at = "loop" /\ y = "product"

After9(req, rep, at, has, y) ==
  req = <<>> /\ rep = <<>> /\ at = "loop" /\ has /\ y = "product"

After10(req, rep, at, has, y) ==
  /\ at = "loop" /\ has
  /\ \/ req = <<"FetchMultShare">> /\ rep = <<>> /\ y = "product"
     \/ req = <<>> /\ rep = <<"Success", "Z", "ZMac", "Sigma">> /\ y = "freed"

Fetched(req, at, has, y) == req = <<>> /\ at = "loop" /\ has /\ y = "freed"

After15(closed, req, rep, at, has, y) ==
  /\ rep = <<>> /\ has /\ y = "freed"
  /\ \/ req = <<"Shutdown">> /\ at = "loop"
     \/ req = <<>> /\ at = "exited"
     \/ req = <<>> /\ at = "loop" /\ closed

SessionAt(k, closed, req, rep, at, has, y) ==
  /\ k = 0 => After0(req, rep, at, has, y)
  /\ k = 1 => After1(req, rep, at, has, y)
  /\ k = 2 => After2(req, rep, at, has, y)
  /\ k = 3 => After3(req, rep, at, has, y)
  /\ k = 4 => After4(req, rep, at, has, y)
  /\ k = 5 => After5(req, rep, at, has, y)
  /\ k = 6 => After6(req, rep, at, has, y)
  /\ k = 7 => After7(req, rep, at, has, y)
  /\ k = 8 => After8(req, rep, at, has, y)
  /\ k = 9 => After9(req, rep, at, has, y)
  /\ k = 10 => After10(req, rep, at, has, y)
  /\ k = 11 => Fetched(req, at, has, y) /\ rep = <<"Z", "ZMac", "Sigma">>
  /\ k = 12 => Fetched(req, at, has, y) /\ rep = <<"ZMac", "Sigma">>
  /\ k = 13 => Fetched(req, at, has, y) /\ rep = <<"Sigma">>
  /\ k = 14 => Fetched(req, at, has, y) /\ rep = <<>>
  /\ k = 15 => After15(closed, req, rep, at, has, y)

Session(p) ==
  SessionAt(Progress(p), dealer.status = "closed",
            toRouter[Dealer][p], toDealer[p][Dealer], pc[p], stored[p], z[p])

\* q has sent its opening, or has died.
Opened(q) == pc[q] \in {"open", "dead"} \/ z[q] # "zero"

Opening(p) ==
  /\ added[p] \subseteq Parties \ {p}
  /\ count[p] = Cardinality(added[p])
  /\ z[p] = "zero" /\ pc[p] \notin {"open", "dead"} => added[p] = {}
  /\ z[p] # "zero" => added[p] = Parties \ {p}

Peers(q, p) ==
  /\ toRouter[q][p] \in {<<>>, <<"DE">>}
  /\ toRouter[q][p] = <<"DE">> =>
       q # p /\ Opened(q) /\ q \notin added[p] /\ dealer.step > 6
  /\ q \in added[p] => Opened(q)
  /\ toDealer[p][q] = <<>>

DealerState ==
  /\ dealer.status \in {"running", "closed"}
  /\ dealer.status = "closed" => dealer.step = 16
  /\ dealer.step = 16 => dealer.to = 1

\* (Party.cpp:75-365 against 828-1134)  The inductive invariant: every pair of
\* processes is at one of the listed points of the session, together.
IInv ==
  /\ TypeOK
  /\ DealerState
  /\ \A p \in Parties : Session(p) /\ Opening(p)
  /\ \A p, q \in Parties : Peers(q, p)

-----------------------------------------------------------------------------
(* Short sequences.                                                        *)

\* The first message on an empty connection.
LEMMA AppendEmpty ==
  ASSUME NEW a
  PROVE  Append(<<>>, a) = <<a>>
OBVIOUS

\* A sequence of length two is its two elements.
LEMMA TwoElements ==
  ASSUME NEW S, NEW s \in Seq(S), Len(s) = 2
  PROVE  s = <<s[1], s[2]>>
<1>. DEFINE t == <<s[1], s[2]>>
<1>1. s[1] \in S /\ s[2] \in S
  BY ElementOfSeq
<1>2. t \in Seq(S) /\ Len(t) = 2 /\ t[1] = s[1] /\ t[2] = s[2]
  BY <1>1
<1>. HIDE DEF t
<1>3. \A i \in 1 .. Len(s) : i = 1 \/ i = 2
  OBVIOUS
<1>4. \A i \in 1 .. Len(s) : s[i] = t[i]
  BY <1>2, <1>3
<1>5. s = t
  BY <1>2, <1>4, SeqEqual
<1>. QED
  BY <1>5 DEF t

\* The second message on a connection.
LEMMA AppendOne ==
  ASSUME NEW a, NEW b
  PROVE  Append(<<a>>, b) = <<a, b>>
<1>. DEFINE S == {a, b}
            s == Append(<<a>>, b)
<1>1. <<a>> \in Seq(S) /\ b \in S /\ Len(<<a>>) = 1 /\ <<a>>[1] = a
  OBVIOUS
<1>2. s \in Seq(S) /\ Len(s) = 2 /\ s[1] = a /\ s[2] = b
  BY <1>1, AppendProperties
<1>. HIDE DEF s, S
<1>3. s = <<a, b>>
  BY <1>2, TwoElements
<1>. QED
  BY <1>3 DEF s

\* A second reply behind the first.
LEMMA ConcatOnes ==
  ASSUME NEW a, NEW b
  PROVE  <<a>> \o <<b>> = <<a, b>>
<1>1. <<a>> \in Seq({a, b}) /\ b \in {a, b}
  OBVIOUS
<1>. QED
  BY <1>1, AppendIsConcat, AppendOne

-----------------------------------------------------------------------------
(* The program of the secret holder, step by step.                         *)

\* The fifteen broadcasts and loops of receives of Party::init.
LEMMA ProgramSteps ==
  /\ Program \in Seq([op: {"send", "receive"}, msg: Requests \cup Replies])
  /\ Len(Program) = 15
  /\ DOMAIN Program = 1 .. 15
  /\ Program[1] = Send("SendShares")
  /\ Program[2] = Send("Shares")
  /\ Program[3] = Await("Success")
  /\ Program[4] = Send("Addition")
  /\ Program[5] = Await("Sum")
  /\ Program[6] = Send("Multiplication")
  /\ Program[7] = Send("Triple")
  /\ Program[8] = Await("Success")
  /\ Program[9] = Await("Success")
  /\ Program[10] = Send("FetchMultShare")
  /\ Program[11] = Await("Success")
  /\ Program[12] = Await("Z")
  /\ Program[13] = Await("ZMac")
  /\ Program[14] = Await("Sigma")
  /\ Program[15] = Send("Shutdown")
<1>. DEFINE S == [op: {"send", "receive"}, msg: Requests \cup Replies]
            s1 == ShareRound
            s2 == s1 \o AdditionRound
            s3 == s2 \o MultiplicationRound
            s4 == s3 \o FetchRound
            s5 == s4 \o ShutdownRound
<1>1. /\ ShareRound \in Seq(S) /\ Len(ShareRound) = 3
      /\ AdditionRound \in Seq(S) /\ Len(AdditionRound) = 2
      /\ MultiplicationRound \in Seq(S) /\ Len(MultiplicationRound) = 4
      /\ FetchRound \in Seq(S) /\ Len(FetchRound) = 5
      /\ ShutdownRound \in Seq(S) /\ Len(ShutdownRound) = 1
  <2>1. /\ Send("SendShares") \in S /\ Send("Shares") \in S /\ Send("Addition") \in S
        /\ Send("Multiplication") \in S /\ Send("Triple") \in S
        /\ Send("FetchMultShare") \in S /\ Send("Shutdown") \in S
        /\ Await("Success") \in S /\ Await("Sum") \in S /\ Await("Z") \in S
        /\ Await("ZMac") \in S /\ Await("Sigma") \in S
    BY DEF Send, Await, Requests, Commands, Payloads, Replies
  <2>. HIDE DEF S
  <2>. QED
    BY <2>1 DEF ShareRound, AdditionRound, MultiplicationRound, FetchRound, ShutdownRound
<1>. HIDE DEF S
<1>2. /\ s2 \in Seq(S) /\ Len(s2) = 5
      /\ \A i \in 1 .. 3 : s2[i] = s1[i]
      /\ \A i \in 4 .. 5 : s2[i] = AdditionRound[i - 3]
  <2>1. s2 = s1 \o AdditionRound
    BY DEF s2
  <2>. HIDE DEF s2
  <2>2. s1 \in Seq(S) /\ AdditionRound \in Seq(S)
    BY <1>1
  <2>3. /\ s2 \in Seq(S)
        /\ Len(s2) = Len(s1) + Len(AdditionRound)
        /\ \A i \in 1 .. Len(s1) + Len(AdditionRound) :
             s2[i] = IF i <= Len(s1) THEN s1[i] ELSE AdditionRound[i - Len(s1)]
    BY <2>1, <2>2, ConcatProperties
  <2>. QED
    BY <1>1, <2>3
<1>. HIDE DEF s2
<1>3. /\ s3 \in Seq(S) /\ Len(s3) = 9
      /\ \A i \in 1 .. 5 : s3[i] = s2[i]
      /\ \A i \in 6 .. 9 : s3[i] = MultiplicationRound[i - 5]
  <2>1. s3 = s2 \o MultiplicationRound
    BY DEF s3
  <2>. HIDE DEF s3
  <2>2. s2 \in Seq(S) /\ MultiplicationRound \in Seq(S)
    BY <1>1, <1>2
  <2>3. /\ s3 \in Seq(S)
        /\ Len(s3) = Len(s2) + Len(MultiplicationRound)
        /\ \A i \in 1 .. Len(s2) + Len(MultiplicationRound) :
             s3[i] = IF i <= Len(s2) THEN s2[i] ELSE MultiplicationRound[i - Len(s2)]
    BY <2>1, <2>2, ConcatProperties
  <2>. QED
    BY <1>1, <1>2, <2>3
<1>. HIDE DEF s3
<1>4. /\ s4 \in Seq(S) /\ Len(s4) = 14
      /\ \A i \in 1 .. 9 : s4[i] = s3[i]
      /\ \A i \in 10 .. 14 : s4[i] = FetchRound[i - 9]
  <2>1. s4 = s3 \o FetchRound
    BY DEF s4
  <2>. HIDE DEF s4
  <2>2. s3 \in Seq(S) /\ FetchRound \in Seq(S)
    BY <1>1, <1>3
  <2>3. /\ s4 \in Seq(S)
        /\ Len(s4) = Len(s3) + Len(FetchRound)
        /\ \A i \in 1 .. Len(s3) + Len(FetchRound) :
             s4[i] = IF i <= Len(s3) THEN s3[i] ELSE FetchRound[i - Len(s3)]
    BY <2>1, <2>2, ConcatProperties
  <2>. QED
    BY <1>1, <1>3, <2>3
<1>. HIDE DEF s4
<1>5. /\ s5 \in Seq(S) /\ Len(s5) = 15
      /\ \A i \in 1 .. 14 : s5[i] = s4[i]
      /\ \A i \in 15 .. 15 : s5[i] = ShutdownRound[i - 14]
  <2>1. s5 = s4 \o ShutdownRound
    BY DEF s5
  <2>. HIDE DEF s5
  <2>2. s4 \in Seq(S) /\ ShutdownRound \in Seq(S)
    BY <1>1, <1>4
  <2>3. /\ s5 \in Seq(S)
        /\ Len(s5) = Len(s4) + Len(ShutdownRound)
        /\ \A i \in 1 .. Len(s4) + Len(ShutdownRound) :
             s5[i] = IF i <= Len(s4) THEN s4[i] ELSE ShutdownRound[i - Len(s4)]
    BY <2>1, <2>2, ConcatProperties
  <2>. QED
    BY <1>1, <1>4, <2>3
<1>6. Program = s5
  BY DEF Program, s2, s3, s4
<1>. HIDE DEF s5
<1>7. /\ Program[1] = ShareRound[1] /\ Program[2] = ShareRound[2]
      /\ Program[3] = ShareRound[3]
      /\ Program[4] = AdditionRound[1] /\ Program[5] = AdditionRound[2]
  BY <1>2, <1>3, <1>4, <1>5, <1>6
<1>8. /\ Program[6] = MultiplicationRound[1] /\ Program[7] = MultiplicationRound[2]
      /\ Program[8] = MultiplicationRound[3] /\ Program[9] = MultiplicationRound[4]
  BY <1>3, <1>4, <1>5, <1>6
<1>9. /\ Program[10] = FetchRound[1] /\ Program[11] = FetchRound[2]
      /\ Program[12] = FetchRound[3] /\ Program[13] = FetchRound[4]
      /\ Program[14] = FetchRound[5] /\ Program[15] = ShutdownRound[1]
  BY <1>4, <1>5, <1>6
<1>10. Program \in Seq(S) /\ Len(Program) = 15 /\ DOMAIN Program = 1 .. 15
  BY <1>5, <1>6, LenProperties
<1>. QED
  BY <1>7, <1>8, <1>9, <1>10
     DEF S, ShareRound, AdditionRound, MultiplicationRound, FetchRound, ShutdownRound

\* What a step of the program does, and with which message.
LEMMA Operations ==
  ASSUME NEW m
  PROVE  /\ Send(m).op = "send" /\ Send(m).msg = m
         /\ Await(m).op = "receive" /\ Await(m).msg = m
BY DEF Send, Await

\* The steps that send, and those that receive.
LEMMA ProgramOps ==
  ASSUME NEW k \in 1 .. 15
  PROVE  /\ Program[k].op = "send" => k \in {1, 2, 4, 6, 7, 10, 15}
         /\ Program[k].op = "receive" => k \in {3, 5, 8, 9, 11, 12, 13, 14}
BY ProgramSteps, Operations

-----------------------------------------------------------------------------
(* Short sequences of requests and replies, as they grow and shrink.       *)

\* What a receive takes from a connection, and what it leaves.
LEMMA Tails ==
  ASSUME NEW a, NEW b, NEW c, NEW d
  PROVE  /\ Head(<<a>>) = a /\ Tail(<<a>>) = <<>>
         /\ Head(<<a, b>>) = a /\ Tail(<<a, b>>) = <<b>>
         /\ Head(<<a, b, c>>) = a /\ Tail(<<a, b, c>>) = <<b, c>>
         /\ Head(<<a, b, c, d>>) = a /\ Tail(<<a, b, c, d>>) = <<b, c, d>>
OBVIOUS

\* What a reply makes of a connection that holds at most one.
LEMMA Growth ==
  ASSUME NEW a, NEW b, NEW c, NEW d
  PROVE  /\ <<>> \o <<a>> = <<a>>
         /\ <<>> \o <<a, b, c, d>> = <<a, b, c, d>>
         /\ <<>> \o <<a, b, c>> = <<a, b, c>>
         /\ <<a>> \o <<b>> = <<a, b>>
<1>1. <<a>> \in Seq({a, b, c, d}) /\ <<a, b, c, d>> \in Seq({a, b, c, d})
      /\ <<a, b, c>> \in Seq({a, b, c, d})
  OBVIOUS
<1>. QED
  BY <1>1, ConcatEmptySeq, ConcatOnes

\* What linger 0 leaves of a connection that holds at most one message.
LEMMA Cuts ==
  ASSUME NEW a
  PROVE  /\ Remains(<<>>) = {<<>>}
         /\ Remains(<<a>>) = {<<>>, <<a>>}
<1>1. Len(<<>>) = 0 /\ Len(<<a>>) = 1 /\ <<a>> \in Seq({a})
  OBVIOUS
<1>2. SubSeq(<<>>, 1, 0) = <<>> /\ SubSeq(<<a>>, 1, 0) = <<>>
  BY SubSeqEmpty
<1>3. SubSeq(<<a>>, 1, 1) = <<a>>
  <2>. DEFINE t == <<a>>
  <2>1. t \in Seq({a}) /\ Len(t) = 1
    OBVIOUS
  <2>. HIDE DEF t
  <2>2. SubSeq(t, 1, 1) = t
    BY <2>1, SubSeqFull
  <2>. QED
    BY <2>2 DEF t
<1>4. 0 .. Len(<<>>) = {0} /\ 0 .. Len(<<a>>) = {0, 1}
  BY <1>1
<1>5. Remains(<<>>) = {SubSeq(<<>>, 1, k) : k \in {0}}
  BY <1>4 DEF Remains
<1>6. Remains(<<a>>) = {SubSeq(<<a>>, 1, k) : k \in {0, 1}}
  BY <1>4 DEF Remains
<1>. QED
  BY <1>2, <1>3, <1>5, <1>6

-----------------------------------------------------------------------------
(* How one step moves a session along.                                     *)

\* What a party that still runs finds on its connection from the secret holder.
LEMMA Pending ==
  ASSUME NEW k \in 0 .. 15, NEW c, NEW req, NEW rep, NEW at, NEW has \in BOOLEAN, NEW y,
         SessionAt(k, c, req, rep, at, has, y),
         at \notin {"exited", "dead"}, req # <<>>
  PROVE  \/ /\ rep = <<>> /\ ~has /\ y = "zero"
            /\ \/ k = 1 /\ req = <<"SendShares">> /\ at = "loop"
               \/ k = 2 /\ req = <<"SendShares", "Shares">> /\ at = "loop"
               \/ k = 2 /\ req = <<"Shares">> /\ at \in {"shares", "loop"}
         \/ /\ rep = <<>> /\ has /\ y = "zero"
            /\ \/ k = 4 /\ req = <<"Addition">> /\ at = "loop"
               \/ k = 6 /\ req = <<"Multiplication">> /\ at = "loop"
               \/ k = 7 /\ req = <<"Multiplication", "Triple">> /\ at = "loop"
               \/ k = 7 /\ req = <<"Triple">> /\ at = "triple"
         \/ /\ k = 10 /\ req = <<"FetchMultShare">> /\ rep = <<>>
            /\ at = "loop" /\ has /\ y = "product"
         \/ /\ k = 15 /\ req = <<"Shutdown">> /\ rep = <<>>
            /\ at = "loop" /\ has /\ y = "freed"
<1>1. k = 0 => FALSE
  BY DEF SessionAt, After0
<1>2. k = 1 => k = 1 /\ req = <<"SendShares">> /\ at = "loop" /\ rep = <<>> /\ ~has /\ y = "zero"
  BY DEF SessionAt, After1
<1>3. ASSUME k = 2 PROVE After2(req, rep, at, has, y)
  BY <1>3 DEF SessionAt
<1>4. k \in {3, 5, 8, 9, 11, 12, 13, 14} => FALSE
  BY DEF SessionAt, After3, After5, After8, After9, Fetched
<1>5. ASSUME k = 4 PROVE After4(req, rep, at, has, y)
  BY <1>5 DEF SessionAt
<1>6. ASSUME k = 6 PROVE After6(req, rep, at, has, y)
  BY <1>6 DEF SessionAt
<1>7. ASSUME k = 7 PROVE After7(req, rep, at, has, y)
  BY <1>7 DEF SessionAt
<1>8. ASSUME k = 10 PROVE After10(req, rep, at, has, y)
  BY <1>8 DEF SessionAt
<1>9. ASSUME k = 15 PROVE After15(c, req, rep, at, has, y)
  BY <1>9 DEF SessionAt
<1>10. k \in {0, 1, 2, 3, 4, 5, 6, 7, 8, 9, 10, 11, 12, 13, 14, 15}
  OBVIOUS
<1>11. CASE k \in {0, 1, 3, 5, 8, 9, 11, 12, 13, 14}
  BY <1>11, <1>1, <1>2, <1>4
<1>12. CASE k \in {2, 4, 6}
  BY <1>12, <1>3, <1>5, <1>6 DEF After2, After4, After6
<1>13. CASE k \in {7, 10, 15}
  BY <1>13, <1>7, <1>8, <1>9 DEF After7, After10, After15
<1>. QED
  BY <1>10, <1>11, <1>12, <1>13

\* Where a party is that waits inside handleMessage.
LEMMA Busy ==
  ASSUME NEW k \in 0 .. 15, NEW c, NEW req, NEW rep, NEW at, NEW has \in BOOLEAN, NEW y,
         SessionAt(k, c, req, rep, at, has, y),
         at \in {"shares", "triple", "open"}
  PROVE  \/ /\ at = "shares" /\ rep = <<>> /\ ~has /\ y = "zero"
            /\ \/ k = 1 /\ req = <<>>
               \/ k = 2 /\ req \in {<<>>, <<"Shares">>}
         \/ /\ at = "triple" /\ rep = <<>> /\ has /\ y = "zero"
            /\ \/ k = 6 /\ req = <<>>
               \/ k = 7 /\ req = <<"Triple">>
         \/ /\ at = "open" /\ req = <<>> /\ has /\ y = "zero"
            /\ \/ k = 7 /\ rep = <<"Success">>
               \/ k = 8 /\ rep = <<>>
<1>1. CASE k = 1
  BY <1>1 DEF SessionAt, After1
<1>2. CASE k = 2
  BY <1>2 DEF SessionAt, After2
<1>3. CASE k = 6
  BY <1>3 DEF SessionAt, After6
<1>4. CASE k = 7
  BY <1>4 DEF SessionAt, After7
<1>5. CASE k = 8
  BY <1>5 DEF SessionAt, After8
<1>6. CASE k \in {0, 3, 4, 5, 9, 10}
  BY <1>6 DEF SessionAt, After0, After3, After4, After5, After9, After10
<1>7. CASE k \in {11, 12, 13, 14, 15}
  BY <1>7 DEF SessionAt, Fetched, After15
<1>. QED
  BY <1>1, <1>2, <1>3, <1>4, <1>5, <1>6, <1>7

\* CMD_SEND_SHARES
LEMMA SessionSendShares ==
  ASSUME NEW k \in 0 .. 15, NEW c, NEW req, NEW rep, NEW at, NEW has \in BOOLEAN, NEW y,
         SessionAt(k, c, req, rep, at, has, y),
         at = "loop", req # <<>>, Head(req) = "SendShares"
  PROVE  SessionAt(k, c, Tail(req), rep, "shares", has, y)
<1>1. \/ k = 1 /\ req = <<"SendShares">> /\ rep = <<>> /\ ~has /\ y = "zero"
      \/ k = 2 /\ req = <<"SendShares", "Shares">> /\ rep = <<>> /\ ~has /\ y = "zero"
  BY Pending, Tails
<1>2. CASE k = 1
  <2>1. req = <<"SendShares">>
    BY <1>1, <1>2
  <2>2. Tail(req) = <<>>
    BY <2>1, Tails
  <2>3. SessionAt(k, c, <<>>, rep, "shares", has, y)
    BY <1>1, <1>2 DEF SessionAt, After1
  <2>. QED
    BY <2>2, <2>3
<1>3. CASE k = 2
  <2>1. req = <<"SendShares", "Shares">>
    BY <1>1, <1>3
  <2>2. Tail(req) = <<"Shares">>
    BY <2>1, Tails
  <2>3. SessionAt(k, c, <<"Shares">>, rep, "shares", has, y)
    BY <1>1, <1>3 DEF SessionAt, After2
  <2>. QED
    BY <2>2, <2>3
<1>. QED
  BY <1>1, <1>2, <1>3

\* The shares themselves
LEMMA SessionStoreShares ==
  ASSUME NEW k \in 0 .. 15, NEW c, NEW req, NEW rep, NEW at, NEW has \in BOOLEAN, NEW y,
         SessionAt(k, c, req, rep, at, has, y),
         at = "shares", req # <<>>
  PROVE  /\ Head(req) = "Shares"
         /\ SessionAt(k, c, Tail(req), rep \o <<"Success">>, "loop", TRUE, y)
<1>1. k = 2 /\ req = <<"Shares">> /\ rep = <<>> /\ y = "zero"
  BY Pending
<1>2. Head(req) = "Shares" /\ Tail(req) = <<>> /\ rep \o <<"Success">> = <<"Success">>
  BY <1>1, Tails, Growth
<1>. QED
  BY <1>1, <1>2 DEF SessionAt, After2

\* CMD_ADDITION
LEMMA SessionAddition ==
  ASSUME NEW k \in 0 .. 15, NEW c, NEW req, NEW rep, NEW has \in BOOLEAN, NEW y,
         SessionAt(k, c, req, rep, "loop", has, y),
         req # <<>>, Head(req) = "Addition"
  PROVE  has /\ SessionAt(k, c, Tail(req), rep \o <<"Sum">>, "loop", has, y)
<1>1. k = 4 /\ req = <<"Addition">> /\ rep = <<>> /\ has /\ y = "zero"
  BY Pending, Tails
<1>2. Tail(req) = <<>> /\ rep \o <<"Sum">> = <<"Sum">>
  BY <1>1, Tails, Growth
<1>. QED
  BY <1>1, <1>2 DEF SessionAt, After4

\* CMD_MULTIPLICATION
LEMMA SessionMultiplication ==
  ASSUME NEW k \in 0 .. 15, NEW c, NEW req, NEW rep, NEW at, NEW has \in BOOLEAN, NEW y,
         SessionAt(k, c, req, rep, at, has, y),
         at = "loop", req # <<>>, Head(req) = "Multiplication"
  PROVE  y = "zero" /\ SessionAt(k, c, Tail(req), rep, "triple", has, y)
<1>1. \/ k = 6 /\ req = <<"Multiplication">> /\ rep = <<>> /\ has /\ y = "zero"
      \/ k = 7 /\ req = <<"Multiplication", "Triple">> /\ rep = <<>> /\ has /\ y = "zero"
  BY Pending, Tails
<1>2. CASE k = 6
  <2>1. req = <<"Multiplication">>
    BY <1>1, <1>2
  <2>2. Tail(req) = <<>>
    BY <2>1, Tails
  <2>3. SessionAt(k, c, <<>>, rep, "triple", has, y)
    BY <1>1, <1>2 DEF SessionAt, After6
  <2>. QED
    BY <1>1, <2>2, <2>3
<1>3. CASE k = 7
  <2>1. req = <<"Multiplication", "Triple">>
    BY <1>1, <1>3
  <2>2. Tail(req) = <<"Triple">>
    BY <2>1, Tails
  <2>3. SessionAt(k, c, <<"Triple">>, rep, "triple", has, y)
    BY <1>1, <1>3 DEF SessionAt, After7
  <2>. QED
    BY <1>1, <2>2, <2>3
<1>. QED
  BY <1>1, <1>2, <1>3

\* receiveBeaverTriple
LEMMA SessionTriple ==
  ASSUME NEW k \in 0 .. 15, NEW c, NEW req, NEW rep, NEW at, NEW has \in BOOLEAN, NEW y,
         SessionAt(k, c, req, rep, at, has, y),
         at = "triple", req # <<>>
  PROVE  /\ Head(req) = "Triple" /\ has /\ y = "zero" /\ k = 7
         /\ SessionAt(k, c, Tail(req), rep \o <<"Success">>, "open", has, y)
<1>1. k = 7 /\ req = <<"Triple">> /\ rep = <<>> /\ has /\ y = "zero"
  BY Pending
<1>2. Head(req) = "Triple" /\ Tail(req) = <<>> /\ rep \o <<"Success">> = <<"Success">>
  BY <1>1, Tails, Growth
<1>. QED
  BY <1>1, <1>2 DEF SessionAt, After7

\* The end of doMultiplicationDemo
LEMMA SessionFinish ==
  ASSUME NEW k \in 0 .. 15, NEW c, NEW req, NEW rep, NEW at, NEW has \in BOOLEAN, NEW y,
         SessionAt(k, c, req, rep, at, has, y),
         at = "open"
  PROVE  /\ req = <<>> /\ y = "zero" /\ k \in {7, 8}
         /\ SessionAt(k, c, req, rep \o <<"Success">>, "loop", has, "product")
<1>1. \/ k = 7 /\ req = <<>> /\ rep = <<"Success">> /\ has /\ y = "zero"
      \/ k = 8 /\ req = <<>> /\ rep = <<>> /\ has /\ y = "zero"
  BY Busy
<1>2. CASE k = 7
  <2>1. rep = <<"Success">>
    BY <1>1, <1>2
  <2>2. rep \o <<"Success">> = <<"Success", "Success">>
    BY <2>1, ConcatOnes
  <2>. QED
    BY <1>1, <1>2, <2>2 DEF SessionAt, After7
<1>3. CASE k = 8
  <2>1. rep \o <<"Success">> = <<"Success">>
    BY <1>1, <1>3, Growth
  <2>. QED
    BY <1>1, <1>3, <2>1 DEF SessionAt, After8
<1>. QED
  BY <1>1, <1>2, <1>3

\* CMD_FETCH_MULT_SHARE
LEMMA SessionFetch ==
  ASSUME NEW k \in 0 .. 15, NEW c, NEW req, NEW rep, NEW at, NEW has \in BOOLEAN, NEW y,
         SessionAt(k, c, req, rep, at, has, y),
         at = "loop", req # <<>>, Head(req) = "FetchMultShare"
  PROVE  /\ y = "product" /\ k = 10
         /\ SessionAt(k, c, Tail(req), rep \o <<"Success", "Z", "ZMac", "Sigma">>, "loop",
                      has, "freed")
<1>1. k = 10 /\ req = <<"FetchMultShare">> /\ rep = <<>> /\ has /\ y = "product"
  BY Pending, Tails
<1>2. /\ Tail(req) = <<>>
      /\ rep \o <<"Success", "Z", "ZMac", "Sigma">> = <<"Success", "Z", "ZMac", "Sigma">>
  BY <1>1, Tails, Growth
<1>. QED
  BY <1>1, <1>2 DEF SessionAt, After10

\* CMD_SHUTDOWN
LEMMA SessionShutdown ==
  ASSUME NEW k \in 0 .. 15, NEW c, NEW req, NEW rep, NEW at, NEW has \in BOOLEAN, NEW y,
         SessionAt(k, c, req, rep, at, has, y),
         at = "loop", req # <<>>, Head(req) = "Shutdown"
  PROVE  k = 15 /\ req = <<"Shutdown">> /\ rep = <<>> /\ has /\ y = "freed"
BY Pending, Tails

\* A party that has closed its sockets
LEMMA SessionExited ==
  ASSUME NEW c
  PROVE  SessionAt(15, c, <<>>, <<>>, "exited", TRUE, "freed")
BY DEF SessionAt, After15

\* The shares, after the receive of CMD_SEND_SHARES has timed out
LEMMA SessionUnknown ==
  ASSUME NEW k \in 0 .. 15, NEW c, NEW req, NEW rep, NEW has \in BOOLEAN, NEW y,
         SessionAt(k, c, req, rep, "loop", has, y),
         req # <<>>, Head(req) \in Payloads
  PROVE  /\ Tail(req) = <<>> /\ rep = <<>> /\ k = 2
         /\ SessionAt(k, c, Tail(req), rep, "loop", has, y)
         /\ SessionAt(k, c, Tail(req), rep, "dead", has, y)
<1>1. k = 2 /\ req = <<"Shares">> /\ rep = <<>> /\ ~has /\ y = "zero"
  BY Pending, Tails DEF Payloads
<1>2. Tail(req) = <<>>
  BY <1>1, Tails
<1>. QED
  BY <1>1, <1>2 DEF SessionAt, After2

\* The receive timeout of CMD_SEND_SHARES
LEMMA SessionShareTimeout ==
  ASSUME NEW k \in 0 .. 15, NEW c, NEW req, NEW rep, NEW at, NEW has \in BOOLEAN, NEW y,
         SessionAt(k, c, req, rep, at, has, y),
         at = "shares"
  PROVE  SessionAt(k, c, req, rep, "loop", has, y)
<1>1. \/ k = 1 /\ req = <<>> /\ rep = <<>> /\ ~has /\ y = "zero"
      \/ k = 2 /\ req \in {<<>>, <<"Shares">>} /\ rep = <<>> /\ ~has /\ y = "zero"
  BY Busy
<1>2. CASE k = 1
  BY <1>1, <1>2 DEF SessionAt, After1
<1>3. CASE k = 2
  BY <1>1, <1>3 DEF SessionAt, After2
<1>. QED
  BY <1>1, <1>2, <1>3

\* The receive timeout of receiveBeaverTriple and doMultiplicationDemo
LEMMA SessionDeath ==
  ASSUME NEW k \in 0 .. 15, NEW c, NEW req, NEW rep, NEW at, NEW has \in BOOLEAN, NEW y,
         SessionAt(k, c, req, rep, at, has, y),
         at \in {"triple", "open"}, NEW r \in Remains(rep)
  PROVE  y = "zero" /\ SessionAt(k, c, req, r, "dead", has, y)
<1>1. /\ has /\ y = "zero"
      /\ \/ k = 6 /\ rep = <<>>
         \/ k = 7 /\ rep \in {<<>>, <<"Success">>}
         \/ k = 8 /\ rep = <<>>
  BY Busy
<1>2. r \in {<<>>, <<"Success">>} /\ (rep = <<>> => r = <<>>)
  <2>1. CASE rep = <<>>
    BY <2>1, Cuts
  <2>2. CASE rep = <<"Success">>
    BY <2>2, Cuts
  <2>. QED
    BY <1>1, <2>1, <2>2
<1>3. CASE k = 6
  BY <1>1, <1>2, <1>3 DEF SessionAt, After6
<1>4. CASE k = 7
  BY <1>1, <1>2, <1>4 DEF SessionAt, After7
<1>5. CASE k = 8
  BY <1>1, <1>2, <1>5 DEF SessionAt, After8
<1>. QED
  BY <1>1, <1>3, <1>4, <1>5

\* The last step of init: whatever is cut off, the party has had its round.
LEMMA SessionClose ==
  ASSUME NEW c, NEW req, NEW rep, NEW at, NEW has \in BOOLEAN, NEW y,
         SessionAt(15, c, req, rep, at, has, y), NEW r \in Remains(req)
  PROVE  SessionAt(15, TRUE, r, rep, at, has, y)
<1>1. /\ rep = <<>> /\ has /\ y = "freed"
      /\ \/ req = <<"Shutdown">> /\ at = "loop"
         \/ req = <<>> /\ at \in {"exited", "loop"}
  BY DEF SessionAt, After15
<1>2. CASE req = <<>>
  <2>1. r = <<>>
    BY <1>2, Cuts
  <2>. QED
    BY <1>1, <1>2, <2>1 DEF SessionAt, After15
<1>3. CASE req = <<"Shutdown">>
  <2>1. r \in {<<>>, <<"Shutdown">>}
    BY <1>3, Cuts
  <2>. QED
    BY <1>1, <1>3, <2>1 DEF SessionAt, After15
<1>. QED
  BY <1>1, <1>2, <1>3

\* A message of a broadcast of init.
LEMMA SessionSend ==
  ASSUME NEW k \in 0 .. 14, NEW c, NEW req, NEW rep, NEW at, NEW has \in BOOLEAN, NEW y,
         SessionAt(k, c, req, rep, at, has, y), Program[k + 1].op = "send"
  PROVE  SessionAt(k + 1, c, Append(req, Program[k + 1].msg), rep, at, has, y)
<1>. DEFINE new == Append(req, Program[k + 1].msg)
<1>0. k + 1 \in {1, 2, 4, 6, 7, 10, 15}
  <2>1. k + 1 \in 1 .. 15
    OBVIOUS
  <2>. QED
    BY <2>1, ProgramOps
<1>1. ASSUME k = 0 PROVE SessionAt(1, c, new, rep, at, has, y)
  <2>1. Program[k + 1].msg = "SendShares"
    BY <1>1, ProgramSteps, Operations
  <2>2. req = <<>> /\ rep = <<>> /\ at = "loop" /\ ~has /\ y = "zero"
    BY <1>1 DEF SessionAt, After0
  <2>3. new = <<"SendShares">>
    BY <2>1, <2>2, AppendEmpty
  <2>. HIDE DEF new
  <2>. QED
    BY <2>2, <2>3 DEF SessionAt, After1
<1>2. ASSUME k = 1 PROVE SessionAt(2, c, new, rep, at, has, y)
  <2>1. Program[k + 1].msg = "Shares"
    BY <1>2, ProgramSteps, Operations
  <2>2. After1(req, rep, at, has, y)
    BY <1>2 DEF SessionAt
  <2>3. CASE req = <<"SendShares">>
    <3>1. new = <<"SendShares", "Shares">>
      BY <2>1, <2>3, AppendOne
    <3>2. rep = <<>> /\ at = "loop" /\ ~has /\ y = "zero"
      BY <2>2, <2>3 DEF After1
    <3>. HIDE DEF new
    <3>. QED
      BY <3>1, <3>2 DEF SessionAt, After2
  <2>4. CASE req = <<>>
    <3>1. new = <<"Shares">>
      BY <2>1, <2>4, AppendEmpty
    <3>2. rep = <<>> /\ at \in {"shares", "loop"} /\ ~has /\ y = "zero"
      BY <2>2, <2>4 DEF After1
    <3>. HIDE DEF new
    <3>. QED
      BY <3>1, <3>2 DEF SessionAt, After2
  <2>. QED
    BY <2>2, <2>3, <2>4 DEF After1
<1>3. ASSUME k = 3 PROVE SessionAt(4, c, new, rep, at, has, y)
  <2>1. Program[k + 1].msg = "Addition"
    BY <1>3, ProgramSteps, Operations
  <2>2. req = <<>> /\ rep = <<>> /\ at = "loop" /\ has /\ y = "zero"
    BY <1>3 DEF SessionAt, After3
  <2>3. new = <<"Addition">>
    BY <2>1, <2>2, AppendEmpty
  <2>. HIDE DEF new
  <2>. QED
    BY <2>2, <2>3 DEF SessionAt, After4
<1>4. ASSUME k = 5 PROVE SessionAt(6, c, new, rep, at, has, y)
  <2>1. Program[k + 1].msg = "Multiplication"
    BY <1>4, ProgramSteps, Operations
  <2>2. req = <<>> /\ rep = <<>> /\ at = "loop" /\ has /\ y = "zero"
    BY <1>4 DEF SessionAt, After5
  <2>3. new = <<"Multiplication">>
    BY <2>1, <2>2, AppendEmpty
  <2>. HIDE DEF new
  <2>. QED
    BY <2>2, <2>3 DEF SessionAt, After6
<1>5. ASSUME k = 6 PROVE SessionAt(7, c, new, rep, at, has, y)
  <2>1. Program[k + 1].msg = "Triple"
    BY <1>5, ProgramSteps, Operations
  <2>2. After6(req, rep, at, has, y)
    BY <1>5 DEF SessionAt
  <2>3. CASE req = <<"Multiplication">> /\ at # "dead"
    <3>1. new = <<"Multiplication", "Triple">>
      BY <2>1, <2>3, AppendOne
    <3>2. rep = <<>> /\ at = "loop" /\ has /\ y = "zero"
      BY <2>2, <2>3 DEF After6
    <3>. HIDE DEF new
    <3>. QED
      BY <3>1, <3>2 DEF SessionAt, After7
  <2>4. CASE req = <<>> /\ at # "dead"
    <3>1. new = <<"Triple">>
      BY <2>1, <2>4, AppendEmpty
    <3>2. rep = <<>> /\ at = "triple" /\ has /\ y = "zero"
      BY <2>2, <2>4 DEF After6
    <3>. HIDE DEF new
    <3>. QED
      BY <3>1, <3>2 DEF SessionAt, After7
  <2>5. CASE at = "dead"
    <3>1. rep = <<>> /\ has /\ y = "zero"
      BY <2>2 DEF After6
    <3>. HIDE DEF new
    <3>. QED
      BY <2>5, <3>1 DEF SessionAt, After7
  <2>. QED
    BY <2>2, <2>3, <2>4, <2>5 DEF After6
<1>6. ASSUME k = 9 PROVE SessionAt(10, c, new, rep, at, has, y)
  <2>1. Program[k + 1].msg = "FetchMultShare"
    BY <1>6, ProgramSteps, Operations
  <2>2. req = <<>> /\ rep = <<>> /\ at = "loop" /\ has /\ y = "product"
    BY <1>6 DEF SessionAt, After9
  <2>3. new = <<"FetchMultShare">>
    BY <2>1, <2>2, AppendEmpty
  <2>. HIDE DEF new
  <2>. QED
    BY <2>2, <2>3 DEF SessionAt, After10
<1>7. ASSUME k = 14 PROVE SessionAt(15, c, new, rep, at, has, y)
  <2>1. Program[k + 1].msg = "Shutdown"
    BY <1>7, ProgramSteps, Operations
  <2>2. req = <<>> /\ rep = <<>> /\ at = "loop" /\ has /\ y = "freed"
    BY <1>7 DEF SessionAt, Fetched
  <2>3. new = <<"Shutdown">>
    BY <2>1, <2>2, AppendEmpty
  <2>. HIDE DEF new
  <2>. QED
    BY <2>2, <2>3 DEF SessionAt, After15
<1>. QED
  BY <1>0, <1>1, <1>2, <1>3, <1>4, <1>5, <1>6, <1>7

\* A receive of init.
LEMMA SessionReceive ==
  ASSUME NEW k \in 0 .. 14, NEW c, NEW req, NEW rep, NEW at, NEW has \in BOOLEAN, NEW y,
         SessionAt(k, c, req, rep, at, has, y), Program[k + 1].op = "receive",
         rep # <<>>
  PROVE  /\ Head(rep) = Program[k + 1].msg
         /\ SessionAt(k + 1, c, req, Tail(rep), at, has, y)
<1>. DEFINE left == Tail(rep)
<1>0. k + 1 \in {3, 5, 8, 9, 11, 12, 13, 14}
  <2>1. k + 1 \in 1 .. 15
    OBVIOUS
  <2>. QED
    BY <2>1, ProgramOps
<1>1. ASSUME k = 2
      PROVE  Head(rep) = Program[k + 1].msg /\ SessionAt(3, c, req, left, at, has, y)
  <2>1. Program[k + 1].msg = "Success"
    BY <1>1, ProgramSteps, Operations
  <2>2. rep = <<"Success">> /\ req = <<>> /\ at = "loop" /\ has /\ y = "zero"
    BY <1>1 DEF SessionAt, After2
  <2>3. Head(rep) = "Success" /\ left = <<>>
    BY <2>2, Tails
  <2>. HIDE DEF left
  <2>. QED
    BY <2>1, <2>2, <2>3 DEF SessionAt, After3
<1>2. ASSUME k = 4
      PROVE  Head(rep) = Program[k + 1].msg /\ SessionAt(5, c, req, left, at, has, y)
  <2>1. Program[k + 1].msg = "Sum"
    BY <1>2, ProgramSteps, Operations
  <2>2. rep = <<"Sum">> /\ req = <<>> /\ at = "loop" /\ has /\ y = "zero"
    BY <1>2 DEF SessionAt, After4
  <2>3. Head(rep) = "Sum" /\ left = <<>>
    BY <2>2, Tails
  <2>. HIDE DEF left
  <2>. QED
    BY <2>1, <2>2, <2>3 DEF SessionAt, After5
<1>3. ASSUME k = 7
      PROVE  Head(rep) = Program[k + 1].msg /\ SessionAt(8, c, req, left, at, has, y)
  <2>1. Program[k + 1].msg = "Success"
    BY <1>3, ProgramSteps, Operations
  <2>2. After7(req, rep, at, has, y)
    BY <1>3 DEF SessionAt
  <2>3. CASE rep = <<"Success">>
    <3>1. Head(rep) = "Success" /\ left = <<>>
      BY <2>3, Tails
    <3>2. rep # <<"Success", "Success">> /\ rep # <<>>
      BY <2>3
    <3>3. has /\ y = "zero" /\ (at = "dead" \/ (req = <<>> /\ at = "open"))
      BY <2>2, <3>2 DEF After7
    <3>. HIDE DEF left
    <3>. QED
      BY <2>1, <3>1, <3>3 DEF SessionAt, After8
  <2>4. CASE rep = <<"Success", "Success">>
    <3>1. Head(rep) = "Success" /\ left = <<"Success">>
      BY <2>4, Tails
    <3>2. req = <<>> /\ has /\ at = "loop" /\ y = "product"
      BY <2>2, <2>4 DEF After7
    <3>. HIDE DEF left
    <3>. QED
      BY <2>1, <3>1, <3>2 DEF SessionAt, After8
  <2>. QED
    BY <2>2, <2>3, <2>4 DEF After7
<1>4. ASSUME k = 8
      PROVE  Head(rep) = Program[k + 1].msg /\ SessionAt(9, c, req, left, at, has, y)
  <2>1. Program[k + 1].msg = "Success"
    BY <1>4, ProgramSteps, Operations
  <2>2. rep = <<"Success">> /\ req = <<>> /\ at = "loop" /\ has /\ y = "product"
    BY <1>4 DEF SessionAt, After8
  <2>3. Head(rep) = "Success" /\ left = <<>>
    BY <2>2, Tails
  <2>. HIDE DEF left
  <2>. QED
    BY <2>1, <2>2, <2>3 DEF SessionAt, After9
<1>5. ASSUME k = 10
      PROVE  Head(rep) = Program[k + 1].msg /\ SessionAt(11, c, req, left, at, has, y)
  <2>1. Program[k + 1].msg = "Success"
    BY <1>5, ProgramSteps, Operations
  <2>2. rep = <<"Success", "Z", "ZMac", "Sigma">> /\ req = <<>> /\ at = "loop" /\ has /\ y = "freed"
    BY <1>5 DEF SessionAt, After10
  <2>3. Head(rep) = "Success" /\ left = <<"Z", "ZMac", "Sigma">>
    BY <2>2, Tails
  <2>. HIDE DEF left
  <2>. QED
    BY <2>1, <2>2, <2>3 DEF SessionAt, Fetched
<1>6. ASSUME k = 11
      PROVE  Head(rep) = Program[k + 1].msg /\ SessionAt(12, c, req, left, at, has, y)
  <2>1. Program[k + 1].msg = "Z"
    BY <1>6, ProgramSteps, Operations
  <2>2. rep = <<"Z", "ZMac", "Sigma">> /\ req = <<>> /\ at = "loop" /\ has /\ y = "freed"
    BY <1>6 DEF SessionAt, Fetched
  <2>3. Head(rep) = "Z" /\ left = <<"ZMac", "Sigma">>
    BY <2>2, Tails
  <2>. HIDE DEF left
  <2>. QED
    BY <2>1, <2>2, <2>3 DEF SessionAt, Fetched
<1>7. ASSUME k = 12
      PROVE  Head(rep) = Program[k + 1].msg /\ SessionAt(13, c, req, left, at, has, y)
  <2>1. Program[k + 1].msg = "ZMac"
    BY <1>7, ProgramSteps, Operations
  <2>2. rep = <<"ZMac", "Sigma">> /\ req = <<>> /\ at = "loop" /\ has /\ y = "freed"
    BY <1>7 DEF SessionAt, Fetched
  <2>3. Head(rep) = "ZMac" /\ left = <<"Sigma">>
    BY <2>2, Tails
  <2>. HIDE DEF left
  <2>. QED
    BY <2>1, <2>2, <2>3 DEF SessionAt, Fetched
<1>8. ASSUME k = 13
      PROVE  Head(rep) = Program[k + 1].msg /\ SessionAt(14, c, req, left, at, has, y)
  <2>1. Program[k + 1].msg = "Sigma"
    BY <1>8, ProgramSteps, Operations
  <2>2. rep = <<"Sigma">> /\ req = <<>> /\ at = "loop" /\ has /\ y = "freed"
    BY <1>8 DEF SessionAt, Fetched
  <2>3. Head(rep) = "Sigma" /\ left = <<>>
    BY <2>2, Tails
  <2>. HIDE DEF left
  <2>. QED
    BY <2>1, <2>2, <2>3 DEF SessionAt, Fetched
<1>. QED
  BY <1>0, <1>1, <1>2, <1>3, <1>4, <1>5, <1>6, <1>7, <1>8

-----------------------------------------------------------------------------
(* Closing sockets, and types.                                             *)

\* What is left of a connection holds the messages it held.
LEMMA RemainsType ==
  ASSUME NEW S, NEW s \in Seq(S), NEW r \in Remains(s)
  PROVE  r \in Seq(S)
<1>1. PICK k \in 0 .. Len(s) : r = SubSeq(s, 1, k)
  BY DEF Remains
<1>2. \A i \in 1 .. k : s[i] \in S
  BY ElementOfSeq
<1>. QED
  BY <1>1, <1>2, SubSeqProperties

\* Closing the sockets of i cuts the connections of i, and no others.
LEMMA Closed ==
  ASSUME NEW I, NEW J, NEW S, NEW ch \in [I -> [J -> Seq(S)]], NEW i \in I,
         NEW new \in AfterClose(ch, i)
  PROVE  /\ new \in [I -> [J -> Seq(S)]]
         /\ \A x \in I \ {i} : new[x] = ch[x]
         /\ \A j \in J : new[i][j] \in Remains(ch[i][j])
<1>1. DOMAIN ch[i] = J
  OBVIOUS
<1>2. PICK f : /\ f \in [J -> UNION {Remains(ch[i][r]) : r \in J}]
               /\ \A r \in J : f[r] \in Remains(ch[i][r])
               /\ new = [ch EXCEPT ![i] = f]
  BY <1>1 DEF AfterClose
<1>3. \A r \in J : f[r] \in Seq(S)
  BY <1>2, RemainsType
<1>4. f \in [J -> Seq(S)]
  BY <1>2, <1>3
<1>. QED
  BY <1>2, <1>4

\* The secret holder is a node of its own beside the parties.
LEMMA NodesAndParties ==
  /\ N \in Nat /\ N >= 1
  /\ Parties \subseteq Nodes /\ Dealer \in Nodes /\ Dealer \notin Parties
  /\ Nodes = Parties \cup {Dealer} /\ NoRoute \notin Nodes
BY NAssumption DEF Parties, Nodes, Dealer, NoRoute

\* A receive takes one message off one connection.
LEMMA Receiving ==
  ASSUME TypeOK, NEW p \in Parties, NEW s \in Nodes, Arrived(p, s)
  PROVE  /\ Received(p, s) \in Requests
         /\ Taken(p, s) \in [Nodes -> [Parties -> Seq(Requests)]]
         /\ Taken(p, s)[s][p] = Tail(toRouter[s][p])
         /\ \A t \in Nodes, q \in Parties :
              ~(t = s /\ q = p) => Taken(p, s)[t][q] = toRouter[t][q]
<1>1. toRouter \in [Nodes -> [Parties -> Seq(Requests)]]
  BY DEF TypeOK
<1>2. toRouter[s][p] \in Seq(Requests) /\ toRouter[s][p] # <<>>
  BY <1>1 DEF Arrived
<1>3. Head(toRouter[s][p]) \in Requests /\ Tail(toRouter[s][p]) \in Seq(Requests)
  BY <1>2, HeadTailProperties
<1>. QED
  BY <1>1, <1>3 DEF Received, Taken

\* A reply adds to one connection.
LEMMA Replying ==
  ASSUME TypeOK, NEW p \in Parties, NEW s \in Nodes, NEW f \in Seq(Replies)
  PROVE  /\ Reply(p, s, f) \in [Parties -> [Nodes -> Seq(Replies)]]
         /\ Reply(p, s, f)[p][s] = toDealer[p][s] \o f
         /\ \A q \in Parties, t \in Nodes :
              ~(q = p /\ t = s) => Reply(p, s, f)[q][t] = toDealer[q][t]
<1>1. toDealer \in [Parties -> [Nodes -> Seq(Replies)]]
  BY DEF TypeOK
<1>2. toDealer[p][s] \o f \in Seq(Replies)
  BY <1>1, ConcatProperties
<1>. QED
  BY <1>1, <1>2 DEF Reply

\* A send adds one message to one connection.
LEMMA Sending ==
  ASSUME TypeOK, NEW s \in Nodes, NEW p \in Parties, NEW m \in Requests
  PROVE  /\ SendTo(s, p, m) \in [Nodes -> [Parties -> Seq(Requests)]]
         /\ SendTo(s, p, m)[s][p] = Append(toRouter[s][p], m)
         /\ \A t \in Nodes, q \in Parties :
              ~(t = s /\ q = p) => SendTo(s, p, m)[t][q] = toRouter[t][q]
<1>1. toRouter \in [Nodes -> [Parties -> Seq(Requests)]]
  BY DEF TypeOK
<1>2. Append(toRouter[s][p], m) \in Seq(Requests)
  BY <1>1, AppendProperties
<1>. QED
  BY <1>1, <1>2 DEF SendTo

\* A receive leaves the sender in m_lastRoutingId.
LEMMA Routing ==
  ASSUME TypeOK, NEW p \in Parties, NEW s \in Nodes, Receive(p, s)
  PROVE  /\ lastRoutingId'[p] = s
         /\ lastRoutingId' \in [Parties -> Nodes \cup {NoRoute}]
         /\ Arrived(p, s)
BY DEF Receive, TypeOK

\* The d_i|e_i messages of p add one to each connection of p to a peer.
LEMMA Broadcasting ==
  ASSUME NEW ch \in [Nodes -> [Parties -> Seq(Requests)]], NEW p \in Parties
  PROVE  /\ OpeningSent(ch, p) \in [Nodes -> [Parties -> Seq(Requests)]]
         /\ \A s \in Nodes \ {p} : OpeningSent(ch, p)[s] = ch[s]
         /\ OpeningSent(ch, p)[p][p] = ch[p][p]
         /\ \A q \in Parties \ {p} : OpeningSent(ch, p)[p][q] = Append(ch[p][q], "DE")
<1>. DEFINE row == [q \in Parties |-> IF q = p THEN ch[p][q] ELSE Append(ch[p][q], "DE")]
<1>1. p \in Nodes
  BY NodesAndParties
<1>2. OpeningSent(ch, p) = [ch EXCEPT ![p] = row]
  BY DEF OpeningSent
<1>3. \A q \in Parties : Append(ch[p][q], "DE") \in Seq(Requests)
  BY <1>1, AppendProperties DEF Requests, Payloads
<1>4. row \in [Parties -> Seq(Requests)]
  BY <1>1, <1>3
<1>. QED
  BY <1>1, <1>2, <1>4

\* The replies of the handlers.
LEMMA Answers ==
  /\ <<"Success">> \in Seq(Replies) /\ <<"Sum">> \in Seq(Replies)
  /\ <<"Success", "Z", "ZMac">> \in Seq(Replies)
  /\ <<"Success", "Z", "ZMac", "Sigma">> \in Seq(Replies)
BY DEF Replies

\* A party that dies keeps its data, and disturbs no connection but its own.
LEMMA Dying ==
  ASSUME TypeOK, NEW p \in Parties,
         NEW requests \in [Nodes -> [Parties -> Seq(Requests)]],
         NEW replies \in [Parties -> [Nodes -> Seq(Replies)]],
         Die(p, requests, replies)
  PROVE  /\ toRouter' \in [Nodes -> [Parties -> Seq(Requests)]]
         /\ toDealer' \in [Parties -> [Nodes -> Seq(Replies)]]
         /\ pc' \in [Parties -> {"loop", "shares", "triple", "open", "exited", "dead"}]
         /\ \A s \in Nodes \ {p} : toRouter'[s] = requests[s]
         /\ \A q \in Parties : toRouter'[p][q] \in Remains(requests[p][q])
         /\ \A q \in Parties \ {p} : toDealer'[q] = replies[q]
         /\ \A s \in Nodes : toDealer'[p][s] \in Remains(replies[p][s])
<1>1. p \in Nodes
  BY NodesAndParties
<1>2. toRouter' \in AfterClose(requests, p) /\ toDealer' \in AfterClose(replies, p)
  BY DEF Die
<1>3. pc' \in [Parties -> {"loop", "shares", "triple", "open", "exited", "dead"}]
  BY DEF Die, Goto, TypeOK
<1>4. /\ toRouter' \in [Nodes -> [Parties -> Seq(Requests)]]
      /\ \A s \in Nodes \ {p} : toRouter'[s] = requests[s]
      /\ \A q \in Parties : toRouter'[p][q] \in Remains(requests[p][q])
  BY <1>1, <1>2, Closed
<1>5. /\ toDealer' \in [Parties -> [Nodes -> Seq(Replies)]]
      /\ \A q \in Parties \ {p} : toDealer'[q] = replies[q]
      /\ \A s \in Nodes : toDealer'[p][s] \in Remains(replies[p][s])
  BY <1>2, Closed
<1>. QED
  BY <1>3, <1>4, <1>5

\* The loop over 1..N and the next step of the program.
LEMMA Advancing ==
  ASSUME TypeOK, dealer.step \in 1 .. 15, dealer' = Advance
  PROVE  /\ dealer' \in [step: 1 .. 16, to: Parties, status: {"running", "closed", "dead"}]
         /\ dealer'.status = dealer.status
         /\ \/ dealer.to < N /\ dealer'.to = dealer.to + 1 /\ dealer'.step = dealer.step
            \/ dealer.to = N /\ dealer'.to = 1 /\ dealer'.step = dealer.step + 1
<1>1. dealer \in [step: 1 .. 16, to: Parties, status: {"running", "closed", "dead"}]
  BY ProgramSteps DEF TypeOK
<1>2. CASE dealer.to < N
  BY <1>1, <1>2, NAssumption DEF Advance, Parties
<1>3. CASE ~(dealer.to < N)
  <2>1. dealer.to = N /\ 1 \in Parties
    BY <1>1, <1>3, NodesAndParties DEF Parties
  <2>2. dealer' = [dealer EXCEPT !.to = 1, !.step = @ + 1]
    BY <1>3 DEF Advance
  <2>3. dealer.step + 1 \in 1 .. 16
    OBVIOUS
  <2>. QED
    BY <1>1, <2>1, <2>2, <2>3
<1>. QED
  BY <1>2, <1>3

\* The last outcome of receiveBeaverTriple.
LEMMA TripleEffect ==
  ASSUME TypeOK, NEW p \in Parties, NEW s \in Nodes, ReceiveTriple(p, s),
         Received(p, s) = "Triple", stored[p]
  PROVE  /\ toRouter' \in [Nodes -> [Parties -> Seq(Requests)]]
         /\ \A t \in Nodes \ {p} : toRouter'[t] = Taken(p, s)[t]
         /\ toRouter'[p][p] = Taken(p, s)[p][p]
         /\ \A q \in Parties \ {p} : toRouter'[p][q] = Append(Taken(p, s)[p][q], "DE")
         /\ toDealer' = Reply(p, s, <<"Success">>)
         /\ added' = [added EXCEPT ![p] = {}]
         /\ count' = [count EXCEPT ![p] = 0]
         /\ pc' = [pc EXCEPT ![p] = "open"]
         /\ UNCHANGED <<stored, z, dealer>>
<1>1. Receive(p, s)
  BY DEF ReceiveTriple
<1>2. Arrived(p, s) /\ lastRoutingId'[p] = s
  BY <1>1, Routing
<1>3. Taken(p, s) \in [Nodes -> [Parties -> Seq(Requests)]]
  BY <1>2, Receiving
<1>4. /\ toRouter' = OpeningSent(Taken(p, s), p)
      /\ toDealer' = Reply(p, lastRoutingId'[p], <<"Success">>)
      /\ added' = [added EXCEPT ![p] = {}]
      /\ count' = [count EXCEPT ![p] = 0]
      /\ pc' = [pc EXCEPT ![p] = "open"]
      /\ UNCHANGED <<stored, z, dealer>>
  BY DEF ReceiveTriple, Goto
<1>. DEFINE ch == Taken(p, s)
<1>5. ch \in [Nodes -> [Parties -> Seq(Requests)]] /\ toRouter' = OpeningSent(ch, p)
  BY <1>3, <1>4
<1>6. /\ toRouter' \in [Nodes -> [Parties -> Seq(Requests)]]
      /\ \A t \in Nodes \ {p} : toRouter'[t] = ch[t]
      /\ toRouter'[p][p] = ch[p][p]
      /\ \A q \in Parties \ {p} : toRouter'[p][q] = Append(ch[p][q], "DE")
  <2>. HIDE DEF ch
  <2>. QED
    BY ONLY <1>5, Broadcasting
<1>. QED
  BY <1>2, <1>4, <1>6

\* One turn of the loop of doMultiplicationDemo.
LEMMA AddEffect ==
  ASSUME TypeOK, NEW p \in Parties, NEW s \in Nodes, AddOpening(p, s),
         Received(p, s) \in Payloads
  PROVE  /\ toRouter' = Taken(p, s)
         /\ added' = [added EXCEPT ![p] = @ \cup {s}]
         /\ added' \in [Parties -> SUBSET Nodes]
         /\ count' = [count EXCEPT ![p] = @ + 1]
         /\ count' \in [Parties -> 0 .. N - 1]
         /\ count[p] < N - 1
         /\ UNCHANGED <<toDealer, pc, stored, z, dealer>>
<1>1. count[p] \in 0 .. N - 1 /\ count[p] < N - 1 /\ N \in Nat
  BY NodesAndParties DEF TypeOK, AddOpening
<1>2. count[p] + 1 \in 0 .. N - 1
  BY <1>1
<1>3. added \in [Parties -> SUBSET Nodes] /\ count \in [Parties -> 0 .. N - 1]
  BY DEF TypeOK
<1>. QED
  BY <1>2, <1>3 DEF AddOpening

\* TypeOK with the length of the program worked out.
Typed ==
  /\ toRouter \in [Nodes -> [Parties -> Seq(Requests)]]
  /\ toDealer \in [Parties -> [Nodes -> Seq(Replies)]]
  /\ lastRoutingId \in [Parties -> Nodes \cup {NoRoute}]
  /\ dealer \in [step: 1 .. 16, to: Parties, status: {"running", "closed", "dead"}]
  /\ pc \in [Parties -> {"loop", "shares", "triple", "open", "exited", "dead"}]
  /\ stored \in [Parties -> BOOLEAN]
  /\ z \in [Parties -> {"zero", "product", "freed"}]
  /\ added \in [Parties -> SUBSET Nodes]
  /\ count \in [Parties -> 0 .. N - 1]

\* The types with the length of the program worked out.
LEMMA TypedLemma == (TypeOK <=> Typed) /\ (TypeOK' <=> Typed')
BY ProgramSteps DEF TypeOK, Typed

\* Every step keeps the types: one step of the proof per action.
LEMMA TypeStep == TypeOK /\ [Next]_vars => TypeOK'
<1>. SUFFICES ASSUME TypeOK, [Next]_vars PROVE Typed'
  BY TypedLemma
<1>. DEFINE RequestChannels == [Nodes -> [Parties -> Seq(Requests)]]
            ReplyChannels == [Parties -> [Nodes -> Seq(Replies)]]
<1>t. Typed
  BY TypedLemma
<1>. USE DEF Typed
<1>n. Dealer \in Nodes /\ \A p \in Parties : p \in Nodes
  BY NodesAndParties
<1>1. CASE DealerSend
  <2>1. /\ dealer.step \in 1 .. 15 /\ Program[dealer.step].msg \in Requests
        /\ dealer' = Advance
    BY <1>1, ProgramSteps, ProgramOps, Operations
       DEF DealerSend, AtStep, Requests, Commands, Payloads
  <2>2. toRouter' \in RequestChannels
    BY <1>1, <1>t, <1>n, <2>1, Sending DEF DealerSend
  <2>. QED
    BY <1>1, <1>t, <2>1, <2>2, Advancing DEF DealerSend, party
<1>2. CASE DealerReceive
  <2>1. dealer.step \in 1 .. 15
    BY <1>2, ProgramSteps DEF DealerReceive, AtStep
  <2>2. toDealer' \in ReplyChannels
    <3>1. toDealer[dealer.to][Dealer] \in Seq(Replies) /\ toDealer[dealer.to][Dealer] # <<>>
      BY <1>2, <1>t, <1>n DEF DealerReceive, Replied
    <3>2. Tail(toDealer[dealer.to][Dealer]) \in Seq(Replies)
      BY <3>1, HeadTailProperties
    <3>. QED
      BY <1>2, <1>t, <3>2 DEF DealerReceive, TakenReply
  <2>3. toRouter' \in RequestChannels /\ dealer' \in [step: 1 .. 16, to: Parties, status: {"running", "closed", "dead"}]
    <3>1. CASE dealer' = Advance /\ UNCHANGED toRouter
      BY <3>1, <1>t, <2>1, Advancing
    <3>2. CASE dealer' = [dealer EXCEPT !.status = "dead"] /\ toRouter' \in AfterClose(toRouter, Dealer)
      BY <3>2, <1>t, <1>n, Closed
    <3>. QED
      BY <1>2, <3>1, <3>2 DEF DealerReceive
  <2>. QED
    BY <1>2, <1>t, <2>2, <2>3 DEF DealerReceive, party
<1>3. CASE DealerClose
  <2>1. toRouter' \in RequestChannels
    BY <1>3, <1>t, <1>n, Closed DEF DealerClose
  <2>. QED
    BY <1>3, <1>t, <2>1 DEF DealerClose, party
<1>4. ASSUME NEW p \in Parties, NEW s \in Nodes, Deliver(p, s)
      PROVE  Typed'
  <2>1. Receive(p, s)
    BY <1>4 DEF Deliver, SendSharesCmd, StoreShares, Addition, Multiplication,
                ReceiveTriple, AddOpening, FetchMultShare, ShutdownCmd, UnknownCommand, Handle
  <2>2. /\ lastRoutingId'[p] = s
        /\ lastRoutingId' \in [Parties -> Nodes \cup {NoRoute}]
        /\ Taken(p, s) \in RequestChannels
    BY <2>1, Routing, Receiving
  <2>3. /\ Reply(p, lastRoutingId'[p], <<"Success">>) \in ReplyChannels
        /\ Reply(p, lastRoutingId'[p], <<"Sum">>) \in ReplyChannels
        /\ Reply(p, lastRoutingId'[p], <<"Success", "Z", "ZMac">>) \in ReplyChannels
        /\ Reply(p, lastRoutingId'[p], <<"Success", "Z", "ZMac", "Sigma">>) \in ReplyChannels
    BY <2>2, Replying, Answers
  <2>. USE <1>t, <2>2, <2>3
  <2>4. CASE SendSharesCmd(p, s)
    BY <2>4 DEF SendSharesCmd, Goto
  <2>5. CASE StoreShares(p, s)
    BY <2>5 DEF StoreShares, Goto
  <2>6. CASE Addition(p, s)
    <3>1. CASE stored[p]
      BY <2>6, <3>1 DEF Addition, party
    <3>2. CASE ~stored[p]
      BY <2>6, <3>2, Dying DEF Addition, Die
    <3>. QED
      BY <3>1, <3>2
  <2>7. CASE Multiplication(p, s)
    BY <2>7 DEF Multiplication, Goto
  <2>8. CASE ReceiveTriple(p, s)
    <3>1. CASE Received(p, s) # "Triple"
      BY <2>8, <3>1, Dying DEF ReceiveTriple, Die
    <3>2. CASE Received(p, s) = "Triple" /\ ~stored[p]
      BY <2>8, <3>2, Dying DEF ReceiveTriple, Die
    <3>3. CASE Received(p, s) = "Triple" /\ stored[p]
      <4>1. 0 \in 0 .. N - 1
        BY NodesAndParties
      <4>2. /\ toRouter' \in RequestChannels
            /\ toDealer' = Reply(p, s, <<"Success">>)
            /\ added' = [added EXCEPT ![p] = {}]
            /\ count' = [count EXCEPT ![p] = 0]
            /\ pc' = [pc EXCEPT ![p] = "open"]
            /\ UNCHANGED <<stored, z, dealer>>
        BY <2>8, <3>3, TripleEffect
      <4>. QED
        BY <4>1, <4>2
    <3>. QED
      BY <3>1, <3>2, <3>3
  <2>9. CASE AddOpening(p, s)
    <3>1. CASE Received(p, s) \in Payloads
      <4>1. /\ toRouter' = Taken(p, s)
            /\ UNCHANGED <<toDealer, stored, dealer>>
        BY <2>9, <3>1, AddEffect
      <4>. QED
        BY <2>9, <3>1, <4>1, AddEffect
    <3>2. CASE Received(p, s) \notin Payloads
      BY <2>9, <3>2, Dying DEF AddOpening, Die
    <3>. QED
      BY <3>1, <3>2
  <2>10. CASE FetchMultShare(p, s)
    <3>1. CASE z[p] = "product"
      BY <2>10, <3>1 DEF FetchMultShare
    <3>2. CASE z[p] # "product"
      BY <2>10, <3>2, Dying DEF FetchMultShare, Die
    <3>. QED
      BY <3>1, <3>2
  <2>11. CASE ShutdownCmd(p, s)
    <3>1. toRouter' \in RequestChannels /\ toDealer' \in ReplyChannels
      BY <2>11, <1>n, Closed DEF ShutdownCmd
    <3>. QED
      BY <2>11, <3>1 DEF ShutdownCmd, Goto
  <2>12. CASE UnknownCommand(p, s)
    <3>1. CASE toRouter' = Taken(p, s) /\ UNCHANGED <<toDealer, party>>
      BY <2>12, <3>1 DEF UnknownCommand, party
    <3>2. CASE Die(p, Taken(p, s), toDealer)
      BY <2>12, <3>2, Dying DEF UnknownCommand, Die
    <3>. QED
      BY <2>12, <3>1, <3>2 DEF UnknownCommand
  <2>. QED
    BY <1>4, <2>4, <2>5, <2>6, <2>7, <2>8, <2>9, <2>10, <2>11, <2>12 DEF Deliver
<1>5. ASSUME NEW p \in Parties, FinishProduct(p)
      PROVE  Typed'
  <2>1. Reply(p, Dealer, <<"Success">>) \in ReplyChannels
    BY <1>n, Replying, Answers
  <2>. QED
    BY <1>5, <1>t, <2>1 DEF FinishProduct, Goto
<1>6. ASSUME NEW p \in Parties, ShareTimeout(p)
      PROVE  Typed'
  BY <1>6, <1>t DEF ShareTimeout, Goto, transport
<1>7. ASSUME NEW p \in Parties, OpeningTimeout(p)
      PROVE  Typed'
  BY <1>7, <1>t, Dying DEF OpeningTimeout, Die
<1>8. CASE UNCHANGED vars
  BY <1>8, <1>t DEF vars, transport, party
<1>. QED
  BY <1>1, <1>2, <1>3, <1>4, <1>5, <1>6, <1>7, <1>8 DEF Next, DealerStep, PartyStep

-----------------------------------------------------------------------------
(* What a step of one process leaves alone.                                *)

\* How far the program is for p, from where it is for all.
LEMMA ProgressRange ==
  ASSUME TypeOK, DealerState, NEW p \in Parties
  PROVE  /\ Progress(p) \in 0 .. 15
         /\ dealer.step > 6 => Progress(p) >= 6
         /\ Progress(p) >= 7 => dealer.step > 6
         /\ dealer.step = 16 => Progress(p) = 15
<1>1. dealer.step \in 1 .. 16 /\ dealer.to \in 1 .. N /\ p \in 1 .. N /\ N \in Nat
  BY TypedLemma, NodesAndParties DEF Typed, Parties
<1>. QED
  BY <1>1 DEF Progress, DealerState

\* The program moves for one party at a time.
LEMMA ProgressAdvance ==
  ASSUME TypeOK, dealer.step \in 1 .. 15, dealer' = Advance, NEW p \in Parties
  PROVE  /\ Progress(p)' = IF p = dealer.to THEN Progress(p) + 1 ELSE Progress(p)
         /\ Progress(dealer.to) = dealer.step - 1
<1>1. dealer.to \in 1 .. N /\ p \in 1 .. N /\ N \in Nat
  BY NodesAndParties DEF TypeOK, Parties
<1>2. \/ dealer.to < N /\ dealer'.to = dealer.to + 1 /\ dealer'.step = dealer.step
      \/ dealer.to = N /\ dealer'.to = 1 /\ dealer'.step = dealer.step + 1
  BY Advancing
<1>3. Progress(p)' = dealer'.step - 1 + (IF p < dealer'.to THEN 1 ELSE 0)
  BY DEF Progress
<1>. QED
  BY <1>1, <1>2, <1>3 DEF Progress

\* A step of p, seen by everyone else.
LEMMA PartyFrame ==
  ASSUME IInv, TypeOK', NEW p \in Parties, UNCHANGED dealer,
         \A q \in Parties \ {p} :
           /\ toRouter'[Dealer][q] = toRouter[Dealer][q]
           /\ toDealer'[q] = toDealer[q]
           /\ pc'[q] = pc[q] /\ stored'[q] = stored[q] /\ z'[q] = z[q]
           /\ added'[q] = added[q] /\ count'[q] = count[q],
         \A q, r \in Parties \ {p} : toRouter'[q][r] = toRouter[q][r],
         Session(p)', Opening(p)',
         \A q \in Parties : Peers(p, q)' /\ Peers(q, p)'
  PROVE  IInv'
<1>1. DealerState'
  BY DEF IInv, DealerState
<1>2. ASSUME NEW q \in Parties PROVE Session(q)' /\ Opening(q)'
  <2>1. CASE q = p
    BY <2>1
  <2>2. CASE q # p
    <3>1. Progress(q)' = Progress(q)
      BY DEF Progress
    <3>2. Session(q)'
      BY <2>2, <3>1 DEF IInv, Session
    <3>3. Opening(q)'
      BY <2>2 DEF IInv, Opening
    <3>. QED
      BY <3>2, <3>3
  <2>. QED
    BY <2>1, <2>2
<1>3. ASSUME NEW q \in Parties, NEW r \in Parties PROVE Peers(q, r)'
  <2>1. CASE q = p \/ r = p
    BY <2>1
  <2>2. CASE q # p /\ r # p
    BY <2>2 DEF IInv, Peers, Opened
  <2>. QED
    BY <2>1, <2>2
<1>. QED
  BY <1>1, <1>2, <1>3 DEF IInv

\* A step of p that neither sends nor receives an opening.
LEMMA LocalFrame ==
  ASSUME IInv, TypeOK', NEW p \in Parties, UNCHANGED <<dealer, added, count>>,
         \A q \in Parties \ {p} :
           /\ toRouter'[Dealer][q] = toRouter[Dealer][q]
           /\ toDealer'[q] = toDealer[q]
           /\ pc'[q] = pc[q] /\ stored'[q] = stored[q] /\ z'[q] = z[q],
         \A q, r \in Parties : toRouter'[q][r] = toRouter[q][r],
         \A q \in Parties : toDealer'[p][q] = toDealer[p][q],
         Session(p)', Opening(p)', Opened(p) => Opened(p)'
  PROVE  IInv'
<1>1. ASSUME NEW q \in Parties PROVE Peers(p, q)'
  BY DEF IInv, Peers
<1>2. ASSUME NEW q \in Parties PROVE Peers(q, p)'
  <2>1. Peers(q, p) /\ (Opened(q) => Opened(q)')
    BY DEF IInv, Opened
  <2>. QED
    BY <2>1 DEF Peers
<1>. QED
  BY <1>1, <1>2, PartyFrame

\* Whose message it is: only openings come from a peer.
LEMMA Sender ==
  ASSUME IInv, NEW p \in Parties, NEW s \in Nodes, Arrived(p, s)
  PROVE  \/ s = Dealer
         \/ /\ s \in Parties \ {p} /\ toRouter[s][p] = <<"DE">>
            /\ Received(p, s) = "DE" /\ Tail(toRouter[s][p]) = <<>>
            /\ Opened(s) /\ s \notin added[p] /\ dealer.step > 6
<1>1. CASE s \in Parties
  <2>1. Peers(s, p)
    BY <1>1 DEF IInv
  <2>2. toRouter[s][p] = <<"DE">>
    BY <2>1 DEF Peers, Arrived
  <2>. QED
    BY <1>1, <2>1, <2>2, Tails DEF Peers, Received
<1>. QED
  BY <1>1, NodesAndParties

-----------------------------------------------------------------------------
(* Every step of a party keeps the invariant.                              *)

\* A reply to the secret holder is seen by the secret holder alone.
LEMMA RepliedOnce ==
  ASSUME TypeOK, NEW p \in Parties, NEW f \in Seq(Replies), toDealer' = Reply(p, Dealer, f)
  PROVE  /\ toDealer'[p][Dealer] = toDealer[p][Dealer] \o f
         /\ \A q \in Parties : toDealer'[p][q] = toDealer[p][q]
         /\ \A q \in Parties \ {p} : toDealer'[q] = toDealer[q]
BY NodesAndParties DEF Reply, TypeOK

\* The session of p as the lemmas above take it.
LEMMA SessionNow ==
  ASSUME IInv, NEW p \in Parties
  PROVE  /\ SessionAt(Progress(p), dealer.status = "closed", toRouter[Dealer][p],
                      toDealer[p][Dealer], pc[p], stored[p], z[p])
         /\ Progress(p) \in 0 .. 15
         /\ stored[p] \in BOOLEAN
BY ProgressRange DEF IInv, Session, TypeOK

\* It is enough to say what becomes of the arguments.
LEMMA SessionNext ==
  ASSUME NEW p \in Parties, UNCHANGED dealer,
         SessionAt(Progress(p), dealer.status = "closed", toRouter'[Dealer][p],
                   toDealer'[p][Dealer], pc'[p], stored'[p], z'[p])
  PROVE  Session(p)'
<1>1. Progress(p)' = Progress(p)
  BY DEF Progress
<1>. QED
  BY <1>1 DEF Session

\* CMD_SEND_SHARES
LEMMA SendSharesStep ==
  ASSUME IInv, TypeOK', NEW p \in Parties, NEW s \in Nodes, SendSharesCmd(p, s)
  PROVE  IInv'
<1>1. Arrived(p, s) /\ Received(p, s) = "SendShares" /\ pc[p] = "loop"
  BY DEF SendSharesCmd, Handle, Receive
<1>2. s = Dealer
  BY <1>1, Sender
<1>3. /\ toRouter[Dealer][p] # <<>> /\ Head(toRouter[Dealer][p]) = "SendShares"
      /\ toRouter'[Dealer][p] = Tail(toRouter[Dealer][p])
      /\ \A t \in Nodes, q \in Parties :
           ~(t = Dealer /\ q = p) => toRouter'[t][q] = toRouter[t][q]
  BY <1>1, <1>2, Receiving DEF IInv, Arrived, Received, SendSharesCmd
<1>4. /\ pc' = [pc EXCEPT ![p] = "shares"]
      /\ UNCHANGED <<toDealer, dealer, stored, z, added, count>>
  BY DEF SendSharesCmd, Goto
<1>5. pc'[p] = "shares" /\ \A q \in Parties \ {p} : pc'[q] = pc[q]
  BY <1>4 DEF IInv, TypeOK
<1>6. Session(p)'
  <2>1. SessionAt(Progress(p), dealer.status = "closed", Tail(toRouter[Dealer][p]),
                  toDealer[p][Dealer], "shares", stored[p], z[p])
    BY <1>1, <1>3, SessionNow, SessionSendShares
  <2>. QED
    BY <1>3, <1>4, <1>5, <2>1, SessionNext
<1>7. Opening(p)' /\ (Opened(p) => Opened(p)')
  BY <1>1, <1>4, <1>5 DEF IInv, Opening, Opened
<1>. QED
  BY <1>3, <1>4, <1>5, <1>6, <1>7, LocalFrame, NodesAndParties

\* CMD_MULTIPLICATION
LEMMA MultiplicationStep ==
  ASSUME IInv, TypeOK', NEW p \in Parties, NEW s \in Nodes, Multiplication(p, s)
  PROVE  IInv'
<1>1. Arrived(p, s) /\ Received(p, s) = "Multiplication" /\ pc[p] = "loop"
  BY DEF Multiplication, Handle, Receive
<1>2. s = Dealer
  BY <1>1, Sender
<1>3. /\ toRouter[Dealer][p] # <<>> /\ Head(toRouter[Dealer][p]) = "Multiplication"
      /\ toRouter'[Dealer][p] = Tail(toRouter[Dealer][p])
      /\ \A t \in Nodes, q \in Parties :
           ~(t = Dealer /\ q = p) => toRouter'[t][q] = toRouter[t][q]
  BY <1>1, <1>2, Receiving DEF IInv, Arrived, Received, Multiplication
<1>4. /\ pc' = [pc EXCEPT ![p] = "triple"]
      /\ UNCHANGED <<toDealer, dealer, stored, z, added, count>>
  BY DEF Multiplication, Goto
<1>5. pc'[p] = "triple" /\ \A q \in Parties \ {p} : pc'[q] = pc[q]
  BY <1>4 DEF IInv, TypeOK
<1>6. Session(p)'
  <2>1. SessionAt(Progress(p), dealer.status = "closed", Tail(toRouter[Dealer][p]),
                  toDealer[p][Dealer], "triple", stored[p], z[p])
    BY <1>1, <1>3, SessionNow, SessionMultiplication
  <2>. QED
    BY <1>3, <1>4, <1>5, <2>1, SessionNext
<1>7. Opening(p)' /\ (Opened(p) => Opened(p)')
  BY <1>1, <1>4, <1>5 DEF IInv, Opening, Opened
<1>. QED
  BY <1>3, <1>4, <1>5, <1>6, <1>7, LocalFrame, NodesAndParties

\* The second receive of CMD_SEND_SHARES
LEMMA StoreSharesStep ==
  ASSUME IInv, TypeOK', NEW p \in Parties, NEW s \in Nodes, StoreShares(p, s)
  PROVE  IInv'
<1>1. /\ Arrived(p, s) /\ lastRoutingId'[p] = s /\ pc[p] = "shares"
      /\ toRouter' = Taken(p, s)
  BY Routing DEF IInv, StoreShares
<1>2. s = Dealer
  <2>1. Progress(p) \in {1, 2}
    BY <1>1, SessionNow, Busy
  <2>2. ~(dealer.step > 6)
    BY <2>1, ProgressRange DEF IInv
  <2>. QED
    BY <1>1, <2>2, Sender
<1>3. /\ toRouter[Dealer][p] # <<>> /\ Head(toRouter[Dealer][p]) = Received(p, s)
      /\ Taken(p, s)[Dealer][p] = Tail(toRouter[Dealer][p])
      /\ \A t \in Nodes, q \in Parties :
           ~(t = Dealer /\ q = p) => Taken(p, s)[t][q] = toRouter[t][q]
  BY <1>1, <1>2, Receiving DEF IInv, Arrived, Received
<1>4. /\ Received(p, s) = "Shares"
      /\ SessionAt(Progress(p), dealer.status = "closed", Tail(toRouter[Dealer][p]),
                   toDealer[p][Dealer] \o <<"Success">>, "loop", TRUE, z[p])
  <2>. DEFINE k == Progress(p)
              c == dealer.status = "closed"
              req == toRouter[Dealer][p]
              rep == toDealer[p][Dealer]
  <2>1. /\ SessionAt(k, c, req, rep, "shares", stored[p], z[p])
        /\ k \in 0 .. 15 /\ stored[p] \in BOOLEAN /\ req # <<>>
        /\ Head(req) = Received(p, s)
    BY <1>1, <1>3, SessionNow
  <2>. HIDE DEF k, c, req, rep
  <2>2. /\ Head(req) = "Shares"
        /\ SessionAt(k, c, Tail(req), rep \o <<"Success">>, "loop", TRUE, z[p])
    BY <2>1, SessionStoreShares
  <2>. QED
    BY <2>1, <2>2 DEF k, c, req, rep
<1>5. /\ stored' = [stored EXCEPT ![p] = TRUE]
      /\ toDealer' = Reply(p, Dealer, <<"Success">>)
      /\ pc' = [pc EXCEPT ![p] = "loop"]
      /\ UNCHANGED <<dealer, z, added, count>>
  BY <1>1, <1>2, <1>4 DEF StoreShares, Goto
<1>6. /\ pc'[p] = "loop" /\ stored'[p] = TRUE
      /\ \A q \in Parties \ {p} : pc'[q] = pc[q] /\ stored'[q] = stored[q]
  BY <1>5 DEF IInv, TypeOK
<1>7. /\ toDealer'[p][Dealer] = toDealer[p][Dealer] \o <<"Success">>
      /\ \A q \in Parties : toDealer'[p][q] = toDealer[p][q]
      /\ \A q \in Parties \ {p} : toDealer'[q] = toDealer[q]
  BY <1>5, RepliedOnce, Answers DEF IInv
<1>8. Session(p)'
  BY <1>1, <1>3, <1>4, <1>5, <1>6, <1>7, SessionNext
<1>9. Opening(p)' /\ (Opened(p) => Opened(p)')
  BY <1>1, <1>5, <1>6 DEF IInv, Opening, Opened
<1>10. /\ \A q \in Parties \ {p} : toRouter'[Dealer][q] = toRouter[Dealer][q]
       /\ \A q, r \in Parties : toRouter'[q][r] = toRouter[q][r]
  BY <1>1, <1>3, NodesAndParties
<1>. QED
  BY <1>5, <1>6, <1>7, <1>8, <1>9, <1>10, LocalFrame

\* CMD_ADDITION
LEMMA AdditionStep ==
  ASSUME IInv, TypeOK', NEW p \in Parties, NEW s \in Nodes, Addition(p, s)
  PROVE  IInv'
<1>1. /\ Arrived(p, s) /\ lastRoutingId'[p] = s /\ pc[p] = "loop"
      /\ Received(p, s) = "Addition" /\ UNCHANGED dealer
  BY Routing DEF IInv, Addition, Handle
<1>2. s = Dealer
  BY <1>1, Sender
<1>3. /\ toRouter[Dealer][p] # <<>> /\ Head(toRouter[Dealer][p]) = Received(p, s)
      /\ Taken(p, s)[Dealer][p] = Tail(toRouter[Dealer][p])
      /\ \A t \in Nodes, q \in Parties :
           ~(t = Dealer /\ q = p) => Taken(p, s)[t][q] = toRouter[t][q]
  BY <1>1, <1>2, Receiving DEF IInv, Arrived, Received
<1>4. /\ stored[p]
      /\ SessionAt(Progress(p), dealer.status = "closed", Tail(toRouter[Dealer][p]),
                   toDealer[p][Dealer] \o <<"Sum">>, "loop", stored[p], z[p])
  <2>. DEFINE k == Progress(p)
              c == dealer.status = "closed"
              req == toRouter[Dealer][p]
              rep == toDealer[p][Dealer]
              has == stored[p]
              y == z[p]
  <2>1. /\ SessionAt(k, c, req, rep, "loop", has, y)
        /\ k \in 0 .. 15 /\ has \in BOOLEAN /\ req # <<>>
        /\ Head(req) = "Addition"
    BY <1>1, <1>3, SessionNow
  <2>. HIDE DEF k, c, req, rep, has, y
  <2>2. has /\ SessionAt(k, c, Tail(req), rep \o <<"Sum">>, "loop", has, y)
    BY ONLY <2>1, SessionAddition
  <2>. QED
    BY <2>2 DEF k, c, req, rep, has, y
<1>5. /\ toRouter' = Taken(p, s)
      /\ toDealer' = Reply(p, Dealer, <<"Sum">>)
      /\ UNCHANGED <<dealer, pc, stored, z, added, count>>
  BY <1>1, <1>2, <1>4 DEF Addition, party
<1>7. /\ toDealer'[p][Dealer] = toDealer[p][Dealer] \o <<"Sum">>
      /\ \A q \in Parties : toDealer'[p][q] = toDealer[p][q]
      /\ \A q \in Parties \ {p} : toDealer'[q] = toDealer[q]
  BY <1>5, RepliedOnce, Answers DEF IInv
<1>8. Session(p)'
  BY <1>1, <1>3, <1>4, <1>5, <1>7, SessionNext
<1>9. Opening(p)' /\ (Opened(p) => Opened(p)')
  BY <1>5 DEF IInv, Opening, Opened
<1>. QED
  BY <1>3, <1>5, <1>7, <1>8, <1>9, LocalFrame, NodesAndParties

\* CMD_FETCH_MULT_SHARE
LEMMA FetchStep ==
  ASSUME IInv, TypeOK', NEW p \in Parties, NEW s \in Nodes, FetchMultShare(p, s)
  PROVE  IInv'
<1>1. /\ Arrived(p, s) /\ lastRoutingId'[p] = s /\ pc[p] = "loop"
      /\ Received(p, s) = "FetchMultShare" /\ UNCHANGED dealer
  BY Routing DEF IInv, FetchMultShare, Handle
<1>2. s = Dealer
  BY <1>1, Sender
<1>3. /\ toRouter[Dealer][p] # <<>> /\ Head(toRouter[Dealer][p]) = Received(p, s)
      /\ Taken(p, s)[Dealer][p] = Tail(toRouter[Dealer][p])
      /\ \A t \in Nodes, q \in Parties :
           ~(t = Dealer /\ q = p) => Taken(p, s)[t][q] = toRouter[t][q]
  BY <1>1, <1>2, Receiving DEF IInv, Arrived, Received
<1>4. /\ z[p] = "product"
      /\ SessionAt(Progress(p), dealer.status = "closed", Tail(toRouter[Dealer][p]),
                   toDealer[p][Dealer] \o <<"Success", "Z", "ZMac", "Sigma">>,
                   "loop", stored[p], "freed")
  <2>. DEFINE k == Progress(p)
              c == dealer.status = "closed"
              req == toRouter[Dealer][p]
              rep == toDealer[p][Dealer]
  <2>1. /\ SessionAt(k, c, req, rep, "loop", stored[p], z[p])
        /\ k \in 0 .. 15 /\ stored[p] \in BOOLEAN /\ req # <<>>
        /\ Head(req) = "FetchMultShare"
    BY <1>1, <1>3, SessionNow
  <2>. HIDE DEF k, c, req, rep
  <2>2. /\ z[p] = "product"
        /\ SessionAt(k, c, Tail(req), rep \o <<"Success", "Z", "ZMac", "Sigma">>, "loop",
                     stored[p], "freed")
    <3>. DEFINE f == <<"Success", "Z", "ZMac", "Sigma">>
    <3>1. z[p] = "product" /\ SessionAt(k, c, Tail(req), rep \o f, "loop", stored[p], "freed")
      BY ONLY <2>1, SessionFetch
    <3>. QED
      BY <3>1
  <2>. QED
    BY <2>2 DEF k, c, req, rep
<1>5. /\ toRouter' = Taken(p, s)
      /\ toDealer' = Reply(p, Dealer, <<"Success", "Z", "ZMac", "Sigma">>)
      /\ z' = [z EXCEPT ![p] = "freed"]
      /\ UNCHANGED <<dealer, pc, stored, added, count>>
  BY <1>1, <1>2, <1>4 DEF FetchMultShare
<1>6. z'[p] = "freed" /\ \A q \in Parties \ {p} : z'[q] = z[q]
  BY <1>5 DEF IInv, TypeOK
<1>7. /\ toDealer'[p][Dealer] = toDealer[p][Dealer] \o <<"Success", "Z", "ZMac", "Sigma">>
      /\ \A q \in Parties : toDealer'[p][q] = toDealer[p][q]
      /\ \A q \in Parties \ {p} : toDealer'[q] = toDealer[q]
  BY <1>5, RepliedOnce, Answers DEF IInv
<1>8. Session(p)'
  BY <1>1, <1>3, <1>4, <1>5, <1>6, <1>7, SessionNext
<1>9. Opening(p)' /\ (Opened(p) => Opened(p)')
  BY <1>4, <1>5, <1>6 DEF IInv, Opening, Opened
<1>. QED
  BY <1>3, <1>5, <1>6, <1>7, <1>8, <1>9, LocalFrame, NodesAndParties

\* As many openings as peers: all of them.
LEMMA EveryPeer ==
  ASSUME IInv, NEW p \in Parties, count[p] = N - 1
  PROVE  added[p] = Parties \ {p}
<1>1. added[p] \subseteq Parties \ {p} /\ Cardinality(added[p]) = N - 1
  BY DEF IInv, Opening
<1>2. IsFiniteSet(Parties) /\ Cardinality(Parties) = N
  BY NodesAndParties, FS_Interval DEF Parties
<1>3. IsFiniteSet(Parties \ {p}) /\ Cardinality(Parties \ {p}) = N - 1
  BY <1>2, FS_RemoveElement
<1>. QED
  BY <1>1, <1>3, FS_Subset

\* The end of doMultiplicationDemo
LEMMA FinishStep ==
  ASSUME IInv, TypeOK', NEW p \in Parties, FinishProduct(p)
  PROVE  IInv'
<1>1. pc[p] = "open" /\ count[p] = N - 1 /\ UNCHANGED dealer
  BY DEF FinishProduct
<1>2. added[p] = Parties \ {p}
  BY <1>1, EveryPeer
<1>3. SessionAt(Progress(p), dealer.status = "closed", toRouter[Dealer][p],
                toDealer[p][Dealer] \o <<"Success">>, "loop", stored[p], "product")
  BY <1>1, SessionNow, SessionFinish
<1>4. /\ toDealer' = Reply(p, Dealer, <<"Success">>)
      /\ z' = [z EXCEPT ![p] = "product"] /\ pc' = [pc EXCEPT ![p] = "loop"]
      /\ UNCHANGED <<toRouter, dealer, stored, added, count>>
  BY DEF FinishProduct, Goto
<1>5. /\ z'[p] = "product" /\ pc'[p] = "loop"
      /\ \A q \in Parties \ {p} : z'[q] = z[q] /\ pc'[q] = pc[q]
  BY <1>4 DEF IInv, TypeOK
<1>6. /\ toDealer'[p][Dealer] = toDealer[p][Dealer] \o <<"Success">>
      /\ \A q \in Parties : toDealer'[p][q] = toDealer[p][q]
      /\ \A q \in Parties \ {p} : toDealer'[q] = toDealer[q]
  BY <1>4, RepliedOnce, Answers DEF IInv
<1>7. Session(p)'
  BY <1>3, <1>4, <1>5, <1>6, SessionNext
<1>8. Opening(p)' /\ Opened(p)'
  BY <1>2, <1>4, <1>5 DEF IInv, Opening, Opened
<1>. QED
  BY <1>4, <1>5, <1>6, <1>7, <1>8, LocalFrame

\* The receive timeout of CMD_SEND_SHARES
LEMMA ShareTimeoutStep ==
  ASSUME IInv, TypeOK', NEW p \in Parties, ShareTimeout(p)
  PROVE  IInv'
<1>1. /\ pc[p] = "shares" /\ pc' = [pc EXCEPT ![p] = "loop"]
      /\ UNCHANGED <<toRouter, toDealer, dealer, stored, z, added, count>>
  BY DEF ShareTimeout, Goto, transport
<1>2. pc'[p] = "loop" /\ \A q \in Parties \ {p} : pc'[q] = pc[q]
  BY <1>1 DEF IInv, TypeOK
<1>3. SessionAt(Progress(p), dealer.status = "closed", toRouter[Dealer][p],
                toDealer[p][Dealer], "loop", stored[p], z[p])
  BY <1>1, SessionNow, SessionShareTimeout
<1>4. Session(p)'
  BY <1>1, <1>2, <1>3, SessionNext
<1>5. Opening(p)' /\ (Opened(p) => Opened(p)')
  BY <1>1, <1>2 DEF IInv, Opening, Opened
<1>. QED
  BY <1>1, <1>2, <1>4, <1>5, LocalFrame

\* A peer's opening finds p in its loop before its triple: p dies of it.
LEMMA SessionDeathInLoop ==
  ASSUME NEW k \in 6 .. 15, NEW c, NEW req, NEW rep, NEW has \in BOOLEAN,
         SessionAt(k, c, req, rep, "loop", has, "zero"), NEW r \in Remains(rep)
  PROVE  SessionAt(k, c, req, r, "dead", has, "zero")
<1>1. CASE k = 6
  <2>1. rep = <<>> /\ has
    BY <1>1 DEF SessionAt, After6
  <2>2. r = <<>>
    BY <2>1, Cuts
  <2>. QED
    BY <1>1, <2>1, <2>2 DEF SessionAt, After6
<1>2. CASE k = 7
  <2>1. rep = <<>> /\ has
    BY <1>2 DEF SessionAt, After7
  <2>2. r = <<>>
    BY <2>1, Cuts
  <2>. QED
    BY <1>2, <2>1, <2>2 DEF SessionAt, After7
<1>3. CASE k \in {8, 9, 10}
  BY <1>3 DEF SessionAt, After8, After9, After10
<1>4. CASE k \in {11, 12, 13, 14, 15}
  BY <1>4 DEF SessionAt, Fetched, After15
<1>. QED
  BY <1>1, <1>2, <1>3, <1>4

\* An opening is cut off as a whole or not at all.
LEMMA CutOpening ==
  ASSUME NEW q \in {<<>>, <<"DE">>}, NEW r \in Remains(q)
  PROVE  r = <<>> \/ r = q
<1>1. CASE q = <<>>
  BY <1>1, Cuts
<1>2. CASE q = <<"DE">>
  BY <1>2, Cuts
<1>. QED
  BY <1>1, <1>2

\* Whatever a party dies of.
LEMMA DeathStep ==
  ASSUME IInv, TypeOK', NEW p \in Parties,
         NEW requests \in [Nodes -> [Parties -> Seq(Requests)]],
         Die(p, requests, toDealer), UNCHANGED dealer,
         \A t \in Nodes, q \in Parties \ {p} : requests[t][q] = toRouter[t][q],
         \A t \in Parties : requests[t][p] \in {toRouter[t][p], <<>>},
         z[p] = "zero",
         \A r \in Remains(toDealer[p][Dealer]) :
           SessionAt(Progress(p), dealer.status = "closed", requests[Dealer][p], r,
                     "dead", stored[p], z[p])
  PROVE  IInv'
<1>1. /\ \A t \in Nodes \ {p} : toRouter'[t] = requests[t]
      /\ \A q \in Parties : toRouter'[p][q] \in Remains(requests[p][q])
      /\ \A q \in Parties \ {p} : toDealer'[q] = toDealer[q]
      /\ \A t \in Nodes : toDealer'[p][t] \in Remains(toDealer[p][t])
  <2>1. TypeOK /\ toDealer \in [Parties -> [Nodes -> Seq(Replies)]]
    BY DEF IInv, TypeOK
  <2>. QED
    BY <2>1, Dying
<1>2. pc' = [pc EXCEPT ![p] = "dead"] /\ UNCHANGED <<stored, z, added, count>>
  BY DEF Die, Goto
<1>3. pc'[p] = "dead" /\ \A q \in Parties \ {p} : pc'[q] = pc[q]
  BY <1>2 DEF IInv, TypeOK
<1>4. Session(p)'
  <2>1. toRouter'[Dealer][p] = requests[Dealer][p]
    BY <1>1, NodesAndParties
  <2>2. toDealer'[p][Dealer] \in Remains(toDealer[p][Dealer])
    BY <1>1, NodesAndParties
  <2>. QED
    BY <1>2, <1>3, <2>1, <2>2, SessionNext
<1>5. Opening(p)'
  BY <1>2, <1>3 DEF IInv, Opening
<1>6. ASSUME NEW t \in Parties, NEW q \in Parties
      PROVE  toRouter'[t][q] \in {<<>>, toRouter[t][q]}
  <2>1. requests[t][q] \in {<<>>, toRouter[t][q]}
    BY NodesAndParties
  <2>2. CASE t # p
    BY <1>1, <2>1, <2>2, NodesAndParties
  <2>3. CASE t = p
    <3>1. requests[t][q] \in {<<>>, <<"DE">>}
      BY <2>1 DEF IInv, Peers
    <3>2. toRouter'[t][q] \in Remains(requests[t][q])
      BY <1>1, <2>3
    <3>. QED
      BY <2>1, <3>1, <3>2, CutOpening
  <2>. QED
    BY <2>2, <2>3
<1>7. ASSUME NEW q \in Parties
      PROVE  toDealer'[p][q] = <<>>
  <2>1. toDealer[p][q] = <<>>
    BY DEF IInv, Peers
  <2>2. q \in Nodes /\ Remains(<<>>) = {<<>>}
    BY Cuts, NodesAndParties
  <2>3. toDealer'[p][q] \in Remains(toDealer[p][q])
    BY <1>1, <2>2
  <2>. QED
    BY <2>1, <2>2, <2>3
<1>8. ASSUME NEW t \in Parties PROVE Opened(t) => Opened(t)'
  BY <1>2, <1>3 DEF Opened
<1>9. ASSUME NEW q \in Parties PROVE Peers(p, q)' /\ Peers(q, p)'
  <2>1. Peers(p, q) /\ Peers(q, p)
    BY DEF IInv
  <2>2. toDealer'[q][p] = <<>> /\ toDealer'[p][q] = <<>>
    BY <1>1, <1>7, <2>1 DEF Peers
  <2>. QED
    BY <1>2, <1>6, <1>8, <2>1, <2>2 DEF Peers
<1>10. /\ \A q \in Parties \ {p} : toRouter'[Dealer][q] = toRouter[Dealer][q]
       /\ \A q, r \in Parties \ {p} : toRouter'[q][r] = toRouter[q][r]
  <2>1. ASSUME NEW t \in Nodes \ {p}, NEW q \in Parties \ {p}
        PROVE  toRouter'[t][q] = toRouter[t][q]
    BY <1>1
  <2>. QED
    BY <2>1, NodesAndParties
<1>. QED
  BY <1>1, <1>2, <1>3, <1>4, <1>5, <1>9, <1>10, PartyFrame

\* The channels once p has taken a peer's opening.
LEMMA OpeningTaken ==
  ASSUME IInv, NEW p \in Parties, NEW s \in Parties \ {p}, Arrived(p, s)
  PROVE  /\ Taken(p, s) \in [Nodes -> [Parties -> Seq(Requests)]]
         /\ Taken(p, s)[Dealer][p] = toRouter[Dealer][p]
         /\ Taken(p, s)[s][p] = <<>>
         /\ \A t \in Nodes, q \in Parties \ {p} : Taken(p, s)[t][q] = toRouter[t][q]
         /\ \A t \in Parties : Taken(p, s)[t][p] \in {toRouter[t][p], <<>>}
         /\ \A t \in Parties \ {s} : Taken(p, s)[t][p] = toRouter[t][p]
<1>1. s \in Nodes /\ s # Dealer /\ Dealer \in Nodes /\ Parties \subseteq Nodes
  BY NodesAndParties
<1>2. Tail(toRouter[s][p]) = <<>>
  BY <1>1, Sender
<1>3. TypeOK /\ s \in Nodes
  BY <1>1 DEF IInv
<1>4. /\ Taken(p, s) \in [Nodes -> [Parties -> Seq(Requests)]]
      /\ Taken(p, s)[s][p] = <<>>
      /\ \A t \in Nodes, q \in Parties :
           ~(t = s /\ q = p) => Taken(p, s)[t][q] = toRouter[t][q]
  BY <1>2, <1>3, Receiving
<1>. QED
  BY <1>1, <1>4

\* A payload that runEventLoop receives
LEMMA UnknownStep ==
  ASSUME IInv, TypeOK', NEW p \in Parties, NEW s \in Nodes, UnknownCommand(p, s)
  PROVE  IInv'
<1>1. /\ Arrived(p, s) /\ pc[p] = "loop" /\ Received(p, s) \in Payloads
      /\ UNCHANGED dealer
  BY DEF UnknownCommand, Handle, Receive
<1>2. \/ toRouter' = Taken(p, s) /\ UNCHANGED <<toDealer, pc, stored, z, added, count>>
      \/ Die(p, Taken(p, s), toDealer)
  BY DEF UnknownCommand, party
<1>3. CASE s = Dealer
  <2>1. /\ toRouter[Dealer][p] # <<>> /\ Head(toRouter[Dealer][p]) = Received(p, s)
        /\ Taken(p, s)[Dealer][p] = Tail(toRouter[Dealer][p])
        /\ \A t \in Nodes, q \in Parties :
             ~(t = Dealer /\ q = p) => Taken(p, s)[t][q] = toRouter[t][q]
    BY <1>1, <1>3, Receiving DEF IInv, Arrived, Received
  <2>2. /\ Tail(toRouter[Dealer][p]) = <<>> /\ toDealer[p][Dealer] = <<>> /\ z[p] = "zero"
        /\ \A to \in {"loop", "dead"} :
             SessionAt(Progress(p), dealer.status = "closed", <<>>, <<>>, to, stored[p], z[p])
    <3>. DEFINE k == Progress(p)
                c == dealer.status = "closed"
                req == toRouter[Dealer][p]
                rep == toDealer[p][Dealer]
                has == stored[p]
                y == z[p]
    <3>1. /\ SessionAt(k, c, req, rep, "loop", has, y)
          /\ k \in 0 .. 15 /\ has \in BOOLEAN /\ req # <<>>
          /\ Head(req) \in Payloads
      BY <1>1, <2>1, SessionNow
    <3>. HIDE DEF k, c, req, rep, has, y
    <3>2. /\ Tail(req) = <<>> /\ rep = <<>> /\ k = 2
          /\ SessionAt(k, c, Tail(req), rep, "loop", has, y)
          /\ SessionAt(k, c, Tail(req), rep, "dead", has, y)
      BY <3>1, SessionUnknown
    <3>3. y = "zero"
      BY <3>2 DEF SessionAt, After2
    <3>. QED
      BY <3>2, <3>3 DEF k, c, req, rep, has, y
  <2>3. CASE Die(p, Taken(p, s), toDealer)
    <3>1. /\ Taken(p, s) \in [Nodes -> [Parties -> Seq(Requests)]]
          /\ \A t \in Nodes, q \in Parties \ {p} : Taken(p, s)[t][q] = toRouter[t][q]
          /\ \A t \in Parties : Taken(p, s)[t][p] \in {toRouter[t][p], <<>>}
      <4>1. Taken(p, s) \in [Nodes -> [Parties -> Seq(Requests)]]
        BY <1>1, Receiving DEF IInv
      <4>2. \A t \in Nodes, q \in Parties \ {p} : Taken(p, s)[t][q] = toRouter[t][q]
        BY <2>1
      <4>3. \A t \in Parties : Taken(p, s)[t][p] = toRouter[t][p]
        BY <2>1, NodesAndParties
      <4>. QED
        BY <4>1, <4>2, <4>3
    <3>2. \A r \in Remains(toDealer[p][Dealer]) :
            SessionAt(Progress(p), dealer.status = "closed", Taken(p, s)[Dealer][p], r,
                      "dead", stored[p], z[p])
      BY <2>1, <2>2, Cuts
    <3>. QED
      BY <1>1, <2>2, <2>3, <3>1, <3>2, DeathStep
  <2>4. CASE toRouter' = Taken(p, s) /\ UNCHANGED <<toDealer, pc, stored, z, added, count>>
    <3>1. Session(p)'
      BY <1>1, <2>1, <2>2, <2>4, SessionNext
    <3>2. Opening(p)' /\ (Opened(p) => Opened(p)')
      BY <2>4 DEF IInv, Opening, Opened
    <3>3. /\ \A q \in Parties \ {p} : toRouter'[Dealer][q] = toRouter[Dealer][q]
          /\ \A q, r \in Parties : toRouter'[q][r] = toRouter[q][r]
      BY <2>1, <2>4, NodesAndParties
    <3>. QED
      BY <1>1, <2>4, <3>1, <3>2, <3>3, LocalFrame
  <2>. QED
    BY <1>2, <2>3, <2>4
<1>4. CASE s # Dealer
  <2>1. /\ s \in Parties \ {p} /\ s \notin added[p] /\ dealer.step > 6
        /\ toRouter[s][p] = <<"DE">>
    BY <1>1, <1>4, Sender
  <2>2. /\ Taken(p, s) \in [Nodes -> [Parties -> Seq(Requests)]]
        /\ Taken(p, s)[Dealer][p] = toRouter[Dealer][p]
        /\ Taken(p, s)[s][p] = <<>>
        /\ \A t \in Nodes, q \in Parties \ {p} : Taken(p, s)[t][q] = toRouter[t][q]
        /\ \A t \in Parties : Taken(p, s)[t][p] \in {toRouter[t][p], <<>>}
    BY <1>1, <2>1, OpeningTaken
  <2>3. z[p] = "zero"
    BY <2>1 DEF IInv, Opening
  <2>4. CASE Die(p, Taken(p, s), toDealer)
    <3>1. /\ Progress(p) \in 6 .. 15 /\ stored[p] \in BOOLEAN
          /\ SessionAt(Progress(p), dealer.status = "closed", toRouter[Dealer][p],
                       toDealer[p][Dealer], "loop", stored[p], "zero")
      BY <1>1, <2>1, <2>3, SessionNow, ProgressRange DEF IInv
    <3>2. \A r \in Remains(toDealer[p][Dealer]) :
            SessionAt(Progress(p), dealer.status = "closed", Taken(p, s)[Dealer][p], r,
                      "dead", stored[p], z[p])
      BY <2>2, <2>3, <3>1, SessionDeathInLoop
    <3>. QED
      BY <1>1, <2>2, <2>3, <2>4, <3>2, DeathStep
  <2>5. CASE toRouter' = Taken(p, s) /\ UNCHANGED <<toDealer, pc, stored, z, added, count>>
    <3>1. Session(p)'
      <4>1. SessionAt(Progress(p), dealer.status = "closed", toRouter[Dealer][p],
                      toDealer[p][Dealer], pc[p], stored[p], z[p])
        BY SessionNow
      <4>. QED
        BY <1>1, <2>2, <2>5, <4>1, SessionNext
    <3>2. Opening(p)'
      BY <2>5 DEF IInv, Opening
    <3>3. /\ \A q \in Parties \ {p} : toRouter'[Dealer][q] = toRouter[Dealer][q]
          /\ \A t \in Parties, q \in Parties : toRouter'[t][q] \in {<<>>, toRouter[t][q]}
          /\ \A q, r \in Parties \ {p} : toRouter'[q][r] = toRouter[q][r]
      <4>1. toRouter' = Taken(p, s) /\ Dealer \in Nodes /\ Parties \subseteq Nodes
        BY <2>5, NodesAndParties
      <4>2. \A t \in Nodes, q \in Parties \ {p} : toRouter'[t][q] = toRouter[t][q]
        BY <2>2, <4>1
      <4>3. \A t \in Parties : toRouter'[t][p] \in {<<>>, toRouter[t][p]}
        BY <2>2, <4>1
      <4>4. ASSUME NEW t \in Parties, NEW q \in Parties
            PROVE  toRouter'[t][q] \in {<<>>, toRouter[t][q]}
        BY <4>1, <4>2, <4>3
      <4>. QED
        BY <4>1, <4>2, <4>4
    <3>4. ASSUME NEW q \in Parties PROVE Peers(p, q)' /\ Peers(q, p)'
      BY <1>1, <2>5, <3>3 DEF IInv, Peers, Opened
    <3>. QED
      BY <1>1, <2>5, <3>1, <3>2, <3>3, <3>4, PartyFrame
  <2>. QED
    BY <1>2, <2>4, <2>5
<1>. QED
  BY <1>3, <1>4

\* The receive timeouts that throw
LEMMA OpeningTimeoutStep ==
  ASSUME IInv, TypeOK', NEW p \in Parties, OpeningTimeout(p)
  PROVE  IInv'
<1>1. pc[p] \in {"triple", "open"} /\ Die(p, toRouter, toDealer) /\ UNCHANGED dealer
  BY DEF OpeningTimeout
<1>2. \A r \in Remains(toDealer[p][Dealer]) :
        SessionAt(Progress(p), dealer.status = "closed", toRouter[Dealer][p], r,
                  "dead", stored[p], z[p])
  BY <1>1, SessionNow, SessionDeath
<1>3. z[p] = "zero"
  BY <1>1, SessionNow, Busy
<1>4. toRouter \in [Nodes -> [Parties -> Seq(Requests)]]
  BY DEF IInv, TypeOK
<1>. QED
  BY <1>1, <1>2, <1>3, <1>4, DeathStep

\* receiveBeaverTriple, and the openings p sends
LEMMA ReceiveTripleStep ==
  ASSUME IInv, TypeOK', NEW p \in Parties, NEW s \in Nodes, ReceiveTriple(p, s)
  PROVE  IInv'
<1>1. Arrived(p, s) /\ pc[p] = "triple" /\ UNCHANGED dealer
  BY DEF ReceiveTriple, Receive
<1>2. z[p] = "zero"
  BY <1>1, SessionNow, Busy
<1>3. CASE s # Dealer
  <2>1. s \in Parties \ {p} /\ Received(p, s) = "DE"
    BY <1>1, <1>3, Sender
  <2>2. Die(p, Taken(p, s), toDealer)
    BY <2>1 DEF ReceiveTriple
  <2>3. /\ Taken(p, s) \in [Nodes -> [Parties -> Seq(Requests)]]
        /\ Taken(p, s)[Dealer][p] = toRouter[Dealer][p]
        /\ \A t \in Nodes, q \in Parties \ {p} : Taken(p, s)[t][q] = toRouter[t][q]
        /\ \A t \in Parties : Taken(p, s)[t][p] \in {toRouter[t][p], <<>>}
    BY <1>1, <2>1, OpeningTaken
  <2>4. \A r \in Remains(toDealer[p][Dealer]) :
          SessionAt(Progress(p), dealer.status = "closed", Taken(p, s)[Dealer][p], r,
                    "dead", stored[p], z[p])
    <3>1. \A r \in Remains(toDealer[p][Dealer]) :
            SessionAt(Progress(p), dealer.status = "closed", toRouter[Dealer][p], r,
                      "dead", stored[p], z[p])
      BY <1>1, SessionNow, SessionDeath
    <3>. QED
      BY <2>3, <3>1
  <2>. QED
    BY <1>1, <1>2, <2>2, <2>3, <2>4, DeathStep
<1>4. CASE s = Dealer
  <2>1. /\ toRouter[Dealer][p] # <<>> /\ Head(toRouter[Dealer][p]) = Received(p, s)
        /\ Taken(p, s)[Dealer][p] = Tail(toRouter[Dealer][p])
        /\ \A t \in Nodes, q \in Parties :
             ~(t = Dealer /\ q = p) => Taken(p, s)[t][q] = toRouter[t][q]
    BY <1>1, <1>4, Receiving DEF IInv, Arrived, Received
  <2>2. /\ Received(p, s) = "Triple" /\ stored[p] /\ Progress(p) = 7
        /\ SessionAt(Progress(p), dealer.status = "closed", Tail(toRouter[Dealer][p]),
                     toDealer[p][Dealer] \o <<"Success">>, "open", stored[p], z[p])
    <3>. DEFINE k == Progress(p)
                c == dealer.status = "closed"
                req == toRouter[Dealer][p]
                rep == toDealer[p][Dealer]
    <3>1. /\ SessionAt(k, c, req, rep, "triple", stored[p], z[p])
          /\ k \in 0 .. 15 /\ stored[p] \in BOOLEAN /\ req # <<>>
          /\ Head(req) = Received(p, s)
      BY <1>1, <2>1, SessionNow
    <3>. HIDE DEF k, c, req, rep
    <3>2. /\ Head(req) = "Triple" /\ stored[p] /\ k = 7
          /\ SessionAt(k, c, Tail(req), rep \o <<"Success">>, "open", stored[p], z[p])
      BY <3>1, SessionTriple
    <3>. QED
      BY <3>1, <3>2 DEF k, c, req, rep
  <2>3. /\ \A t \in Nodes \ {p} : toRouter'[t] = Taken(p, s)[t]
        /\ toRouter'[p][p] = Taken(p, s)[p][p]
        /\ \A q \in Parties \ {p} : toRouter'[p][q] = Append(Taken(p, s)[p][q], "DE")
        /\ toDealer' = Reply(p, Dealer, <<"Success">>)
        /\ added' = [added EXCEPT ![p] = {}]
        /\ count' = [count EXCEPT ![p] = 0]
        /\ pc' = [pc EXCEPT ![p] = "open"]
        /\ UNCHANGED <<stored, z, dealer>>
    BY <1>4, <2>2, TripleEffect DEF IInv
  <2>4. /\ added'[p] = {} /\ count'[p] = 0 /\ pc'[p] = "open"
        /\ \A q \in Parties \ {p} :
             added'[q] = added[q] /\ count'[q] = count[q] /\ pc'[q] = pc[q]
    BY <2>3 DEF IInv, TypeOK
  <2>5. /\ toDealer'[p][Dealer] = toDealer[p][Dealer] \o <<"Success">>
        /\ \A q \in Parties : toDealer'[p][q] = toDealer[p][q]
        /\ \A q \in Parties \ {p} : toDealer'[q] = toDealer[q]
    BY <2>3, RepliedOnce, Answers DEF IInv
  <2>6. /\ toRouter'[Dealer][p] = Tail(toRouter[Dealer][p])
        /\ \A q \in Parties \ {p} : toRouter'[Dealer][q] = toRouter[Dealer][q]
        /\ \A q \in Parties \ {p}, r \in Parties : toRouter'[q][r] = toRouter[q][r]
        /\ toRouter'[p][p] = toRouter[p][p]
        /\ \A q \in Parties \ {p} : toRouter'[p][q] = Append(toRouter[p][q], "DE")
    <3>1. /\ Dealer \in Nodes \ {p} /\ p \in Nodes /\ p # Dealer
          /\ \A q \in Parties : q \in Nodes /\ q # Dealer
      BY NodesAndParties
    <3>2. ASSUME NEW t \in Nodes \ {p}, NEW q \in Parties
          PROVE  toRouter'[t][q] = Taken(p, s)[t][q]
      BY <2>3
    <3>3. \A t \in Parties, q \in Parties : Taken(p, s)[t][q] = toRouter[t][q]
      BY <2>1, <3>1
    <3>4. /\ toRouter'[Dealer][p] = Tail(toRouter[Dealer][p])
          /\ \A q \in Parties \ {p} : toRouter'[Dealer][q] = toRouter[Dealer][q]
      BY <2>1, <3>1, <3>2
    <3>5. \A q \in Parties \ {p}, r \in Parties : toRouter'[q][r] = toRouter[q][r]
      BY <3>1, <3>2, <3>3
    <3>6. toRouter'[p][p] = toRouter[p][p]
      BY <2>3, <3>3
    <3>7. \A q \in Parties \ {p} : toRouter'[p][q] = Append(toRouter[p][q], "DE")
      BY <2>3, <3>3
    <3>. QED
      BY <3>4, <3>5, <3>6, <3>7
  <2>7. Session(p)'
    BY <1>1, <2>2, <2>3, <2>4, <2>5, <2>6, SessionNext
  <2>8. Opening(p)'
    BY <1>2, <2>3, <2>4, FS_EmptySet DEF Opening
  <2>9. ~Opened(p) /\ dealer.step > 6
    BY <1>1, <1>2, <2>2, ProgressRange DEF IInv, Opened
  <2>10. ASSUME NEW q \in Parties PROVE Peers(p, q)'
    <3>1. Peers(p, q) /\ toRouter[p][q] = <<>> /\ p \notin added[q]
      BY <2>9 DEF IInv, Peers
    <3>2. toDealer'[q][p] = <<>>
      BY <2>5, <3>1 DEF Peers
    <3>3. toRouter'[p][q] = IF q = p THEN <<>> ELSE <<"DE">>
      BY <2>6, <3>1, AppendEmpty
    <3>4. p \notin added'[q] /\ Opened(p)' /\ dealer'.step > 6
      BY <2>3, <2>4, <2>9, <3>1 DEF Opened
    <3>. QED
      BY <3>2, <3>3, <3>4 DEF Peers
  <2>11. ASSUME NEW q \in Parties \ {p} PROVE Peers(q, p)'
    <3>1. Peers(q, p)
      BY DEF IInv
    <3>2. toRouter'[q][p] = toRouter[q][p] /\ toDealer'[p][q] = toDealer[p][q]
      BY <2>5, <2>6
    <3>3. added'[p] = {} /\ (Opened(q) => Opened(q)') /\ dealer' = dealer
      BY <2>3, <2>4 DEF Opened
    <3>. QED
      BY <3>1, <3>2, <3>3 DEF Peers
  <2>. QED
    BY <2>3, <2>4, <2>5, <2>6, <2>7, <2>8, <2>10, <2>11, PartyFrame
<1>. QED
  BY <1>3, <1>4

\* One opening of doMultiplicationDemo
LEMMA AddOpeningStep ==
  ASSUME IInv, TypeOK', NEW p \in Parties, NEW s \in Nodes, AddOpening(p, s)
  PROVE  IInv'
<1>1. Arrived(p, s) /\ pc[p] = "open" /\ UNCHANGED dealer
  BY DEF AddOpening, Receive
<1>2. toRouter[Dealer][p] = <<>> /\ z[p] = "zero"
  BY <1>1, SessionNow, Busy
<1>3. /\ s \in Parties \ {p} /\ Received(p, s) \in Payloads
      /\ Opened(s) /\ s \notin added[p]
  BY <1>1, <1>2, Sender DEF Arrived, Payloads
<1>4. /\ Taken(p, s)[Dealer][p] = toRouter[Dealer][p]
      /\ Taken(p, s)[s][p] = <<>>
      /\ \A t \in Nodes, q \in Parties \ {p} : Taken(p, s)[t][q] = toRouter[t][q]
      /\ \A t \in Parties \ {s} : Taken(p, s)[t][p] = toRouter[t][p]
  BY <1>1, <1>3, OpeningTaken
<1>5. /\ toRouter' = Taken(p, s)
      /\ added' = [added EXCEPT ![p] = @ \cup {s}]
      /\ count' = [count EXCEPT ![p] = @ + 1]
      /\ UNCHANGED <<toDealer, pc, stored, z, dealer>>
  BY <1>3, AddEffect DEF IInv
<1>6. /\ added'[p] = added[p] \cup {s} /\ count'[p] = count[p] + 1
      /\ \A q \in Parties \ {p} : added'[q] = added[q] /\ count'[q] = count[q]
  BY <1>5 DEF IInv, TypeOK
<1>7. Session(p)'
  BY <1>4, <1>5, SessionNow, SessionNext
<1>8. Opening(p)'
  <2>1. /\ added[p] \subseteq Parties \ {p} /\ count[p] = Cardinality(added[p])
        /\ IsFiniteSet(added[p])
    <3>1. IsFiniteSet(Parties)
      BY NodesAndParties, FS_Interval DEF Parties
    <3>2. added[p] \subseteq Parties \ {p} /\ count[p] = Cardinality(added[p])
      BY DEF IInv, Opening
    <3>. QED
      BY <3>1, <3>2, FS_Subset
  <2>2. Cardinality(added[p] \cup {s}) = count[p] + 1
    BY <1>3, <2>1, FS_AddElement
  <2>. QED
    BY <1>1, <1>2, <1>3, <1>5, <1>6, <2>1, <2>2 DEF Opening
<1>9. \A q \in Parties : Opened(q)' <=> Opened(q)
  BY <1>5 DEF Opened
<1>10. ASSUME NEW q \in Parties PROVE Peers(p, q)'
  <2>1. Peers(p, q) /\ s # p
    BY <1>3 DEF IInv
  <2>2. toRouter'[p][q] = toRouter[p][q] /\ toDealer'[q][p] = toDealer[q][p]
    BY <1>3, <1>4, <1>5, NodesAndParties
  <2>3. p \in added'[q] <=> p \in added[q]
    BY <1>3, <1>6
  <2>. QED
    BY <1>5, <1>9, <2>1, <2>2, <2>3 DEF Peers
<1>11. ASSUME NEW q \in Parties PROVE Peers(q, p)'
  <2>1. Peers(q, p)
    BY DEF IInv
  <2>2. toRouter'[q][p] = IF q = s THEN <<>> ELSE toRouter[q][p]
    BY <1>4, <1>5
  <2>3. q \in added'[p] <=> q = s \/ q \in added[p]
    BY <1>6
  <2>. QED
    BY <1>3, <1>5, <1>9, <2>1, <2>2, <2>3 DEF Peers
<1>12. /\ \A q \in Parties \ {p} : toRouter'[Dealer][q] = toRouter[Dealer][q]
       /\ \A q, r \in Parties \ {p} : toRouter'[q][r] = toRouter[q][r]
  BY <1>4, <1>5, NodesAndParties
<1>. QED
  BY <1>5, <1>6, <1>7, <1>8, <1>10, <1>11, <1>12, PartyFrame

\* CMD_SHUTDOWN
LEMMA ShutdownStep ==
  ASSUME IInv, TypeOK', NEW p \in Parties, NEW s \in Nodes, ShutdownCmd(p, s)
  PROVE  IInv'
<1>1. /\ Arrived(p, s) /\ pc[p] = "loop" /\ Received(p, s) = "Shutdown"
      /\ UNCHANGED <<dealer, stored, z, added, count>>
      /\ pc' = [pc EXCEPT ![p] = "exited"]
  BY DEF ShutdownCmd, Handle, Receive, Goto
<1>2. s = Dealer
  BY <1>1, Sender
<1>3. /\ toRouter[Dealer][p] # <<>> /\ Head(toRouter[Dealer][p]) = Received(p, s)
      /\ Taken(p, s)[Dealer][p] = Tail(toRouter[Dealer][p])
      /\ \A t \in Nodes, q \in Parties :
           ~(t = Dealer /\ q = p) => Taken(p, s)[t][q] = toRouter[t][q]
  BY <1>1, <1>2, Receiving DEF IInv, Arrived, Received
<1>4. /\ Tail(toRouter[Dealer][p]) = <<>> /\ toDealer[p][Dealer] = <<>> /\ z[p] = "freed"
      /\ SessionAt(Progress(p), dealer.status = "closed", <<>>, <<>>, "exited", stored[p], z[p])
  <2>. DEFINE k == Progress(p)
              c == dealer.status = "closed"
              req == toRouter[Dealer][p]
              rep == toDealer[p][Dealer]
              has == stored[p]
              y == z[p]
  <2>1. /\ SessionAt(k, c, req, rep, "loop", has, y)
        /\ k \in 0 .. 15 /\ has \in BOOLEAN /\ req # <<>>
        /\ Head(req) = "Shutdown"
    BY <1>1, <1>3, SessionNow
  <2>. HIDE DEF k, c, req, rep, has, y
  <2>2. k = 15 /\ req = <<"Shutdown">> /\ rep = <<>> /\ has /\ y = "freed"
    BY ONLY <2>1, SessionShutdown
  <2>3. Tail(req) = <<>>
    BY <2>2, Tails
  <2>4. SessionAt(k, c, <<>>, <<>>, "exited", has, y)
    BY <2>2, SessionExited
  <2>. QED
    BY <2>2, <2>3, <2>4 DEF k, c, req, rep, has, y
<1>5. pc'[p] = "exited" /\ \A q \in Parties \ {p} : pc'[q] = pc[q]
  BY <1>1 DEF IInv, TypeOK
<1>6. /\ \A t \in Nodes \ {p} : toRouter'[t] = Taken(p, s)[t]
      /\ \A q \in Parties : toRouter'[p][q] \in Remains(Taken(p, s)[p][q])
  <2>1. Taken(p, s) \in [Nodes -> [Parties -> Seq(Requests)]] /\ p \in Nodes
    BY <1>1, Receiving, NodesAndParties DEF IInv
  <2>. DEFINE ch == Taken(p, s)
              new == toRouter'
  <2>2. ch \in [Nodes -> [Parties -> Seq(Requests)]] /\ new \in AfterClose(ch, p)
    BY <2>1 DEF ShutdownCmd
  <2>. HIDE DEF ch, new
  <2>3. /\ new \in [Nodes -> [Parties -> Seq(Requests)]]
        /\ \A t \in Nodes \ {p} : new[t] = ch[t]
        /\ \A q \in Parties : new[p][q] \in Remains(ch[p][q])
    BY <2>1, <2>2, Closed
  <2>. QED
    BY <2>3 DEF ch, new
<1>7. /\ \A q \in Parties \ {p} : toDealer'[q] = toDealer[q]
      /\ \A t \in Nodes : toDealer'[p][t] \in Remains(toDealer[p][t])
  <2>. DEFINE new == toDealer'
  <2>1. toDealer \in [Parties -> [Nodes -> Seq(Replies)]] /\ new \in AfterClose(toDealer, p)
    BY DEF IInv, TypeOK, ShutdownCmd
  <2>. HIDE DEF new
  <2>2. /\ new \in [Parties -> [Nodes -> Seq(Replies)]]
        /\ \A q \in Parties \ {p} : new[q] = toDealer[q]
        /\ \A t \in Nodes : new[p][t] \in Remains(toDealer[p][t])
    BY <2>1, Closed
  <2>. QED
    BY <2>2 DEF new
<1>8. \A t \in Nodes : toDealer[p][t] = <<>>
  BY <1>4, NodesAndParties DEF IInv, Peers
<1>9. \A t \in Nodes : toDealer'[p][t] = <<>>
  <2>1. Remains(<<>>) = {<<>>}
    BY Cuts
  <2>. QED
    BY <1>7, <1>8, <2>1
<1>10. Session(p)'
  <2>1. toRouter'[Dealer][p] = <<>>
    BY <1>3, <1>4, <1>6, NodesAndParties
  <2>2. toDealer'[p][Dealer] = <<>>
    BY <1>9, NodesAndParties
  <2>. QED
    BY <1>1, <1>4, <1>5, <2>1, <2>2, SessionNext
<1>11. Opening(p)'
  BY <1>1, <1>4, <1>5 DEF IInv, Opening
<1>12. ASSUME NEW t \in Parties, NEW q \in Parties
       PROVE  toRouter'[t][q] \in {<<>>, toRouter[t][q]}
  <2>1. Taken(p, s)[t][q] = toRouter[t][q]
    BY <1>3, NodesAndParties
  <2>2. CASE t # p
    BY <1>6, <2>1, <2>2, NodesAndParties
  <2>3. CASE t = p
    <3>1. toRouter[t][q] \in {<<>>, <<"DE">>}
      BY DEF IInv, Peers
    <3>2. toRouter'[t][q] \in Remains(toRouter[t][q])
      BY <1>6, <2>1, <2>3
    <3>. QED
      BY <3>1, <3>2, CutOpening
  <2>. QED
    BY <2>2, <2>3
<1>13. ASSUME NEW t \in Parties PROVE Opened(t) => Opened(t)'
  BY <1>1, <1>4, <1>5 DEF Opened
<1>14. ASSUME NEW q \in Parties PROVE Peers(p, q)' /\ Peers(q, p)'
  <2>1. Peers(p, q) /\ Peers(q, p)
    BY DEF IInv
  <2>2. toDealer'[q][p] = <<>> /\ toDealer'[p][q] = <<>>
    <3>1. q \in Nodes /\ p \in Nodes
      BY NodesAndParties
    <3>. QED
      BY <1>7, <1>9, <2>1, <3>1 DEF Peers
  <2>. QED
    BY <1>1, <1>12, <1>13, <2>1, <2>2 DEF Peers
<1>15. /\ \A q \in Parties \ {p} : toRouter'[Dealer][q] = toRouter[Dealer][q]
       /\ \A q, r \in Parties \ {p} : toRouter'[q][r] = toRouter[q][r]
  <2>1. ASSUME NEW t \in Nodes \ {p}, NEW q \in Parties \ {p}
        PROVE  toRouter'[t][q] = toRouter[t][q]
    BY <1>3, <1>6
  <2>. QED
    BY <2>1, NodesAndParties
<1>. QED
  BY <1>1, <1>5, <1>7, <1>10, <1>11, <1>14, <1>15, PartyFrame

-----------------------------------------------------------------------------
(* So does every step of the secret holder.                                *)

\* A broadcast or a receive that moves the session with dealer.to along.
LEMMA AdvanceStep ==
  ASSUME IInv, TypeOK', dealer.status = "running", dealer.step \in 1 .. 15,
         dealer' = Advance, UNCHANGED <<pc, stored, z, added, count>>,
         \A q \in Parties \ {dealer.to} :
           /\ toRouter'[Dealer][q] = toRouter[Dealer][q]
           /\ toDealer'[q][Dealer] = toDealer[q][Dealer],
         \A q, r \in Parties : /\ toRouter'[q][r] = toRouter[q][r]
                               /\ toDealer'[q][r] = toDealer[q][r],
         SessionAt(dealer.step, dealer.status = "closed", toRouter'[Dealer][dealer.to],
                   toDealer'[dealer.to][Dealer], pc[dealer.to], stored[dealer.to],
                   z[dealer.to])
  PROVE  IInv'
<1>1. /\ dealer.to \in Parties /\ dealer.to \in 1 .. N /\ N \in Nat
      /\ dealer'.status = dealer.status
      /\ \/ dealer'.step = dealer.step
         \/ dealer'.to = 1 /\ dealer'.step = dealer.step + 1
  BY Advancing, NodesAndParties DEF IInv, TypeOK, Parties
<1>2. DealerState'
  BY <1>1 DEF DealerState
<1>3. ASSUME NEW p \in Parties PROVE Session(p)'
  <2>1. Progress(p)' = IF p = dealer.to THEN dealer.step ELSE Progress(p)
    <3>1. /\ Progress(p)' = IF p = dealer.to THEN Progress(p) + 1 ELSE Progress(p)
          /\ Progress(dealer.to) = dealer.step - 1
      BY ProgressAdvance DEF IInv
    <3>. QED
      BY <3>1
  <2>2. CASE p = dealer.to
    BY <1>1, <2>1, <2>2 DEF Session
  <2>3. CASE p # dealer.to
    BY <1>1, <2>1, <2>3 DEF IInv, Session
  <2>. QED
    BY <2>2, <2>3
<1>4. ASSUME NEW p \in Parties PROVE Opening(p)'
  BY DEF IInv, Opening
<1>5. ASSUME NEW p \in Parties, NEW q \in Parties PROVE Peers(q, p)'
  <2>1. Peers(q, p) /\ (dealer.step > 6 => dealer'.step > 6)
    BY <1>1 DEF IInv
  <2>. QED
    BY <2>1 DEF Peers, Opened
<1>. QED
  BY <1>2, <1>3, <1>4, <1>5 DEF IInv

\* Every broadcast of init keeps the invariant.
LEMMA DealerSendStep ==
  ASSUME IInv, TypeOK', DealerSend
  PROVE  IInv'
<1>. DEFINE to == dealer.to
            msg == Program[dealer.step].msg
<1>1. /\ dealer.status = "running" /\ dealer.step \in 1 .. 15
      /\ Program[dealer.step].op = "send"
      /\ dealer' = Advance /\ UNCHANGED <<toDealer, pc, stored, z, added, count>>
      /\ toRouter' = SendTo(Dealer, to, msg)
  BY ProgramSteps DEF DealerSend, AtStep, party
<1>2. to \in Parties /\ TypeOK
  BY DEF IInv, TypeOK
<1>3. msg \in Requests
  BY <1>1, ProgramSteps, ProgramOps, Operations DEF Requests, Commands, Payloads
<1>4. /\ toRouter'[Dealer][to] = Append(toRouter[Dealer][to], msg)
      /\ \A t \in Nodes, q \in Parties :
           ~(t = Dealer /\ q = to) => toRouter'[t][q] = toRouter[t][q]
  <2>1. Dealer \in Nodes
    BY NodesAndParties
  <2>. HIDE DEF to, msg
  <2>2. /\ SendTo(Dealer, to, msg)[Dealer][to] = Append(toRouter[Dealer][to], msg)
        /\ \A t \in Nodes, q \in Parties :
             ~(t = Dealer /\ q = to) => SendTo(Dealer, to, msg)[t][q] = toRouter[t][q]
    BY <1>2, <1>3, <2>1, Sending
  <2>. QED
    BY <1>1, <2>2
<1>5. SessionAt(dealer.step, dealer.status = "closed", toRouter'[Dealer][to],
                toDealer'[to][Dealer], pc[to], stored[to], z[to])
  <2>. DEFINE k == dealer.step - 1
              c == dealer.status = "closed"
              req == toRouter[Dealer][to]
              rep == toDealer[to][Dealer]
              has == stored[to]
              at == pc[to]
              y == z[to]
  <2>1. /\ SessionAt(k, c, req, rep, at, has, y) /\ has \in BOOLEAN
        /\ k \in 0 .. 14 /\ k + 1 = dealer.step
    <3>1. Progress(to) = k
      BY <1>1, <1>2, ProgressAdvance
    <3>2. k \in 0 .. 14 /\ k + 1 = dealer.step
      BY <1>1
    <3>. QED
      BY <1>2, <3>1, <3>2, SessionNow
  <2>2. Program[k + 1].op = "send" /\ msg = Program[k + 1].msg
    BY <1>1, <2>1
  <2>. HIDE DEF k, c, req, rep, has, at, y, msg
  <2>3. SessionAt(k + 1, c, Append(req, Program[k + 1].msg), rep, at, has, y)
    BY <2>1, <2>2, SessionSend
  <2>4. SessionAt(dealer.step, c, Append(req, msg), rep, at, has, y)
    BY <2>1, <2>2, <2>3
  <2>. QED
    BY <1>1, <1>4, <2>4 DEF c, req, rep, has, at, y
<1>6. /\ \A q \in Parties \ {to} : /\ toRouter'[Dealer][q] = toRouter[Dealer][q]
                                   /\ toDealer'[q][Dealer] = toDealer[q][Dealer]
      /\ \A q, r \in Parties : /\ toRouter'[q][r] = toRouter[q][r]
                               /\ toDealer'[q][r] = toDealer[q][r]
  BY <1>1, <1>4, NodesAndParties
<1>. QED
  BY <1>1, <1>5, <1>6, AdvanceStep

\* The reply the secret holder reads is the one it waits for.
LEMMA NextReplyFits ==
  ASSUME IInv, AtStep("receive"), Replied(dealer.to, Dealer)
  PROVE  /\ NextReply(dealer.to, Dealer) = Program[dealer.step].msg
         /\ SessionAt(dealer.step, dealer.status = "closed", toRouter[Dealer][dealer.to],
                      Tail(toDealer[dealer.to][Dealer]), pc[dealer.to],
                      stored[dealer.to], z[dealer.to])
<1>. DEFINE to == dealer.to
            k == dealer.step - 1
            c == dealer.status = "closed"
            req == toRouter[Dealer][to]
            rep == toDealer[to][Dealer]
            has == stored[to]
            at == pc[to]
            y == z[to]
<1>1. dealer.step \in 1 .. 15 /\ Program[dealer.step].op = "receive"
  BY ProgramSteps DEF AtStep
<1>2. to \in Parties /\ TypeOK
  BY DEF IInv, TypeOK
<1>3. /\ SessionAt(k, c, req, rep, at, has, y) /\ has \in BOOLEAN
      /\ k \in 0 .. 14 /\ k + 1 = dealer.step
  <2>1. Progress(to) = k
    <3>1. dealer.to \in 1 .. N /\ N \in Nat
      BY <1>2, NodesAndParties DEF Parties
    <3>. QED
      BY <1>1, <3>1 DEF Progress
  <2>2. k \in 0 .. 14 /\ k + 1 = dealer.step
    BY <1>1
  <2>. QED
    BY <1>2, <2>1, <2>2, SessionNow
<1>4. rep # <<>> /\ NextReply(to, Dealer) = Head(rep)
  BY DEF Replied, NextReply
<1>5. Program[k + 1].op = "receive"
  BY <1>1, <1>3
<1>. HIDE DEF k, c, req, rep, has, at, y
<1>6. /\ Head(rep) = Program[k + 1].msg
      /\ SessionAt(k + 1, c, req, Tail(rep), at, has, y)
  BY <1>3, <1>4, <1>5, SessionReceive
<1>7. /\ NextReply(to, Dealer) = Program[dealer.step].msg
      /\ SessionAt(dealer.step, c, req, Tail(rep), at, has, y)
  BY <1>3, <1>4, <1>6
<1>. QED
  BY <1>7 DEF c, req, rep, has, at, y

\* Every receive of init keeps the invariant.
LEMMA DealerReceiveStep ==
  ASSUME IInv, TypeOK', DealerReceive
  PROVE  IInv'
<1>. DEFINE to == dealer.to
<1>1. /\ AtStep("receive") /\ Replied(to, Dealer)
      /\ toDealer' = TakenReply(to, Dealer)
      /\ UNCHANGED <<pc, stored, z, added, count>>
  BY DEF DealerReceive, party
<1>2. dealer.status = "running" /\ dealer.step \in 1 .. 15 /\ to \in Parties
  BY <1>1, ProgramSteps DEF IInv, TypeOK, AtStep
<1>3. /\ NextReply(to, Dealer) = Program[dealer.step].msg
      /\ SessionAt(dealer.step, dealer.status = "closed", toRouter[Dealer][to],
                   Tail(toDealer[to][Dealer]), pc[to], stored[to], z[to])
  BY <1>1, NextReplyFits
<1>4. Accepts(Program[dealer.step].msg, NextReply(to, Dealer))
  BY <1>3 DEF Accepts
<1>5. dealer' = Advance /\ UNCHANGED toRouter
  BY <1>4 DEF DealerReceive
<1>6. /\ toDealer'[to][Dealer] = Tail(toDealer[to][Dealer])
      /\ \A q \in Parties \ {to} : toDealer'[q][Dealer] = toDealer[q][Dealer]
      /\ \A q, r \in Parties : toDealer'[q][r] = toDealer[q][r]
  <2>1. toDealer \in [Parties -> [Nodes -> Seq(Replies)]]
    BY DEF IInv, TypeOK
  <2>. QED
    BY <1>1, <1>2, <2>1, NodesAndParties DEF TakenReply
<1>. QED
  BY <1>1, <1>2, <1>3, <1>5, <1>6, AdvanceStep

\* The end of init keeps the invariant, whatever is cut off.
LEMMA DealerCloseStep ==
  ASSUME IInv, TypeOK', DealerClose
  PROVE  IInv'
<1>1. /\ dealer.status = "running" /\ dealer.step \notin DOMAIN Program
      /\ dealer' = [dealer EXCEPT !.status = "closed"]
      /\ UNCHANGED <<toDealer, pc, stored, z, added, count>>
  BY DEF DealerClose, party
<1>2. dealer.step = 16 /\ dealer.to = 1
  BY <1>1, TypedLemma, ProgramSteps DEF IInv, DealerState, Typed
<1>3. dealer'.status = "closed" /\ dealer'.step = 16 /\ dealer'.to = 1
  BY <1>1, <1>2, TypedLemma DEF IInv, Typed
<1>4. /\ \A t \in Nodes \ {Dealer} : toRouter'[t] = toRouter[t]
      /\ \A q \in Parties : toRouter'[Dealer][q] \in Remains(toRouter[Dealer][q])
  <2>. DEFINE new == toRouter'
  <2>1. toRouter \in [Nodes -> [Parties -> Seq(Requests)]] /\ new \in AfterClose(toRouter, Dealer)
    BY DEF IInv, TypeOK, DealerClose
  <2>. HIDE DEF new
  <2>2. /\ new \in [Nodes -> [Parties -> Seq(Requests)]]
        /\ \A t \in Nodes \ {Dealer} : new[t] = toRouter[t]
        /\ \A q \in Parties : new[Dealer][q] \in Remains(toRouter[Dealer][q])
    <3>1. Dealer \in Nodes
      BY NodesAndParties
    <3>. QED
      BY <2>1, <3>1, Closed
  <2>. QED
    BY <2>2 DEF new
<1>5. ASSUME NEW p \in Parties PROVE Session(p)'
  <2>1. Progress(p)' = Progress(p) /\ Progress(p) = 15
    BY <1>2, <1>3, ProgressRange DEF IInv, Progress
  <2>2. SessionAt(15, TRUE, toRouter'[Dealer][p], toDealer[p][Dealer], pc[p], stored[p], z[p])
    <3>. DEFINE c == dealer.status = "closed"
                req == toRouter[Dealer][p]
                rep == toDealer[p][Dealer]
                at == pc[p]
                has == stored[p]
                y == z[p]
                r == toRouter'[Dealer][p]
    <3>1. SessionAt(15, c, req, rep, at, has, y) /\ has \in BOOLEAN /\ r \in Remains(req)
      BY <1>4, <2>1, SessionNow
    <3>. HIDE DEF c, req, rep, at, has, y, r
    <3>2. SessionAt(15, TRUE, r, rep, at, has, y)
      BY <3>1, SessionClose
    <3>. QED
      BY <3>2 DEF rep, at, has, y, r
  <2>3. (dealer.status = "closed")' = TRUE
    BY <1>3
  <2>. QED
    BY <1>1, <2>1, <2>2, <2>3 DEF Session
<1>6. ASSUME NEW p \in Parties PROVE Opening(p)'
  BY <1>1 DEF IInv, Opening
<1>7. ASSUME NEW p \in Parties, NEW q \in Parties PROVE Peers(q, p)'
  <2>1. Peers(q, p) /\ toRouter'[q][p] = toRouter[q][p]
    BY <1>4, NodesAndParties DEF IInv
  <2>. QED
    BY <1>1, <1>2, <1>3, <2>1 DEF Peers, Opened
<1>8. DealerState'
  BY <1>3 DEF DealerState
<1>. QED
  BY <1>5, <1>6, <1>7, <1>8 DEF IInv

-----------------------------------------------------------------------------
(* The inductive invariant, and what follows from it.                      *)

\* Init gives every variable its type.
LEMMA InitTyped == Init => TypeOK
<1>. SUFFICES ASSUME Init PROVE Typed
  BY TypedLemma
<1>1. 1 \in Parties /\ 0 \in 0 .. N - 1 /\ <<>> \in Seq(Requests) /\ <<>> \in Seq(Replies)
  BY NodesAndParties DEF Parties
<1>2. /\ toRouter \in [Nodes -> [Parties -> Seq(Requests)]]
      /\ toDealer \in [Parties -> [Nodes -> Seq(Replies)]]
      /\ lastRoutingId \in [Parties -> Nodes \cup {NoRoute}]
  BY <1>1 DEF Init, TransportInit
<1>3. dealer \in [step: 1 .. 16, to: Parties, status: {"running", "closed", "dead"}]
  BY <1>1 DEF Init
<1>. QED
  BY <1>1, <1>2, <1>3 DEF Init, Typed

\* The session starts at its first point.
LEMMA InitIInv == Init => IInv
<1>. SUFFICES ASSUME Init PROVE IInv
  OBVIOUS
<1>1. TypeOK
  BY InitTyped
<1>2. DealerState
  BY DEF Init, DealerState
<1>3. ASSUME NEW p \in Parties PROVE Session(p)
  <2>1. Progress(p) = 0
    BY NodesAndParties DEF Init, Progress, Parties
  <2>2. toRouter[Dealer][p] = <<>> /\ toDealer[p][Dealer] = <<>>
    BY NodesAndParties DEF Init, TransportInit
  <2>3. pc[p] = "loop" /\ ~stored[p] /\ z[p] = "zero"
    BY DEF Init
  <2>. QED
    BY <2>1, <2>2, <2>3 DEF Session, SessionAt, After0
<1>4. ASSUME NEW p \in Parties PROVE Opening(p)
  BY FS_EmptySet DEF Init, Opening
<1>5. ASSUME NEW p \in Parties, NEW q \in Parties PROVE Peers(q, p)
  BY NodesAndParties DEF Init, TransportInit, Peers
<1>. QED
  BY <1>1, <1>2, <1>3, <1>4, <1>5 DEF IInv

\* IInv is inductive: one step of the proof per action.
LEMMA IInvStep == IInv /\ [Next]_vars => IInv'
<1>. SUFFICES ASSUME IInv, [Next]_vars PROVE IInv'
  OBVIOUS
<1>0. TypeOK'
  BY TypeStep DEF IInv
<1>1. CASE DealerSend
  BY <1>0, <1>1, DealerSendStep
<1>2. CASE DealerReceive
  BY <1>0, <1>2, DealerReceiveStep
<1>3. CASE DealerClose
  BY <1>0, <1>3, DealerCloseStep
<1>4. ASSUME NEW p \in Parties, NEW s \in Nodes, Deliver(p, s) PROVE IInv'
  <2>1. CASE SendSharesCmd(p, s)
    BY <1>0, <2>1, SendSharesStep
  <2>2. CASE StoreShares(p, s)
    BY <1>0, <2>2, StoreSharesStep
  <2>3. CASE Addition(p, s)
    BY <1>0, <2>3, AdditionStep
  <2>4. CASE Multiplication(p, s)
    BY <1>0, <2>4, MultiplicationStep
  <2>5. CASE ReceiveTriple(p, s)
    BY <1>0, <2>5, ReceiveTripleStep
  <2>6. CASE AddOpening(p, s)
    BY <1>0, <2>6, AddOpeningStep
  <2>7. CASE FetchMultShare(p, s)
    BY <1>0, <2>7, FetchStep
  <2>8. CASE ShutdownCmd(p, s)
    BY <1>0, <2>8, ShutdownStep
  <2>9. CASE UnknownCommand(p, s)
    BY <1>0, <2>9, UnknownStep
  <2>. QED
    BY <1>4, <2>1, <2>2, <2>3, <2>4, <2>5, <2>6, <2>7, <2>8, <2>9 DEF Deliver
<1>5. ASSUME NEW p \in Parties, FinishProduct(p) PROVE IInv'
  BY <1>0, <1>5, FinishStep
<1>6. ASSUME NEW p \in Parties, ShareTimeout(p) PROVE IInv'
  BY <1>0, <1>6, ShareTimeoutStep
<1>7. ASSUME NEW p \in Parties, OpeningTimeout(p) PROVE IInv'
  BY <1>0, <1>7, OpeningTimeoutStep
<1>8. CASE UNCHANGED vars
  BY <1>8 DEF vars, transport, party, IInv, TypeOK, DealerState, Session, Progress,
              Opening, Peers, Opened
<1>. QED
  BY <1>1, <1>2, <1>3, <1>4, <1>5, <1>6, <1>7, <1>8 DEF Next, DealerStep, PartyStep

\* (Party.cpp:75-365 against 926-1134)  Every variable keeps its type; with
\* it, the dealer's program counter and the loop counter their bounds.
THEOREM TypeCorrect == Spec => []TypeOK
<1>. QED
  BY InitTyped, TypeStep, PTL DEF Spec

\* (Party.cpp:75-365 against 926-1134)  In every reachable state, every pair
\* of processes is at one of the points of the session IInv lists.
THEOREM Invariance == Spec => []IInv
<1>. QED
  BY InitIInv, IInvStep, PTL DEF Spec

\* (Party.cpp:160-345)  The reply the secret holder reads next is the one its
\* program waits for: counting the replies is enough to tell them apart.
THEOREM AlignedReplies == Spec => []RepliesAligned
<1>1. IInv => RepliesAligned
  BY NextReplyFits DEF RepliesAligned
<1>. QED
  BY <1>1, Invariance, PTL

\* (Party.cpp:1045, 1069, 1082, 1111-1128)  No peer is ever replied to.
THEOREM DealerIsReplied == Spec => []RepliesOnlyToDealer
<1>1. IInv => RepliesOnlyToDealer
  BY DEF IInv, Peers, RepliesOnlyToDealer, Replied
<1>. QED
  BY <1>1, Invariance, PTL

\* (Party.cpp:863-887)  A product is computed from one opening of each peer.
THEOREM CompleteOpenings == Spec => []OpeningComplete
<1>1. IInv => OpeningComplete
  <2>. SUFFICES ASSUME IInv, NEW p \in Parties, z[p] # "zero"
                PROVE  added[p] = Parties \ {p} /\ count[p] = N - 1
    BY DEF OpeningComplete
  <2>1. added[p] = Parties \ {p} /\ count[p] = Cardinality(added[p])
    BY DEF IInv, Opening
  <2>2. IsFiniteSet(Parties) /\ Cardinality(Parties) = N
    BY NodesAndParties, FS_Interval DEF Parties
  <2>3. Cardinality(Parties \ {p}) = N - 1
    BY <2>2, FS_RemoveElement
  <2>. QED
    BY <2>1, <2>3
<1>. QED
  BY <1>1, Invariance, PTL

\* (Party.cpp:863-872)  No message of the secret holder can be counted as an
\* opening: none is there while a party adds up openings.
THEOREM QuietDealer == Spec => []DealerQuietWhileOpening
<1>1. IInv => DealerQuietWhileOpening
  BY SessionNow, Busy DEF DealerQuietWhileOpening, Arrived
<1>. QED
  BY <1>1, Invariance, PTL

\* (Party.cpp:1058, 831, 1116)  No command finds its data missing or freed.
THEOREM DataIsThere == Spec => []CommandFindsItsData
<1>1. ASSUME IInv, NEW p \in Parties, pc[p] = "loop", Arrived(p, Dealer)
      PROVE  /\ Received(p, Dealer) \in {"Addition", "Multiplication"} => stored[p]
             /\ Received(p, Dealer) = "FetchMultShare" => z[p] = "product"
  <2>1. toRouter[Dealer][p] # <<>> /\ Received(p, Dealer) = Head(toRouter[Dealer][p])
    BY <1>1 DEF Arrived, Received
  <2>2. CASE Received(p, Dealer) = "Addition"
    <3>1. stored[p]
      BY <1>1, <2>1, <2>2, SessionNow, Pending, Tails
    <3>. QED
      BY <2>2, <3>1
  <2>3. CASE Received(p, Dealer) = "Multiplication"
    <3>1. stored[p]
      BY <1>1, <2>1, <2>3, SessionNow, Pending, Tails
    <3>. QED
      BY <2>3, <3>1
  <2>4. CASE Received(p, Dealer) = "FetchMultShare"
    <3>1. z[p] = "product"
      BY <1>1, <2>1, <2>4, SessionNow, Pending, Tails
    <3>. QED
      BY <2>4, <3>1
  <2>. QED
    BY <2>2, <2>3, <2>4
<1>2. IInv => CommandFindsItsData
  BY <1>1 DEF CommandFindsItsData
<1>. QED
  BY <1>2, Invariance, PTL

\* What the program has come to from one party holds, but for the step under
\* way, for all of them.
LEMMA ProgressTogether ==
  ASSUME TypeOK, NEW p \in Parties, NEW q \in Parties
  PROVE  Progress(q) >= Progress(p) - 1
<1>1. dealer.step \in 1 .. 16 /\ dealer.to \in 1 .. N /\ p \in 1 .. N /\ q \in 1 .. N
      /\ N \in Nat
  BY TypedLemma, NodesAndParties DEF Typed, Parties
<1>. QED
  BY <1>1 DEF Progress

\* Once both CMD_SUCCESS are received the product is there, and the party runs.
LEMMA AfterTheProduct ==
  ASSUME NEW k \in 9 .. 15, NEW c, NEW req, NEW rep, NEW at, NEW has \in BOOLEAN, NEW y,
         SessionAt(k, c, req, rep, at, has, y)
  PROVE  y \in {"product", "freed"} /\ at \in {"loop", "exited"}
<1>1. CASE k \in {9, 10, 15}
  BY <1>1 DEF SessionAt, After9, After10, After15
<1>2. CASE k \in {11, 12, 13, 14}
  BY <1>2 DEF SessionAt, Fetched
<1>. QED
  BY <1>1, <1>2

\* A product is freed after CMD_FETCH_MULT_SHARE has been sent.
LEMMA Freed ==
  ASSUME NEW k \in 0 .. 15, NEW c, NEW req, NEW rep, NEW at, NEW has \in BOOLEAN,
         SessionAt(k, c, req, rep, at, has, "freed")
  PROVE  k >= 10
<1>1. CASE k \in {0, 1, 2, 3, 4}
  BY <1>1 DEF SessionAt, After0, After1, After2, After3, After4
<1>2. CASE k \in {5, 6, 7, 8, 9}
  BY <1>2 DEF SessionAt, After5, After6, After7, After8, After9
<1>. QED
  BY <1>1, <1>2

\* (Party.cpp:258-266, 1112)  No share of the product is given away before
\* every party has finished its opening, or when one has died.
THEOREM LateReveal == Spec => []RevealAfterAllOpened
<1>1. IInv => RevealAfterAllOpened
  <2>. SUFFICES ASSUME IInv, NEW p \in Parties, NEW q \in Parties, z[p] = "freed"
                PROVE  z[q] # "zero" /\ pc[q] # "dead"
    BY DEF RevealAfterAllOpened
  <2>1. Progress(p) >= 10
    BY SessionNow, Freed
  <2>2. Progress(q) \in 9 .. 15
    BY <2>1, ProgressTogether, ProgressRange DEF IInv
  <2>. QED
    BY <2>2, SessionNow, AfterTheProduct
<1>. QED
  BY <1>1, Invariance, PTL

\* A party leaves its loop by CMD_SHUTDOWN and in no other way.
LEMMA OnlyShutdownExits ==
  ASSUME TypeOK, [Next]_vars, NEW p \in Parties, pc[p] # "exited", pc'[p] = "exited"
  PROVE  \E s \in Nodes : ShutdownCmd(p, s)
<1>1. pc \in [Parties -> {"loop", "shares", "triple", "open", "exited", "dead"}]
  BY DEF TypeOK
<1>2. ~(UNCHANGED pc)
  OBVIOUS
<1>3. ~DealerStep /\ ~(UNCHANGED vars)
  BY <1>2 DEF DealerStep, DealerSend, DealerReceive, DealerClose, vars, party
<1>4. PICK q \in Parties : PartyStep(q)
  BY <1>3 DEF Next
<1>5. ASSUME NEW w \in {"loop", "shares", "triple", "open", "dead"}, Goto(q, w)
      PROVE  FALSE
  BY <1>1, <1>5 DEF Goto
<1>6. \A requests, replies : ~Die(q, requests, replies)
  BY <1>5 DEF Die
<1>7. ~FinishProduct(q) /\ ~ShareTimeout(q) /\ ~OpeningTimeout(q)
  BY <1>5, <1>6 DEF FinishProduct, ShareTimeout, OpeningTimeout
<1>8. ASSUME NEW s \in Nodes, Deliver(q, s) PROVE ShutdownCmd(q, s)
  <2>1. ~SendSharesCmd(q, s) /\ ~StoreShares(q, s) /\ ~Multiplication(q, s)
    BY <1>5 DEF SendSharesCmd, StoreShares, Multiplication
  <2>2. ~Addition(q, s) /\ ~FetchMultShare(q, s) /\ ~UnknownCommand(q, s)
    BY <1>2, <1>6 DEF Addition, FetchMultShare, UnknownCommand, party
  <2>3. ~ReceiveTriple(q, s) /\ ~AddOpening(q, s)
    BY <1>2, <1>5, <1>6 DEF ReceiveTriple, AddOpening
  <2>. QED
    BY <1>8, <2>1, <2>2, <2>3 DEF Deliver
<1>9. PICK s \in Nodes : ShutdownCmd(q, s)
  BY <1>4, <1>7, <1>8 DEF PartyStep
<1>10. pc' = [pc EXCEPT ![q] = "exited"]
  BY <1>9 DEF ShutdownCmd, Goto
<1>11. p = q
  BY <1>1, <1>10
<1>. QED
  BY <1>9, <1>11

\* (Party.cpp:1047, NetIOMPDealerRouter.cpp:239)  All a party has sent has
\* been received when CMD_SHUTDOWN makes it close its sockets.
THEOREM ExitIsClean == Spec => ExitLosesNothing
<1>1. IInv /\ [Next]_vars =>
        \A p \in Parties : pc[p] # "exited" /\ pc'[p] = "exited" =>
          /\ \A q \in Parties : ~Arrived(q, p)
          /\ \A s \in Nodes : ~Replied(p, s)
  <2>. SUFFICES ASSUME IInv, [Next]_vars, NEW p \in Parties,
                       pc[p] # "exited", pc'[p] = "exited"
                PROVE  /\ \A q \in Parties : ~Arrived(q, p)
                       /\ \A s \in Nodes : ~Replied(p, s)
    OBVIOUS
  <2>1. PICK s \in Nodes : ShutdownCmd(p, s)
    BY OnlyShutdownExits DEF IInv
  <2>2. Arrived(p, s) /\ pc[p] = "loop" /\ Received(p, s) = "Shutdown"
    BY <2>1 DEF ShutdownCmd, Handle, Receive
  <2>3. s = Dealer
    BY <2>2, Sender
  <2>4. /\ toRouter[Dealer][p] # <<>>
        /\ Head(toRouter[Dealer][p]) = "Shutdown"
    BY <2>2, <2>3 DEF Arrived, Received
  <2>5. toDealer[p][Dealer] = <<>> /\ Progress(p) = 15
    <3>. DEFINE k == Progress(p)
                c == dealer.status = "closed"
                req == toRouter[Dealer][p]
                rep == toDealer[p][Dealer]
                has == stored[p]
                y == z[p]
    <3>1. /\ SessionAt(k, c, req, rep, "loop", has, y)
          /\ k \in 0 .. 15 /\ has \in BOOLEAN /\ req # <<>>
          /\ Head(req) = "Shutdown"
      BY <2>2, <2>4, SessionNow
    <3>. HIDE DEF k, c, req, rep, has, y
    <3>2. rep = <<>> /\ k = 15
      BY ONLY <3>1, SessionShutdown
    <3>. QED
      BY <3>2 DEF k, rep
  <2>6. ASSUME NEW q \in Parties PROVE ~Arrived(q, p)
    <3>1. Progress(q) \in 9 .. 15
      BY <2>5, ProgressTogether, ProgressRange DEF IInv
    <3>2. z[q] # "zero"
      BY <3>1, SessionNow, AfterTheProduct
    <3>3. p # q => p \in added[q]
      BY <3>2 DEF IInv, Opening
    <3>. QED
      BY <3>3 DEF IInv, Peers, Arrived
  <2>7. \A t \in Nodes : ~Replied(p, t)
    BY <2>5, NodesAndParties DEF IInv, Peers, Replied
  <2>. QED
    BY <2>6, <2>7
<1>. QED
  BY <1>1, Invariance, PTL DEF Spec, ExitLosesNothing

=============================================================================
