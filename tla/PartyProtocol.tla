---------------------------- MODULE PartyProtocol ----------------------------
(***************************************************************************)
(* The session of Party.cpp: the secret holder (node N+1, "the dealer" in  *)
(* the sources) runs Party::init's straight-line program of broadcasts and *)
(* receives; every computing party runs Party::runEventLoop, and           *)
(* Party::handleMessage may receive more messages before it returns.       *)
(*                                                                         *)
(* A message is its kind.  The six one-byte commands and CMD_SUCCESS are   *)
(* "SendShares", "Addition", "Multiplication", "FetchMultShare",           *)
(* "Shutdown" and "Success"; the payloads, which carry no header, are      *)
(*   "Shares"  s0|s1|m0||m1          (init)                                *)
(*   "Triple"  a|b|c|ma|mb|mc|k      (distributeBeaverTriple)              *)
(*   "DE"      d_i|e_i               (doMultiplicationDemo, to the peers)  *)
(*   "Sum"     sum|mac               (CMD_ADDITION's reply)                *)
(*   "Z", "ZMac", "Sigma"            (CMD_FETCH_MULT_SHARE's replies)      *)
(* What the values are is the subject of module AdditiveSharing.           *)
(***************************************************************************)
EXTENDS DealerRouter, FiniteSets

CONSTANT Prompt   \* TRUE: the 300 ms receive timeout fires only when no
                  \* process of the system can take another step

ASSUME PromptAssumption == Prompt \in BOOLEAN

Commands == {"SendShares", "Addition", "Multiplication", "FetchMultShare",
             "Shutdown"}
Payloads == {"Shares", "Triple", "DE"}
Requests == Commands \cup Payloads
Replies  == {"Success", "Sum", "Z", "ZMac", "Sigma"}

VARIABLES
  dealer,  \* where the secret holder is in its program: the step, the party
           \* its loop over 1..N is at, and whether the process still runs
  pc,      \* the receive call a computing party waits in, or how it ended
  stored,  \* whether m_receivedShares holds the shares of this session
  z,       \* m_z_i: "zero" (constructed), "product" or "freed"
  added,   \* the peers whose d_j, e_j are summed up in D, E
  count    \* the loop counter of doMultiplicationDemo

party == <<pc, stored, z, added, count>>
vars  == <<transport, dealer, party>>

Init ==
  /\ TransportInit
  /\ dealer = [step |-> 1, to |-> 1, status |-> "running"]
  /\ pc     = [p \in Parties |-> "loop"]
  /\ stored = [p \in Parties |-> FALSE]
  /\ z      = [p \in Parties |-> "zero"]
  /\ added  = [p \in Parties |-> {}]
  /\ count  = [p \in Parties |-> 0]

-----------------------------------------------------------------------------
(* The secret holder.  A step of its program is a loop over the computing  *)
(* parties 1..N that sends one message to each, or receives one from each. *)

Send(m) == [op |-> "send", msg |-> m]
Await(m) == [op |-> "receive", msg |-> m]

\* Mutant: no receive before CMD_ADDITION.
ShareRoundUnacknowledged == <<Send("SendShares"), Send("Shares")>>

ShareRound == <<Send("SendShares"), Send("Shares"), Await("Success")>>

AdditionRound == <<Send("Addition"), Await("Sum")>>

\* Mutant: one of the two equal loops of receives is taken for a copy.
MultiplicationRoundOnce ==
  <<Send("Multiplication"), Send("Triple"), Await("Success")>>

MultiplicationRound ==
  <<Send("Multiplication"), Send("Triple"), Await("Success"), Await("Success")>>

\* Mutant: CMD_SHUTDOWN before the shares of zero are read.
FetchRoundWithoutSigma ==
  <<Send("FetchMultShare"), Await("Success"), Await("Z"), Await("ZMac")>>

FetchRound ==
  <<Send("FetchMultShare"), Await("Success"), Await("Z"), Await("ZMac"), Await("Sigma")>>

ShutdownRound == <<Send("Shutdown")>>

Program ==
  ShareRound \o AdditionRound \o MultiplicationRound \o FetchRound \o ShutdownRound

Advance ==
  IF dealer.to < N THEN [dealer EXCEPT !.to = @ + 1]
                   ELSE [dealer EXCEPT !.to = 1, !.step = @ + 1]

AtStep(op) ==
  /\ dealer.status = "running"
  /\ dealer.step \in DOMAIN Program
  /\ Program[dealer.step].op = op

DealerSend ==
  /\ AtStep("send")
  /\ toRouter' = SendTo(Dealer, dealer.to, Program[dealer.step].msg)
  /\ dealer' = Advance
  /\ UNCHANGED <<toDealer, lastRoutingId, party>>

\* What each receive of init takes for the reply it waits for: one byte for
\* m_cmd (a longer message throws), exactly two parts, or anything whose
\* front BN_hex2bn can read.
Accepts(expected, got) ==
  CASE expected = "Success" -> got = "Success"
    [] expected = "Sum"     -> got = "Sum"
    [] OTHER                -> got # "Success"

DealerReceive ==
  /\ AtStep("receive")
  /\ Replied(dealer.to, Dealer)
  /\ toDealer' = TakenReply(dealer.to, Dealer)
  /\ IF Accepts(Program[dealer.step].msg, NextReply(dealer.to, Dealer))
       THEN dealer' = Advance /\ UNCHANGED toRouter
       ELSE /\ dealer' = [dealer EXCEPT !.status = "dead"]
            /\ toRouter' \in AfterClose(toRouter, Dealer)
  /\ UNCHANGED <<lastRoutingId, party>>

\* init returns after the last broadcast and main destroys the sockets.
DealerClose ==
  /\ dealer.status = "running"
  /\ dealer.step \notin DOMAIN Program
  /\ dealer' = [dealer EXCEPT !.status = "closed"]
  /\ toRouter' \in AfterClose(toRouter, Dealer)
  /\ UNCHANGED <<toDealer, lastRoutingId, party>>

-----------------------------------------------------------------------------
(* The computing parties.                                                  *)

Running(p) == pc[p] \notin {"exited", "dead"}

Goto(p, where) == pc' = [pc EXCEPT ![p] = where]

\* An exception nobody catches before main, or an abort: the process ends and
\* its sockets close; requests and replies are the channels as it leaves them.
Die(p, requests, replies) ==
  /\ Goto(p, "dead")
  /\ toRouter' \in AfterClose(requests, p)
  /\ toDealer' \in AfterClose(replies, p)
  /\ UNCHANGED <<stored, z, added, count>>

\* runEventLoop hands the next message, which is m, to handleMessage.
Handle(p, s, m) ==
  /\ pc[p] = "loop"
  /\ Receive(p, s)
  /\ Received(p, s) = m

SendSharesCmd(p, s) ==
  /\ Handle(p, s, "SendShares")
  /\ toRouter' = Taken(p, s)
  /\ Goto(p, "shares")
  /\ UNCHANGED <<toDealer, dealer, stored, z, added, count>>

\* The second receive of CMD_SEND_SHARES: only four parts are stored and
\* acknowledged, any other message is dropped without an answer.
StoreShares(p, s) ==
  /\ pc[p] = "shares"
  /\ Receive(p, s)
  /\ toRouter' = Taken(p, s)
  /\ IF Received(p, s) = "Shares"
       THEN /\ stored' = [stored EXCEPT ![p] = TRUE]
            /\ toDealer' = Reply(p, lastRoutingId'[p], <<"Success">>)
       ELSE UNCHANGED <<stored, toDealer>>
  /\ Goto(p, "loop")
  /\ UNCHANGED <<dealer, z, added, count>>

\* addShares over m_receivedShares reads null pointers if nothing was stored.
Addition(p, s) ==
  /\ Handle(p, s, "Addition")
  /\ IF stored[p]
       THEN /\ toRouter' = Taken(p, s)
            /\ toDealer' = Reply(p, lastRoutingId'[p], <<"Sum">>)
            /\ UNCHANGED party
       ELSE Die(p, Taken(p, s), toDealer)
  /\ UNCHANGED dealer

Multiplication(p, s) ==
  /\ Handle(p, s, "Multiplication")
  /\ toRouter' = Taken(p, s)
  /\ Goto(p, "triple")
  /\ UNCHANGED <<toDealer, dealer, stored, z, added, count>>

\* Mutant: without the test that skips the party itself.
OpeningSentToAll(channels, p) ==
  [channels EXCEPT ![p] = [q \in Parties |-> Append(@[q], "DE")]]

\* The channels once p has sent its d_i|e_i to every peer.
OpeningSent(channels, p) ==
  [channels EXCEPT ![p] =
     [q \in Parties |-> IF q = p THEN @[q] ELSE Append(@[q], "DE")]]

\* Mutant: both CMD_SUCCESS are sent before doMultiplicationDemo.
ReceiveTripleTwice(p, s) ==
  /\ pc[p] = "triple" /\ stored[p]
  /\ Receive(p, s)
  /\ Received(p, s) = "Triple"
  /\ toRouter' = OpeningSent(Taken(p, s), p)
  /\ toDealer' = Reply(p, lastRoutingId'[p], <<"Success", "Success">>)
  /\ added' = [added EXCEPT ![p] = {}]
  /\ count' = [count EXCEPT ![p] = 0]
  /\ Goto(p, "open")
  /\ UNCHANGED <<dealer, stored, z>>

\* receiveBeaverTriple takes the next message of anyone, and throws unless it
\* has six separators.  With a triple, the party acknowledges it, and
\* doMultiplicationDemo sends d_i|e_i to every peer and starts to add up.
ReceiveTriple(p, s) ==
  /\ pc[p] = "triple"
  /\ Receive(p, s)
  /\ CASE Received(p, s) # "Triple" -> Die(p, Taken(p, s), toDealer)
       [] Received(p, s) = "Triple" /\ ~stored[p] ->
            Die(p, Taken(p, s), Reply(p, lastRoutingId'[p], <<"Success">>))
       [] Received(p, s) = "Triple" /\ stored[p] ->
            /\ toRouter' = OpeningSent(Taken(p, s), p)
            /\ toDealer' = Reply(p, lastRoutingId'[p], <<"Success">>)
            /\ added' = [added EXCEPT ![p] = {}]
            /\ count' = [count EXCEPT ![p] = 0]
            /\ Goto(p, "open")
            /\ UNCHANGED <<stored, z>>
  /\ UNCHANGED dealer

\* One turn of the receive loop of doMultiplicationDemo: whatever has a
\* separator is added to D and E and counted, whoever sent it.
AddOpening(p, s) ==
  /\ pc[p] = "open"
  /\ count[p] < N - 1
  /\ Receive(p, s)
  /\ IF Received(p, s) \in Payloads
       THEN /\ toRouter' = Taken(p, s)
            /\ added' = [added EXCEPT ![p] = @ \cup {s}]
            /\ count' = [count EXCEPT ![p] = @ + 1]
            /\ UNCHANGED <<toDealer, pc, stored, z>>
       ELSE Die(p, Taken(p, s), toDealer)
  /\ UNCHANGED dealer

\* Mutant: the second CMD_SUCCESS goes where the first one went.
FinishProductToLast(p) ==
  /\ pc[p] = "open"
  /\ count[p] = N - 1
  /\ z' = [z EXCEPT ![p] = "product"]
  /\ toDealer' = Reply(p, lastRoutingId[p], <<"Success">>)
  /\ Goto(p, "loop")
  /\ UNCHANGED <<toRouter, lastRoutingId, dealer, stored, added, count>>

\* Mutant: no second CMD_SUCCESS.
FinishProductSilently(p) ==
  /\ pc[p] = "open"
  /\ count[p] = N - 1
  /\ z' = [z EXCEPT ![p] = "product"]
  /\ Goto(p, "loop")
  /\ UNCHANGED <<transport, dealer, stored, added, count>>

\* After the loop: z_i and its MAC are computed and the second CMD_SUCCESS
\* goes to m_dealRouterId, not to the sender of the last message.
FinishProduct(p) ==
  /\ pc[p] = "open"
  /\ count[p] = N - 1
  /\ z' = [z EXCEPT ![p] = "product"]
  /\ toDealer' = Reply(p, Dealer, <<"Success">>)
  /\ Goto(p, "loop")
  /\ UNCHANGED <<toRouter, lastRoutingId, dealer, stored, added, count>>

\* Without a product, generateBatchZeroShare finds no triple after the first
\* three replies; with the freed one, the second BN_free aborts before.
FetchMultShare(p, s) ==
  /\ Handle(p, s, "FetchMultShare")
  /\ IF z[p] = "product"
       THEN /\ toRouter' = Taken(p, s)
            /\ toDealer' = Reply(p, lastRoutingId'[p], <<"Success", "Z", "ZMac", "Sigma">>)
            /\ z' = [z EXCEPT ![p] = "freed"]
            /\ UNCHANGED <<pc, stored, added, count>>
       ELSE Die(p, Taken(p, s), Reply(p, lastRoutingId'[p], <<"Success", "Z", "ZMac">>))
  /\ UNCHANGED dealer

\* The loop ends, init returns and main destroys the sockets.
ShutdownCmd(p, s) ==
  /\ Handle(p, s, "Shutdown")
  /\ toRouter' \in AfterClose(Taken(p, s), p)
  /\ toDealer' \in AfterClose(toDealer, p)
  /\ Goto(p, "exited")
  /\ UNCHANGED <<dealer, stored, z, added, count>>

\* A payload in handleMessage: memcpy writes its whole length into the one
\* byte of cmd, which is undefined; its first byte is a hexadecimal digit and
\* so no command.  The message is lost in the last branch, or the process
\* aborts.
UnknownCommand(p, s) ==
  /\ \E m \in Payloads : Handle(p, s, m)
  /\ \/ toRouter' = Taken(p, s) /\ UNCHANGED <<toDealer, party>>
     \/ Die(p, Taken(p, s), toDealer)
  /\ UNCHANGED dealer

-----------------------------------------------------------------------------
(* The receive timeout of 300 ms.                                          *)

DealerBusy ==
  /\ dealer.status = "running"
  /\ AtStep("receive") => Replied(dealer.to, Dealer)

PartyBusy(p) ==
  \/ Running(p) /\ \E s \in Nodes : Arrived(p, s)
  \/ pc[p] = "open" /\ count[p] = N - 1

MayTimeOut == Prompt => ~DealerBusy /\ \A p \in Parties : ~PartyBusy(p)

\* receive returns 0: CMD_SEND_SHARES gives up without an answer ...
ShareTimeout(p) ==
  /\ pc[p] = "shares"
  /\ MayTimeOut
  /\ Goto(p, "loop")
  /\ UNCHANGED <<transport, dealer, stored, z, added, count>>

\* ... and receiveBeaverTriple and doMultiplicationDemo throw.
OpeningTimeout(p) ==
  /\ \/ pc[p] = "triple"
     \/ pc[p] = "open" /\ count[p] < N - 1
  /\ MayTimeOut
  /\ Die(p, toRouter, toDealer)
  /\ UNCHANGED <<lastRoutingId, dealer>>

-----------------------------------------------------------------------------
DealerStep == DealerSend \/ DealerReceive \/ DealerClose

Deliver(p, s) ==
  \/ SendSharesCmd(p, s) \/ StoreShares(p, s)
  \/ Addition(p, s)
  \/ Multiplication(p, s) \/ ReceiveTriple(p, s) \/ AddOpening(p, s)
  \/ FetchMultShare(p, s)
  \/ ShutdownCmd(p, s)
  \/ UnknownCommand(p, s)

PartyStep(p) ==
  \/ \E s \in Nodes : Deliver(p, s)
  \/ FinishProduct(p)
  \/ ShareTimeout(p)
  \/ OpeningTimeout(p)

Next == DealerStep \/ \E p \in Parties : PartyStep(p)

Spec == Init /\ [][Next]_vars

\* Each process is a thread of its own that never waits for anything but the
\* messages its next receive call names.
Fairness == WF_vars(DealerStep) /\ \A p \in Parties : WF_vars(PartyStep(p))

FairSpec == Spec /\ Fairness
-----------------------------------------------------------------------------
(* What the session promises.                                              *)

\* (Party.cpp:75-365, 926-1134) Every message, reply, step and receive call is one
\* of those the program has; a party counts at most N - 1 openings, and the
\* loops of the secret holder stay within the parties 1..N.
TypeOK ==
  /\ toRouter \in [Nodes -> [Parties -> Seq(Requests)]]
  /\ toDealer \in [Parties -> [Nodes -> Seq(Replies)]]
  /\ lastRoutingId \in [Parties -> Nodes \cup {NoRoute}]
  /\ dealer \in [step: 1 .. Len(Program) + 1, to: Parties,
                 status: {"running", "closed", "dead"}]
  /\ pc \in [Parties -> {"loop", "shares", "triple", "open", "exited", "dead"}]
  /\ stored \in [Parties -> BOOLEAN]
  /\ z \in [Parties -> {"zero", "product", "freed"}]
  /\ added \in [Parties -> SUBSET Nodes]
  /\ count \in [Parties -> 0 .. N - 1]

\* (Party.cpp:160-345)  The secret holder tells the replies of a party apart
\* only by counting: whatever it reads next from a party's connection is the
\* very reply this step of its program waits for, never one left over from
\* an earlier round or sent ahead for a later one.
RepliesAligned ==
  AtStep("receive") /\ Replied(dealer.to, Dealer) =>
    NextReply(dealer.to, Dealer) = Program[dealer.step].msg

\* (Party.cpp:1045, 1069, 1082, 1111-1128)  All replies but one go to whoever
\* sent the message received last; no interleaving of the peers' d_j|e_j
\* messages ever makes a peer that sender.
RepliesOnlyToDealer == \A p, q \in Parties : ~Replied(p, q)

\* (Party.cpp:863-887)  The loop of doMultiplicationDemo counts messages, not
\* senders; still a product is computed from the d_j|e_j of each peer, once.
OpeningComplete ==
  \A p \in Parties : z[p] # "zero" => added[p] = Parties \ {p} /\ count[p] = N - 1

\* (Party.cpp:863-872)  Nothing of the secret holder is waiting while a party
\* adds up openings: its commands and payloads cannot be counted as openings.
DealerQuietWhileOpening ==
  \A p \in Parties : pc[p] = "open" => ~Arrived(p, Dealer)

\* (Party.cpp:1058, 831, 1116)  The command a party is about to handle finds
\* the data it works on: shares for an addition or a multiplication, and a
\* product that is neither missing nor freed for a fetch.
CommandFindsItsData ==
  \A p \in Parties :
    pc[p] = "loop" /\ Arrived(p, Dealer) =>
      /\ Received(p, Dealer) \in {"Addition", "Multiplication"} => stored[p]
      /\ Received(p, Dealer) = "FetchMultShare" => z[p] = "product"

\* (Party.cpp:258-266, 1112)  A party gives its share of the product away only
\* when every party has finished the opening and none has died.
RevealAfterAllOpened ==
  \A p, q \in Parties : z[p] = "freed" => z[q] # "zero" /\ pc[q] # "dead"

\* (Party.cpp:1047, NetIOMPDealerRouter.cpp:239)  A party that leaves its loop
\* closes its sockets with linger 0, and loses nothing it has sent by that.
ExitLosesNothing ==
  [][\A p \in Parties : pc[p] # "exited" /\ pc'[p] = "exited" =>
       /\ \A q \in Parties : ~Arrived(q, p)
       /\ \A s \in Nodes : ~Replied(p, s)]_vars

\* The rounds of the program: shares and sum, product, fetch, shutdown.
Round ==
  CASE dealer.step \in 1 .. 5   -> 1
    [] dealer.step \in 6 .. 9   -> 2
    [] dealer.step \in 10 .. 14 -> 3
    [] OTHER                    -> 4

RoundDone(p) ==
  (IF stored[p] THEN 1 ELSE 0) + (IF z[p] # "zero" THEN 1 ELSE 0)
    + (IF z[p] = "freed" THEN 1 ELSE 0) + (IF pc[p] = "exited" THEN 1 ELSE 0)

Barrier == INSTANCE RoundBarrier WITH
             Participants <- Parties, Rounds <- 4,
             round <- Round, done <- [p \in Parties |-> RoundDone(p)]

\* (Party.cpp:75-365 against 926-1134)  The broadcasts and the replies that are
\* counted carry out a barrier: no party is a round ahead of the program, and
\* the program is in no round before every party has done the one before.
ImplementsBarrier == Barrier!Spec

\* A party whose wait for its shares has timed out: it is back in its loop, and
\* the secret holder has nothing more for it before its CMD_SUCCESS.
WithoutShares(p) == pc[p] = "loop" /\ ~stored[p] /\ ~Arrived(p, Dealer)

\* (Party.cpp:75-365, 974-981)  Whenever the receive timeouts fire, the secret
\* holder gets to the end of its program unless some party dies or is left
\* without its shares: nothing else can make it wait forever.
CompletesOrDies ==
  \/ <>(dealer.status = "closed" \/ \E p \in Parties : pc[p] = "dead")
  \/ \E p \in Parties : <>[]WithoutShares(p)

\* README.md:7: "Support for arbitrary number of parties (n >= 2)", and
\* loggingCommunicationBugs.md:7: "With 2 parties without secrets, everything
\* works fine": the secret holder gets to the end of its program.
SessionCompletes == <>(dealer.status = "closed")

\* run_parties.sh:74: "Wait for all parties to finish": once the secret holder
\* has ended its program, every computing party leaves its loop.
AllPartiesFinish ==
  \A p \in Parties : dealer.status = "closed" ~> pc[p] = "exited"
=============================================================================
