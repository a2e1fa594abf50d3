-------------------------------- MODULE ReqRep --------------------------------
(***************************************************************************)
(* The REQ/REP transport of NetIOMPReqRep.cpp.                             *)
(*                                                                         *)
(* Every computing party binds one REP socket and connects one REQ socket  *)
(* to each other party (init).  ZeroMQ keeps both in lock step: a REQ      *)
(* socket that has sent a request can only receive, a REP socket that has  *)
(* received one can only send, and the other call fails with EFSM.  sendTo *)
(* hides a request and its reply in one call and calls ZeroMQ again when   *)
(* it fails; receive and reply are the two halves of the service, and a    *)
(* receive that throws after it has taken a request leaves the REP socket  *)
(* owing a reply.                                                          *)
(*                                                                         *)
(* A message is the number of the sendTo it comes from, and its reply is   *)
(* the number of the message it answers.                                   *)
(***************************************************************************)
EXTENDS Naturals, Sequences

CONSTANTS
  N,             \* the parties of m_partyInfo are 1..N
  Targets,       \* whom each party sends to
  Closers,       \* the parties that may close their sockets
  Cramped,       \* the parties whose buffer may be too small for a message
  MaxCalls,      \* bound: the messages each party sends
  MaxInterrupts, \* bound: the ZeroMQ calls that fail
  MaxRetries     \* maxRetries, 5 in the source

Parties == 1 .. N
Nodes   == 1 .. N + 1      \* run_parties.sh also starts a secret holder N + 1

ASSUME ReqRepAssumption ==
  /\ N \in Nat \ {0}
  /\ Targets \in [Parties -> SUBSET Parties]
  /\ \A p \in Parties : p \notin Targets[p]
  /\ Closers \subseteq Parties /\ Cramped \subseteq Parties
  /\ MaxCalls \in Nat /\ MaxInterrupts \in Nat /\ MaxRetries \in Nat \ {0}

None == 0     \* no party

VARIABLES
  pc,         \* where each process is: "new", "failed" (the constructor threw),
              \* "idle", in sendTo ("send", "await"), in receive ("receive"),
              \* between receive and reply ("reply"), "closed"
  todo,       \* the targets the running sendTo or sendToAll still has
  calls,      \* how many messages each party has begun to send
  retries,    \* the local of sendTo
  threw,      \* the messages whose sendTo threw
  waiting,    \* the targets whose REQ socket waits for a reply
  serving,    \* the party whose request a REP socket has to reply to, or None
  asked,      \* the number of that request
  request,    \* request[p][t]: what p sent and t has not received
  answer,     \* answer[t][p]: what t replied and p has not received
  interrupts  \* how many ZeroMQ calls have failed

client  == <<todo, calls, retries, threw, waiting>>
service == <<serving, asked>>
wire    == <<request, answer>>
vars    == <<pc, client, service, wire, interrupts>>

Init ==
  /\ pc = [p \in Nodes |-> "new"]
  /\ todo = [p \in Parties |-> <<>>]
  /\ calls = [p \in Parties |-> 0]
  /\ retries = [p \in Parties |-> 0]
  /\ threw = [p \in Parties |-> {}]
  /\ waiting = [p \in Parties |-> {}]
  /\ serving = [p \in Parties |-> None]
  /\ asked = [p \in Parties |-> 0]
  /\ request = [p \in Parties |-> [t \in Parties |-> <<>>]]
  /\ answer = [t \in Parties |-> [p \in Parties |-> <<>>]]
  /\ interrupts = 0

Goto(p, where) == pc' = [pc EXCEPT ![p] = where]

\* The constructor looks its party up in the map of the parties 1..N; init
\* then binds and connects.
Start(p) ==
  /\ pc[p] = "new"
  /\ Goto(p, IF p \in Parties THEN "idle" ELSE "failed")
  /\ UNCHANGED <<client, service, wire, interrupts>>

-----------------------------------------------------------------------------
(* sendTo and sendToAll.                                                   *)

Call(p, targets) ==
  /\ pc[p] = "idle"
  /\ calls[p] + Len(targets) <= MaxCalls
  /\ todo' = [todo EXCEPT ![p] = targets]
  /\ calls' = [calls EXCEPT ![p] = @ + 1]
  /\ retries' = [retries EXCEPT ![p] = 0]
  /\ Goto(p, "send")
  /\ UNCHANGED <<threw, waiting, service, wire, interrupts>>

CallSendTo(p) == \E t \in Targets[p] : Call(p, <<t>>)

\* sendToAll is one sendTo after the other, in the order of the map.
CallSendToAll(p) ==
  /\ N > 2
  /\ Targets[p] = Parties \ {p}
  /\ Call(p, [k \in 1 .. N - 1 |-> IF k < p THEN k ELSE k + 1])

\* Mutant: the last try is not counted.
FailedOneMore(p) ==
  IF retries[p] < MaxRetries
    THEN /\ retries' = [retries EXCEPT ![p] = @ + 1]
         /\ Goto(p, "send")
         /\ UNCHANGED <<todo, calls, threw>>
    ELSE /\ threw' = [threw EXCEPT ![p] = @ \cup {calls[p]}]
         /\ todo' = [todo EXCEPT ![p] = <<>>]
         /\ Goto(p, "idle")
         /\ UNCHANGED <<calls, retries>>

\* The catch of sendTo: another try, or the exception that leaves sendTo and,
\* uncaught, sendToAll.
Failed(p) ==
  IF retries[p] + 1 < MaxRetries
    THEN /\ retries' = [retries EXCEPT ![p] = @ + 1]
         /\ Goto(p, "send")
         /\ UNCHANGED <<todo, calls, threw>>
    ELSE /\ threw' = [threw EXCEPT ![p] = @ \cup {calls[p]}]
         /\ todo' = [todo EXCEPT ![p] = <<>>]
         /\ Goto(p, "idle")
         /\ UNCHANGED <<calls, retries>>

\* Mutant: sendTo returns without the reply.
SendRequestOnly(p) ==
  /\ pc[p] = "send"
  /\ LET t == Head(todo[p])
     IN  /\ t \notin waiting[p]
         /\ request' = [request EXCEPT ![p][t] = Append(@, calls[p])]
         /\ waiting' = [waiting EXCEPT ![p] = @ \cup {t}]
  /\ todo' = [todo EXCEPT ![p] = <<>>]
  /\ Goto(p, "idle")
  /\ UNCHANGED <<calls, retries, threw, service, answer, interrupts>>

SendRequest(p) ==
  /\ pc[p] = "send"
  /\ LET t == Head(todo[p])
     IN  /\ t \notin waiting[p]
         /\ request' = [request EXCEPT ![p][t] = Append(@, calls[p])]
         /\ waiting' = [waiting EXCEPT ![p] = @ \cup {t}]
  /\ Goto(p, "await")
  /\ UNCHANGED <<todo, calls, retries, threw, service, answer, interrupts>>

\* Mutant: a REQ socket that may send again before it has its reply.
SendRefusedSendsAgain(p) ==
  /\ pc[p] = "send"
  /\ LET t == Head(todo[p])
     IN  /\ t \in waiting[p]
         /\ request' = [request EXCEPT ![p][t] = Append(@, calls[p])]
  /\ Goto(p, "await")
  /\ UNCHANGED <<client, service, answer, interrupts>>

\* Mutant: the catch does not count.
SendRefusedForEver(p) ==
  /\ pc[p] = "send"
  /\ Head(todo[p]) \in waiting[p]
  /\ UNCHANGED vars

\* EFSM: the REQ socket still waits for the reply to an earlier request.
SendRefused(p) ==
  /\ pc[p] = "send"
  /\ Head(todo[p]) \in waiting[p]
  /\ Failed(p)
  /\ UNCHANGED <<waiting, service, wire, interrupts>>

\* A ZeroMQ call of sendTo fails for a reason from outside (EINTR).
Interrupt(p) ==
  /\ interrupts < MaxInterrupts
  /\ pc[p] \in {"send", "await"}
  /\ interrupts' = interrupts + 1
  /\ Failed(p)
  /\ UNCHANGED <<waiting, service, wire>>

\* The reply has arrived: sendTo returns, or sendToAll goes on.
ReceiveReply(p) ==
  /\ pc[p] = "await"
  /\ LET t == Head(todo[p])
     IN  /\ answer[t][p] # <<>>
         /\ answer' = [answer EXCEPT ![t][p] = Tail(@)]
         /\ waiting' = [waiting EXCEPT ![p] = @ \ {t}]
  /\ todo' = [todo EXCEPT ![p] = Tail(@)]
  /\ retries' = [retries EXCEPT ![p] = 0]
  /\ IF Tail(todo[p]) = <<>>
       THEN Goto(p, "idle") /\ UNCHANGED calls
       ELSE Goto(p, "send") /\ calls' = [calls EXCEPT ![p] = @ + 1]
  /\ UNCHANGED <<threw, service, request, interrupts>>

-----------------------------------------------------------------------------
(* receive and reply.                                                      *)

\* The REP socket of p has received a request and has to send the reply.
Owes(p) == serving[p] # None

CallReceive(p) ==
  /\ pc[p] = "idle"
  /\ Goto(p, "receive")
  /\ UNCHANGED <<client, service, wire, interrupts>>

\* Both frames of the next request of s are out of the socket.
TakeRequest(p, s) ==
  /\ pc[p] = "receive"
  /\ ~Owes(p)
  /\ request[s][p] # <<>>
  /\ request' = [request EXCEPT ![s][p] = Tail(@)]
  /\ serving' = [serving EXCEPT ![p] = s]
  /\ asked' = [asked EXCEPT ![p] = Head(request[s][p])]
  /\ UNCHANGED <<client, answer, interrupts>>

ReceiveRequest(p, s) == TakeRequest(p, s) /\ Goto(p, "reply")

\* The message is longer than the buffer: receive throws, with the request
\* taken and the reply owed.
ReceiveTooLong(p, s) == p \in Cramped /\ TakeRequest(p, s) /\ Goto(p, "idle")

\* EFSM: a REP socket that owes a reply receives nothing, and receive throws.
ReceiveRefused(p) ==
  /\ pc[p] = "receive"
  /\ Owes(p)
  /\ Goto(p, "idle")
  /\ UNCHANGED <<client, service, wire, interrupts>>

\* A failed ZeroMQ call of receive leaves it as an exception.
ReceiveThrows(p) ==
  /\ interrupts < MaxInterrupts
  /\ pc[p] = "receive"
  /\ interrupts' = interrupts + 1
  /\ Goto(p, "idle")
  /\ UNCHANGED <<client, service, wire>>

\* reply may also come later, from a caller that has caught what receive threw.
\* ZeroMQ drops a reply to a peer that has gone.
Reply(p) ==
  /\ pc[p] \in {"reply", "idle"}
  /\ Owes(p)
  /\ answer' = [answer EXCEPT ![p][serving[p]] =
                  IF pc[serving[p]] = "closed" THEN @ ELSE Append(@, asked[p])]
  /\ serving' = [serving EXCEPT ![p] = None]
  /\ Goto(p, "idle")
  /\ UNCHANGED <<client, asked, request, interrupts>>

-----------------------------------------------------------------------------
\* close, or the destructor: linger 0 discards what has not left the process
\* yet, what has arrived is never read, and a reply owed is never sent.
Close(p) ==
  /\ p \in Closers
  /\ pc[p] = "idle"
  /\ Goto(p, "closed")
  /\ \E lostRequests, lostReplies \in SUBSET Parties :
       /\ request' = [request EXCEPT ![p] =
                        [t \in Parties |-> IF t \in lostRequests THEN <<>> ELSE @[t]]]
       /\ answer' = [s \in Parties |-> [t \in Parties |->
                       IF t = p \/ (s = p /\ t \in lostReplies) THEN <<>>
                                                               ELSE answer[s][t]]]
  /\ serving' = [serving EXCEPT ![p] = None]
  /\ UNCHANGED <<client, asked, interrupts>>

Send(p) ==
  \/ CallSendTo(p) \/ CallSendToAll(p)
  \/ SendRequest(p) \/ SendRefused(p) \/ ReceiveReply(p)

Serve(p) ==
  \/ CallReceive(p) \/ ReceiveRefused(p)
  \/ \E s \in Parties : ReceiveRequest(p, s) \/ ReceiveTooLong(p, s)
  \/ Reply(p)

Next ==
  \/ \E p \in Nodes : Start(p)
  \/ \E p \in Parties : Send(p) \/ Serve(p) \/ Interrupt(p) \/ ReceiveThrows(p)
                           \/ Close(p)

Spec == Init /\ [][Next]_vars

\* Every process starts and keeps running.  One that is idle for good serves;
\* nothing makes a party call sendTo, ZeroMQ fail, a socket close, or a caller of
\* receive that has caught an exception reply.
FairSpec ==
  /\ Spec
  /\ \A p \in Nodes : WF_vars(Start(p))
  /\ \A p \in Parties :
       WF_vars(Serve(p)) /\ WF_vars(SendRequest(p) \/ SendRefused(p) \/ ReceiveReply(p))

-----------------------------------------------------------------------------
(* Properties.                                                             *)

Numbers == 0 .. MaxCalls

TypeOK ==
  /\ pc \in [Nodes -> {"new", "failed", "idle", "send", "await", "receive", "reply",
                       "closed"}]
  /\ todo \in [Parties -> Seq(Parties)]
  /\ calls \in [Parties -> Numbers]
  /\ retries \in [Parties -> 0 .. MaxRetries - 1]
  /\ threw \in [Parties -> SUBSET Numbers]
  /\ waiting \in [Parties -> SUBSET Parties]
  /\ serving \in [Parties -> Parties \cup {None}]
  /\ asked \in [Parties -> Numbers]
  /\ request \in [Parties -> [Parties -> Seq(Numbers)]]
  /\ answer \in [Parties -> [Parties -> Seq(Numbers)]]
  /\ interrupts \in 0 .. MaxInterrupts

\* The stages of one exchange between p and t that are under way.
Outstanding(p, t) ==
  Len(request[p][t]) + Len(answer[t][p]) + (IF serving[t] = p THEN 1 ELSE 0)

\* (NetIOMPReqRep.cpp:70-91, 107-151)  However often sendTo tries again, a REQ
\* socket has one exchange under way if it waits and none if it does not: the
\* retries neither send a request twice nor leave a reply behind for the next.
\* The exchange is lost only when one of the two closes its sockets.
LockStep ==
  \A p, t \in Parties : pc[p] # "closed" =>
    /\ Outstanding(p, t) <= 1
    /\ t \notin waiting[p] => Outstanding(p, t) = 0
    /\ t \in waiting[p] /\ pc[t] # "closed" => Outstanding(p, t) = 1

\* (NetIOMPReqRep.cpp:76-85)  The reply that ends a sendTo answers the message
\* of that sendTo, also after an earlier sendTo to the same party has thrown
\* with its reply still to come.
AnswerIsForThisCall ==
  \A p \in Parties : pc[p] = "await" =>
    LET replies == answer[Head(todo[p])][p]
    IN  replies # <<>> => Head(replies) = calls[p]

\* (NetIOMPReqRep.cpp:86-95)  Without a failure from outside no REQ socket is
\* left waiting by a sendTo that has ended, and no sendTo throws.
OnlyFailuresFail ==
  interrupts = 0 => \A p \in Parties :
    /\ threw[p] = {}
    /\ waiting[p] = IF pc[p] = "await" THEN {Head(todo[p])} ELSE {}

InSendTo(p) == pc[p] \in {"send", "await"}

\* No receive of t brings a reply on its way: t has closed, or a receive has thrown
\* with the request taken and every other one throws.
Unresponsive(t) == pc[t] = "closed" \/ (Owes(t) /\ pc[t] # "reply")

\* p waits in sendTo for an unresponsive party, or for one that waits in sendTo
\* itself and so on, round in a circle or up to an unresponsive one.
WaitsInVain(p) ==
  \E S \in SUBSET Parties :
    /\ p \in S
    /\ \A q \in S :
         /\ pc[q] = "await"
         /\ Head(todo[q]) \in S \/ Unresponsive(Head(todo[q]))

\* (NetIOMPReqRep.cpp:54-143)  sendTo and sendToAll end, by returning or by
\* throwing: failures are tried again a bounded number of times, and although
\* recv has no timeout, only three things can keep a call from ending: a circle of
\* parties that all send, a party that has closed, and one whose receive has
\* thrown after it had taken a request; and they keep only those from ending that
\* wait for them.
SendReturns == \A p \in Parties : InSendTo(p) ~> ~InSendTo(p) \/ WaitsInVain(p)

\* README.md:101: "Automatic retry mechanism for failed connections": sendTo
\* tries again after a failure and gets its message through.
RetriesGetThrough == \A p \in Parties : threw[p] = {}
=============================================================================
